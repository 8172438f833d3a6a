--------------------------- MODULE Decisions_proofs ---------------------------
(***************************************************************************)
(* What is proved of the parts that decide on orders, for every value of   *)
(* their constants: the limits of the pre-trade gate, the arbitration of   *)
(* intents, the stops of a position, and the margin asked for the pending   *)
(* orders.  Each is proved of its own specification.                       *)
(***************************************************************************)
EXTENDS RiskGate, Arbitration, Protection, Margin, SequenceTheorems, TLAPS

-----------------------------------------------------------------------------
(* The pre-trade gate: an approved size is the least of the caps, each cap *)
(* rounds down, and the first refusal of any check rejects.  A least cap   *)
(* exists since the caps are a few integers.                               *)

\* Thousandths.
Fraction == 0..1000

\* What a caller can pass.
FullContext ==
  [action : {"ENTER", "EXIT", "CANCEL_ENTRY"}, faults : SUBSET Faults, listed : BOOLEAN,
   equity : Int, baseline : Int, flow : Int, peak : Int, price : Nat \ {0}, stop : Int,
   cost : Nat, pending : Nat, symbol : Nat, depth : Int, want : Int, budget : Int]

GateInv == ctx \in FullContext /\ decision \in {None, Evaluate(ctx)}

HasLeast(S) == S \subseteq Int /\ \E x \in S : \A y \in S : x <= y
\* The types of the constants and of a context.
LEMMA ConstantsTyped ==
  /\ PerTrade \in Int /\ DailyLoss \in Int /\ Drawdown \in Int /\ MaxDepth \in Int
  /\ MaxGross \in Fraction /\ MaxSymbol \in Fraction
  /\ MaxOrderUsdt \in Int /\ MaxTotalUsdt \in Int /\ MaxLossUsdt \in Int
  /\ MinLots \in Nat /\ MaxLots \in Nat /\ MinNotional \in Nat
<1>1. /\ {PerTrade, DailyLoss, Drawdown, MaxGross, MaxSymbol, MaxDepth} \subseteq Fraction
      /\ {MaxOrderUsdt, MaxTotalUsdt, MaxLossUsdt} \subseteq Nat \cup {-1}
      /\ {MinLots, MaxLots, MinNotional} \subseteq Nat
  BY RiskGateAssumption DEF NoCap, Fraction
<1>2. Fraction \subseteq Int /\ Nat \cup {-1} \subseteq Int
  BY DEF Fraction
<1>3. /\ PerTrade \in Int /\ DailyLoss \in Int /\ Drawdown \in Int /\ MaxDepth \in Int
      /\ MaxOrderUsdt \in Int /\ MaxTotalUsdt \in Int /\ MaxLossUsdt \in Int
  BY <1>1, <1>2, Zenon
<1> QED
  BY <1>1, <1>3, Zenon

\* A context is what the caller passes.
LEMMA ContextTyped ==
  ASSUME NEW c \in FullContext
  PROVE  /\ c.equity \in Int /\ c.baseline \in Int /\ c.flow \in Int /\ c.peak \in Int
         /\ c.price \in Nat \ {0} /\ c.stop \in Int /\ c.cost \in Nat /\ c.pending \in Nat
         /\ c.symbol \in Nat /\ c.depth \in Int /\ c.want \in Int /\ c.budget \in Int
BY DEF FullContext
-----------------------------------------------------------------------------
(* Least elements and quotients.                                           *)

\* Min is a least element where there is one.
LEMMA MinIsLeast ==
  ASSUME NEW S, HasLeast(S)
  PROVE  Min(S) \in S /\ Min(S) \in Int /\ \A y \in S : Min(S) <= y
BY DEF Min, HasLeast

\* Nothing, or one integer.
Optional(T) == T = {} \/ \E x \in Int : T = {x}

\* One more integer leaves a least one.
LEMMA LeastOfMore ==
  ASSUME NEW S, HasLeast(S), NEW T, Optional(T)
  PROVE  HasLeast(S \cup T)
<1>1. ASSUME NEW x \in Int, T = {x}
      PROVE  HasLeast(S \cup T)
  <2>1. PICK m \in S : \A y \in S : m <= y
    BY DEF HasLeast
  <2>2. CASE m <= x
    BY <1>1, <2>1, <2>2 DEF HasLeast
  <2>3. CASE ~(m <= x)
    <3>1. \A y \in S \cup {x} : x <= y
      BY <2>1, <2>3 DEF HasLeast
    <3> QED
      BY <1>1, <3>1 DEF HasLeast
  <2> QED
    BY <2>2, <2>3
<1>2. CASE T = {}
  BY <1>2 DEF HasLeast
<1> QED
  BY <1>1, <1>2 DEF Optional

\* A quotient is rounded down.
LEMMA QuotientBound ==
  ASSUME NEW a \in Int, NEW b \in Nat \ {0}
  PROVE  a \div b \in Int /\ \A q \in Int : q <= a \div b => q * b <= a
OBVIOUS

\* What is left under a fraction of the equity is an integer.
LEMMA RemainingTyped ==
  ASSUME NEW c \in FullContext, NEW f \in Fraction, NEW used \in Nat
  PROVE  Remaining(c, f, used) \in Nat /\ Remaining(c, f, used) \div c.price \in Int
<1>1. c.equity * f \in Int /\ (c.equity * f) \div 1000 \in Int
  BY ContextTyped DEF Fraction
<1>2. Remaining(c, f, used) \in Nat
  BY <1>1, ContextTyped DEF Remaining, Larger
<1> QED
  BY <1>2, ContextTyped, QuotientBound

\* So many lots keep within a fraction of the equity.
Within(c, f, used, size) == (used + size * c.price) * 1000 <= f * c.equity

\* The lots that fit in what is left do.
LEMMA RemainingBound ==
  ASSUME NEW c \in FullContext, NEW f \in Fraction, NEW used \in Nat, NEW size \in Nat \ {0},
         size <= Remaining(c, f, used) \div c.price
  PROVE  Within(c, f, used, size)
<1> DEFINE left == Remaining(c, f, used)
<1>1. c.price \in Nat \ {0} /\ c.equity \in Int
  BY ContextTyped
<1>2. c.equity * f \in Int /\ (c.equity * f) \div 1000 \in Int
  BY <1>1 DEF Fraction
<1>3. left \in Nat
  BY RemainingTyped
<1>4. size * c.price <= left
  BY <1>1, <1>3, QuotientBound
<1>5. size * c.price \in Nat \ {0}
  BY <1>1
<1>6. left = (c.equity * f) \div 1000 - used
  BY <1>1, <1>2, <1>4, <1>5 DEF Remaining, Larger
<1>7. used + size * c.price <= (c.equity * f) \div 1000
  BY <1>2, <1>4, <1>5, <1>6
<1>8. (used + size * c.price) * 1000 <= c.equity * f
  <2> DEFINE q == used + size * c.price
             a == c.equity * f
  <2>1. q \in Int /\ a \in Int /\ q <= a \div 1000
    BY <1>2, <1>5, <1>7
  <2> HIDE DEF q, a
  <2>2. q * 1000 <= a
    BY <2>1
  <2> QED
    BY <2>2 DEF q, a
<1> QED
  BY <1>1, <1>8 DEF Within, Fraction
-----------------------------------------------------------------------------
(* Sizing.                                                                 *)

Sized(c) == CalculateSize(c).approved

\* A sized entry has a budget, a distance, room under the account's cap.
LEMMA SizedMeans ==
  ASSUME NEW c \in FullContext, Sized(c)
  PROVE  /\ StopDistance(c) \in Nat \ {0} /\ RiskCash(c) \in Nat \ {0}
         /\ ~(Min(Caps(c)) < Larger(1, MinLots))
         /\ CalculateSize(c).lots = Min(Caps(c))
<1>1. StopDistance(c) \in Int
  BY ContextTyped DEF StopDistance
<1>2. c.budget \in Int /\ c.equity * PerTrade \in Int
  BY ConstantsTyped, ContextTyped
<1>3. RiskCash(c) \in Int
  BY <1>2 DEF RiskCash
<1>4. ~(StopDistance(c) <= 0) /\ ~(RiskCash(c) <= 0) /\ ~(Min(Caps(c)) < Larger(1, MinLots))
      /\ CalculateSize(c) = Approve(Min(Caps(c)))
  BY DEF Sized, CalculateSize, Approve, Reject
<1> QED
  BY <1>1, <1>3, <1>4 DEF Approve

\* The caps that are always there.
FixedCaps(c) ==
  {RiskCash(c) \div (StopDistance(c) + c.cost), MaxLots,
   Remaining(c, MaxGross, c.pending) \div c.price,
   Remaining(c, MaxSymbol, c.symbol) \div c.price}

\* They are integers once the entry has a budget and a distance.
LEMMA FixedCapsTyped ==
  ASSUME NEW c \in FullContext, StopDistance(c) \in Nat \ {0}, RiskCash(c) \in Nat
  PROVE  FixedCaps(c) \subseteq Int
<1>1. StopDistance(c) + c.cost \in Nat \ {0}
  BY ContextTyped
<1>2. c.pending \in Nat /\ c.symbol \in Nat /\ MaxGross \in Fraction /\ MaxSymbol \in Fraction
  BY ConstantsTyped, ContextTyped
<1>3. /\ Remaining(c, MaxGross, c.pending) \div c.price \in Int
      /\ Remaining(c, MaxSymbol, c.symbol) \div c.price \in Int
  BY <1>2, RemainingTyped
<1>4. RiskCash(c) \div (StopDistance(c) + c.cost) \in Int
  BY <1>1, QuotientBound
<1> QED
  BY <1>3, <1>4, ConstantsTyped DEF FixedCaps

\* A few integers have a least one.
LEMMA LeastOfFour ==
  ASSUME NEW w \in Int, NEW x \in Int, NEW y \in Int, NEW z \in Int
  PROVE  HasLeast({w, x, y, z})
<1>1. HasLeast({w} \cup {x})
  BY LeastOfMore, HasLeast({w}) DEF HasLeast, Optional
<1>2. HasLeast(({w} \cup {x}) \cup {y})
  BY <1>1, LeastOfMore DEF Optional
<1>3. HasLeast((({w} \cup {x}) \cup {y}) \cup {z})
  BY <1>2, LeastOfMore DEF Optional
<1>4. (({w} \cup {x}) \cup {y}) \cup {z} = {w, x, y, z}
  OBVIOUS
<1> QED
  BY <1>3, <1>4

\* There is a least cap.
LEMMA CapsLeast ==
  ASSUME NEW c \in FullContext, StopDistance(c) \in Nat \ {0}, RiskCash(c) \in Nat
  PROVE  HasLeast(Caps(c))
<1> DEFINE A == FixedCaps(c)
           wanted == IF c.want # Unknown THEN {c.want} ELSE {}
           ofOrder == IF MaxOrderUsdt # NoCap THEN {MaxOrderUsdt \div c.price} ELSE {}
           ofTotal == IF MaxTotalUsdt # NoCap
                        THEN {(MaxTotalUsdt - c.pending) \div c.price} ELSE {}
           ofDepth == IF c.depth > 0 THEN {(c.depth * MaxDepth) \div 1000} ELSE {}
<1>1. HasLeast(A)
  <2>1. /\ RiskCash(c) \div (StopDistance(c) + c.cost) \in Int /\ MaxLots \in Int
        /\ Remaining(c, MaxGross, c.pending) \div c.price \in Int
        /\ Remaining(c, MaxSymbol, c.symbol) \div c.price \in Int
    BY FixedCapsTyped DEF FixedCaps
  <2> HIDE DEF A
  <2> QED
    BY <2>1, LeastOfFour DEF A, FixedCaps
<1>2. c.want \in Int /\ c.price \in Nat \ {0} /\ c.pending \in Nat /\ c.depth \in Int
  BY ContextTyped
<1>3. Optional(wanted)
  BY <1>2 DEF Optional
<1>4. Optional(ofOrder)
  BY <1>2, ConstantsTyped, QuotientBound DEF Optional
<1>5. Optional(ofTotal)
  <2>1. MaxTotalUsdt # NoCap => MaxTotalUsdt - c.pending \in Int
    BY <1>2, ConstantsTyped
  <2>2. MaxTotalUsdt # NoCap => (MaxTotalUsdt - c.pending) \div c.price \in Int
    BY <1>2, <2>1, QuotientBound
  <2> QED
    BY <2>2 DEF Optional
<1>6. Optional(ofDepth)
  <2>1. c.depth * MaxDepth \in Int
    BY ContextTyped, ConstantsTyped
  <2>2. (c.depth * MaxDepth) \div 1000 \in Int
    BY <2>1
  <2> QED
    BY <2>2 DEF Optional
<1>7. Caps(c) = A \cup wanted \cup ofOrder \cup ofTotal \cup ofDepth
  BY DEF Caps, FixedCaps
<1> HIDE DEF A, wanted, ofOrder, ofTotal, ofDepth
<1>8. HasLeast(A \cup wanted)
  BY <1>1, <1>3, LeastOfMore
<1>9. HasLeast(A \cup wanted \cup ofOrder)
  BY <1>4, <1>8, LeastOfMore
<1>10. HasLeast(A \cup wanted \cup ofOrder \cup ofTotal)
  BY <1>5, <1>9, LeastOfMore
<1>11. HasLeast(A \cup wanted \cup ofOrder \cup ofTotal \cup ofDepth)
  BY <1>6, <1>10, LeastOfMore
<1> QED
  BY <1>7, <1>11
-----------------------------------------------------------------------------
(* The refusals.                                                           *)

\* Refusals other than "OK" have a name of a check.
LEMMA FirstFaultRefuses ==
  ASSUME NEW c \in FullContext, c.faults # {}
  PROVE  FirstFault(c) # "OK"
<1>1. c.faults \subseteq Faults
  BY DEF FullContext
<1>2. \E i \in 1..13 : Checks[i] \in c.faults
  BY <1>1 DEF Faults, Checks
<1>3. \E i \in 1..13 : Checks[i] \in c.faults /\ \A j \in 1..i - 1 : Checks[j] \notin c.faults
  <2> SUFFICES ASSUME \A i \in 1..13 : Checks[i] \in c.faults =>
                        \E j \in 1..i - 1 : Checks[j] \in c.faults
               PROVE  FALSE
    OBVIOUS
  <2>1. Checks[1] \notin c.faults
    OBVIOUS
  <2>2. Checks[2] \notin c.faults /\ Checks[3] \notin c.faults /\ Checks[4] \notin c.faults
    BY <2>1
  <2>3. Checks[5] \notin c.faults /\ Checks[6] \notin c.faults /\ Checks[7] \notin c.faults
    BY <2>1, <2>2
  <2>4. Checks[8] \notin c.faults /\ Checks[9] \notin c.faults /\ Checks[10] \notin c.faults
    BY <2>1, <2>2, <2>3
  <2>5. Checks[11] \notin c.faults /\ Checks[12] \notin c.faults /\ Checks[13] \notin c.faults
    BY <2>1, <2>2, <2>3, <2>4
  <2> QED
    BY <1>2, <2>1, <2>2, <2>3, <2>4, <2>5
<1>4. PICK i \in 1..13 : FirstFault(c) = Checks[i]
  BY <1>3 DEF FirstFault, Checks
<1> QED
  BY <1>4 DEF Checks

\* An entry is approved with the size of the sizer, and no check refused.
LEMMA EntryMeans ==
  ASSUME NEW c \in FullContext, c.action = "ENTER", Evaluate(c).approved
  PROVE  /\ Evaluate(c) = CalculateSize(c) /\ Sized(c)
         /\ CheckDailyLoss(c) = "OK" /\ CheckDrawdown(c) = "OK"
         /\ CheckNotionalCaps(c, CalculateSize(c).lots * c.price) = "OK"
         /\ CheckExposure(c, CalculateSize(c).lots * c.price) = "OK"
<1> DEFINE size == CalculateSize(c)
           refusals == <<EvaluatePreTrade(c),
                         IF c.listed THEN "OK" ELSE "INSTRUMENT_UNAVAILABLE",
                         CheckStopDistance(c), size.reason,
                         CheckNotionalCaps(c, size.lots * c.price),
                         CheckExposure(c, size.lots * c.price)>>
           failed == {i \in DOMAIN refusals : refusals[i] # "OK"}
<1>1. Evaluate(c) = IF failed = {} THEN size ELSE Reject(refusals[Min(failed)])
  BY DEF Evaluate
<1>2. ~Reject(refusals[Min(failed)]).approved
  BY DEF Reject
<1>3. failed = {} /\ Evaluate(c) = size
  BY <1>1, <1>2
<1>4. \A i \in 1..6 : refusals[i] = "OK"
  BY <1>3
<1>5. /\ EvaluatePreTrade(c) = "OK"
      /\ CheckNotionalCaps(c, size.lots * c.price) = "OK"
      /\ CheckExposure(c, size.lots * c.price) = "OK"
  BY <1>4
<1>6. CheckDailyLoss(c) = "OK" /\ CheckDrawdown(c) = "OK"
  BY <1>5, FirstFaultRefuses DEF EvaluatePreTrade
<1> QED
  BY <1>3, <1>5, <1>6 DEF Sized
-----------------------------------------------------------------------------
(* The gate.                                                               *)

\* Only contexts a caller can pass are evaluated.
LEMMA InitInv == Init => GateInv
<1> SUFFICES ASSUME Init
             PROVE  GateInv
  OBVIOUS
<1>1. Context \subseteq FullContext
  <2>1. /\ Equities \subseteq Int /\ Baselines \subseteq Int /\ Flows \subseteq Int
        /\ Stops \subseteq Int /\ Depths \subseteq Int /\ Wants \subseteq Int
        /\ Budgets \subseteq Int /\ EntryPrices \subseteq Nat \ {0}
        /\ Costs \subseteq Nat /\ Pendings \subseteq Nat
    BY RiskGateAssumption
  <2> QED
    BY <2>1 DEF Context, FullContext
<1>2. \E c \in Context : TRUE
  <2>1. /\ \E x \in EntryPrices : TRUE
        /\ \E x \in Costs : TRUE
        /\ \E x \in Pendings : TRUE
        /\ \E x \in Equities : TRUE
        /\ \E x \in Baselines : TRUE
        /\ \E x \in Flows : TRUE
        /\ \E x \in Stops : TRUE
        /\ \E x \in Depths : TRUE
        /\ \E x \in Wants : TRUE
        /\ \E x \in Budgets : TRUE
    BY RiskGateAssumption
  <2>2. PICK pr \in EntryPrices, co \in Costs, pe \in Pendings, eq \in Equities, ba \in Baselines,
             fl \in Flows, st \in Stops, de \in Depths, wa \in Wants, bu \in Budgets : TRUE
    BY <2>1
  <2>3. [action |-> "ENTER", faults |-> {}, listed |-> TRUE, equity |-> eq, baseline |-> ba,
         flow |-> fl, peak |-> ba, price |-> pr, stop |-> st, cost |-> co, pending |-> pe,
         symbol |-> pe, depth |-> de, want |-> wa, budget |-> bu] \in Context
    BY <2>2 DEF Context
  <2> QED
    BY <2>3
<1>3. (CHOOSE c \in Context : TRUE) \in FullContext
  BY <1>1, <1>2
<1>4. \A base \in FullContext, v \in Variations :
        [base EXCEPT !.action = v.action, !.faults = v.faults, !.listed = v.listed]
          \in FullContext
  <2> TAKE base \in FullContext, v \in Variations
  <2>1. /\ v.action \in {"ENTER", "EXIT", "CANCEL_ENTRY"} /\ v.listed \in BOOLEAN
        /\ v.faults \in SUBSET Faults
    BY DEF Variations
  <2> QED
    BY <2>1 DEF FullContext
<1>5. ctx \in FullContext
  <2>1. CASE ctx \in Context
    BY <1>1, <2>1
  <2>2. ASSUME NEW base \in {CHOOSE c \in Context : TRUE}, NEW v \in Variations,
               ctx = [base EXCEPT !.action = v.action, !.faults = v.faults, !.listed = v.listed]
        PROVE  ctx \in FullContext
    BY <1>3, <1>4, <2>2
  <2> QED
    BY <2>1, <2>2 DEF Init
<1> QED
  BY <1>5 DEF Init, GateInv

\* A decision is that of its context.
LEMMA InvAlways == Spec => []GateInv
<1>1. GateInv /\ [Next]_vars => GateInv'
  BY DEF GateInv, Next, vars
<1> QED
  BY <1>1, InitInv, PTL DEF Spec

\* An approved entry is that of the sizer in a typed context.
LEMMA EnteredMeans ==
  ASSUME GateInv, Entered
  PROVE  /\ ctx \in FullContext /\ ctx.action = "ENTER"
         /\ decision = Evaluate(ctx) /\ Evaluate(ctx).approved
BY DEF GateInv, Entered, None

\* Once the account lost more than the day allows, deposits taken out, or
\* fell further from its peak, no entry passes, whatever its amounts
\* (RiskLimits.check_daily_loss, check_drawdown).
THEOREM LossAlwaysStops == Spec => []LossStopsEntries
<1>1. GateInv => LossStopsEntries
  <2> SUFFICES ASSUME GateInv, Entered
               PROVE  LossStopsEntries
    BY DEF LossStopsEntries
  <2>1. ctx \in FullContext /\ CheckDailyLoss(ctx) = "OK" /\ CheckDrawdown(ctx) = "OK"
    BY EnteredMeans, EntryMeans
  <2>2. /\ ctx.baseline \in Int /\ ctx.flow \in Int /\ ctx.equity \in Int /\ ctx.peak \in Int
        /\ DailyLoss \in Int /\ Drawdown \in Int /\ MaxLossUsdt \in Int
    BY <2>1, ContextTyped, ConstantsTyped
  <2>3. DailyLoss * ctx.baseline \in Int /\ Drawdown * ctx.peak \in Int
    BY <2>2
  <2>4. /\ Loss(ctx) * 1000 <= DailyLoss * ctx.baseline
        /\ MaxLossUsdt # NoCap => Loss(ctx) <= MaxLossUsdt
    BY <2>1, <2>2, <2>3 DEF CheckDailyLoss, Loss, Larger
  <2>5. Larger(0, ctx.peak - ctx.equity) * 1000 <= Drawdown * ctx.peak
    BY <2>1, <2>2, <2>3 DEF CheckDrawdown, Larger
  <2> QED
    BY <2>2, <2>3, <2>4, <2>5 DEF LossStopsEntries, Loss, Larger
<1> QED
  BY <1>1, InvAlways, PTL

\* The caps that an approved size is held against.
LEMMA CapsOf ==
  ASSUME NEW c
  PROVE  /\ RiskCash(c) \div (StopDistance(c) + c.cost) \in Caps(c) /\ MaxLots \in Caps(c)
         /\ Remaining(c, MaxGross, c.pending) \div c.price \in Caps(c)
         /\ Remaining(c, MaxSymbol, c.symbol) \div c.price \in Caps(c)
         /\ c.want # Unknown => c.want \in Caps(c)
BY Zenon DEF Caps

\* An approved size is within each cap.
LEMMA SizeWithinCaps ==
  ASSUME NEW c \in FullContext, Sized(c)
  PROVE  /\ CalculateSize(c).lots \in Nat \ {0}
         /\ Larger(1, MinLots) <= CalculateSize(c).lots
         /\ \A cap \in Caps(c) : CalculateSize(c).lots <= cap
<1>1. HasLeast(Caps(c)) /\ CalculateSize(c).lots = Min(Caps(c))
      /\ ~(Min(Caps(c)) < Larger(1, MinLots))
  BY SizedMeans, CapsLeast
<1>2. Min(Caps(c)) \in Int /\ \A cap \in Caps(c) : Min(Caps(c)) <= cap
  BY <1>1, MinIsLeast
<1>3. Larger(1, MinLots) \in Nat \ {0}
  BY ConstantsTyped DEF Larger
<1> QED
  BY <1>1, <1>2, <1>3

\* An approved entry keeps within the budget of the trade, the exposure of the
\* account and of the symbol, the absolute caps, the wish of the strategy and
\* the lots of the instrument, all at once (RiskSizer.calculate_size).
THEOREM ApprovedAlwaysWithinLimits == Spec => []ApprovedWithinLimits
<1>1. GateInv => ApprovedWithinLimits
  <2> SUFFICES ASSUME GateInv, Entered
               PROVE  ApprovedWithinLimits
    BY DEF ApprovedWithinLimits
  <2> DEFINE lots == decision.lots
  <2>1. ctx \in FullContext /\ Sized(ctx) /\ decision = CalculateSize(ctx)
        /\ CheckNotionalCaps(ctx, lots * ctx.price) = "OK"
    BY EnteredMeans, EntryMeans
  <2>2. lots \in Nat \ {0} /\ Larger(1, MinLots) <= lots /\ \A cap \in Caps(ctx) : lots <= cap
    BY <2>1, SizeWithinCaps
  <2>3. /\ ctx.cost \in Nat /\ ctx.price \in Nat \ {0} /\ ctx.pending \in Nat
        /\ ctx.symbol \in Nat /\ ctx.want \in Int
    BY <2>1, ContextTyped
  <2>4. StopDistance(ctx) \in Nat \ {0} /\ RiskCash(ctx) \in Nat \ {0}
    BY <2>1, SizedMeans
  <2> HIDE DEF lots
  <2>5. lots * (StopDistance(ctx) + ctx.cost) <= RiskCash(ctx)
    <3>1. lots <= RiskCash(ctx) \div (StopDistance(ctx) + ctx.cost)
      BY <2>2, CapsOf
    <3>2. StopDistance(ctx) + ctx.cost \in Nat \ {0}
      BY <2>3, <2>4
    <3> QED
      BY <2>2, <2>4, <3>1, <3>2, QuotientBound
  <2>6. (ctx.pending + lots * ctx.price) * 1000 <= MaxGross * ctx.equity
    <3>1. lots <= Remaining(ctx, MaxGross, ctx.pending) \div ctx.price
      BY <2>2, CapsOf
    <3>2. Within(ctx, MaxGross, ctx.pending, lots)
      BY <2>1, <2>2, <2>3, <3>1, ConstantsTyped, RemainingBound
    <3> QED
      BY <3>2 DEF Within
  <2>7. (ctx.symbol + lots * ctx.price) * 1000 <= MaxSymbol * ctx.equity
    <3>1. lots <= Remaining(ctx, MaxSymbol, ctx.symbol) \div ctx.price
      BY <2>2, CapsOf
    <3>2. Within(ctx, MaxSymbol, ctx.symbol, lots)
      BY <2>1, <2>2, <2>3, <3>1, ConstantsTyped, RemainingBound
    <3> QED
      BY <3>2 DEF Within
  <2>8. /\ MaxOrderUsdt # NoCap => lots * ctx.price <= MaxOrderUsdt
        /\ MaxTotalUsdt # NoCap => ctx.pending + lots * ctx.price <= MaxTotalUsdt
    <3>1. lots * ctx.price \in Nat
      BY <2>2, <2>3
    <3>2. CheckNotionalCaps(ctx, lots * ctx.price) = "OK"
      BY <2>1 DEF lots
    <3> QED
      BY <2>3, <3>1, <3>2, ConstantsTyped DEF CheckNotionalCaps
  <2>9. ctx.want # Unknown => lots <= ctx.want
    BY <2>2, CapsOf
  <2>10. lots \in Larger(1, MinLots)..MaxLots
    BY <2>2, CapsOf, ConstantsTyped DEF Larger
  <2> QED
    BY <2>5, <2>6, <2>7, <2>8, <2>9, <2>10 DEF lots, ApprovedWithinLimits
<1> QED
  BY <1>1, InvAlways, PTL
-----------------------------------------------------------------------------
(* The arbitration of intents: what it accepts of a batch shares the       *)
(* closing pool, nets entries to their difference, and keeps the entries   *)
(* of the instrument with one owner, who owns it while any of them binds.  *)

Strategies == {b.strategy : b \in IntentBodies}

PreparedOrder ==
  [intent : Ids, owner : Strategies, reduces : BOOLEAN, side : {1, -1}, reserved : Nat,
   terminal : BOOLEAN, known : BOOLEAN]

EntriesOwned == \A o \in Entries : o.owner = symbolOwner /\ symbolOwner # NoOwner

ArbitrationInv ==
  /\ ArbitrationTypeOK /\ OneOrderPerIntent /\ EntriesOwned
  /\ intentOrders \subseteq PreparedOrder

\* A batch and the bodies known by then.
Submitted(b, B) ==
  /\ DOMAIN b \subseteq Ids /\ B \subseteq DOMAIN b
  /\ \A i \in DOMAIN b : b[i] \in IntentBodies

\* The parts of the intents of a batch.
LEMMA IntentTyped ==
  ASSUME NEW b, NEW B, Submitted(b, B), NEW i \in B
  PROVE  /\ i \in Ids /\ b[i].strategy \in Strategies /\ b[i].strategy \in Nat
         /\ b[i].strategy # NoOwner /\ b[i].side \in {1, -1}
         /\ b[i].qty \in Nat \cup {Open, Unaligned}
  BY ArbitrationAssumption DEF Submitted, Strategies

\* A batch is finite, and its intents are numbers.
LEMMA BatchFinite ==
  ASSUME NEW b, NEW B, Submitted(b, B), NEW S \in SUBSET B
  PROVE  IsFiniteSet(S) /\ S \in SUBSET Ids /\ S \in SUBSET Nat
<1>1. IsFiniteSet(Ids) /\ Ids \in SUBSET Nat
  <2>1. MaxIntents \in Nat
    BY ArbitrationAssumption
  <2>2. QED
    BY <2>1, FS_Interval DEF Ids
<1>2. S \in SUBSET Ids
  BY DEF Submitted
<1>3. QED
  BY <1>1, <1>2, FS_Subset

\* Any intents of a batch have a first one.
LEMMA LeastExists ==
  ASSUME NEW b, NEW B, Submitted(b, B), NEW S \in SUBSET B, S # {}
  PROVE  Least(b, S) \in S
<1>1. \A i \in S : i \in Nat /\ b[i].strategy \in Nat
  BY IntentTyped, BatchFinite
<1> DEFINE who == {b[i].strategy : i \in S}
<1>2. PICK w \in who : \A v \in who : w <= v
  <2>1. who \in SUBSET Nat /\ who # {}
    BY <1>1
  <2> HIDE DEF who
  <2>2. QED
    BY <2>1, LeastOfNumbers
<1> DEFINE theirs == {i \in S : b[i].strategy = w}
<1>3. PICK i \in theirs : \A j \in theirs : i <= j
  <2>1. theirs \in SUBSET Nat /\ theirs # {}
    BY <1>1
  <2> HIDE DEF theirs
  <2>2. QED
    BY <2>1, LeastOfNumbers
<1>4. ASSUME NEW j \in S \ {i} PROVE TakenBefore(b, i, j)
  <2>1. b[i].strategy = w /\ w <= b[j].strategy /\ w \in Nat /\ b[j].strategy \in Nat
    BY <1>1, <1>2
  <2>2. CASE b[j].strategy = w
    <3>1. i <= j /\ i # j /\ i \in Nat /\ j \in Nat
      BY <1>1, <1>3, <2>2
    <3>2. QED
      BY <2>1, <2>2, <3>1 DEF TakenBefore
  <2>3. CASE b[j].strategy # w
    BY <2>1, <2>3 DEF TakenBefore
  <2>4. QED
    BY <2>2, <2>3
<1>5. i \in S /\ \A j \in S \ {i} : TakenBefore(b, i, j)
  BY <1>4
<1>6. QED
  BY <1>5 DEF Least

\* One of two intents is taken before the other, and so are those before it.
LEMMA TakenInTurn ==
  ASSUME NEW b, NEW B, Submitted(b, B), NEW S \in SUBSET B, NEW i \in S, NEW j \in S
  PROVE  /\ ~TakenBefore(b, i, i)
         /\ i # j => TakenBefore(b, i, j) \/ TakenBefore(b, j, i)
         /\ \A k \in S : TakenBefore(b, k, i) /\ TakenBefore(b, i, j) => TakenBefore(b, k, j)
<1>1. \A k \in S : k \in Nat /\ b[k].strategy \in Nat
  BY IntentTyped, BatchFinite
<1>2. ~TakenBefore(b, i, i)
  BY <1>1 DEF TakenBefore
<1>3. i # j => TakenBefore(b, i, j) \/ TakenBefore(b, j, i)
  BY <1>1 DEF TakenBefore
<1>4. \A k \in S : TakenBefore(b, k, i) /\ TakenBefore(b, i, j) => TakenBefore(b, k, j)
  BY <1>1 DEF TakenBefore
<1>5. QED
  BY <1>2, <1>3, <1>4

-----------------------------------------------------------------------------
(* The closing pool.                                                       *)

\* The orders are finitely many, each with a number of lots reserved.
LEMMA OrdersTyped ==
  ASSUME ArbitrationInv, NEW os \in SUBSET intentOrders
  PROVE  /\ IsFiniteSet(os) /\ \A o \in os : o \in PreparedOrder /\ o.reserved \in Nat
         /\ Reserved(os) \in Nat
<1>1. IsFiniteSet(os) /\ \A o \in os : o \in PreparedOrder /\ o.reserved \in Nat
  BY FS_Subset DEF ArbitrationInv, ArbitrationTypeOK
<1>2. \A o \in os : [p \in os |-> p.reserved][o] \in Nat
  BY <1>1
<1>3. QED
  BY <1>1, <1>2, TotalFinite DEF Reserved

\* Orders that do not bind reserve nothing.
LEMMA ClosingBinds ==
  ASSUME ArbitrationInv
  PROVE  ClosingReserved = Reserved(Closing) /\ Reserved(Closing) \in Nat
<1> DEFINE f == [o \in Closing |-> o.reserved]
           g == [o \in Exits |-> o.reserved]
<1>1. Closing \in SUBSET intentOrders /\ Exits \in SUBSET Closing
  BY DEF Closing, Exits, Binding
<1>2. /\ IsFiniteSet(Closing) /\ IsFiniteSet(Exits) /\ Reserved(Closing) \in Nat /\ Reserved(Exits) \in Nat
      /\ \A o \in Closing : o.reserved \in Nat
  BY <1>1, OrdersTyped
<1>3. \A o \in Closing \ Exits : o.reserved = 0
  <2>1. ASSUME NEW o \in Closing \ Exits PROVE o.reserved = 0
    <3>1. o \in intentOrders /\ o.reserved \in Nat /\ ~(o.reserved > 0)
      BY <1>2, <2>1 DEF Closing, Exits, Binding
    <3>2. QED
      BY <3>1
  <2>2. QED
    BY <2>1
<1>4. LotsOf(f, Closing) = LotsOf(g, Exits)
  <2>1. ASSUME NEW l \in LotsOf(f, Closing) PROVE l \in LotsOf(g, Exits)
    <3>1. l = <<l[1], l[2]>> /\ l[1] \in Closing /\ l[2] \in 1 .. f[l[1]]
      BY LotIsPair
    <3>2. l[1] \in Exits
      BY <1>3, <3>1
    <3>3. QED
      BY <3>1, <3>2, LotParts
  <2>2. ASSUME NEW l \in LotsOf(g, Exits) PROVE l \in LotsOf(f, Closing)
    <3>1. l = <<l[1], l[2]>> /\ l[1] \in Exits /\ l[2] \in 1 .. g[l[1]]
      BY LotIsPair
    <3>2. l[1] \in Closing
      BY <1>1, <3>1
    <3>3. l[2] \in 1 .. f[l[1]]
      BY <3>1, <3>2
    <3>4. QED
      BY <3>1, <3>2, <3>3, LotParts
  <2>3. QED
    BY <2>1, <2>2
<1>5. QED
  BY <1>2, <1>4 DEF ClosingReserved, Reserved, Total

\* What is left for the exits, and what each of them gets, add up to no more
\* than the position leaves.
LEMMA ClosesFit ==
  ASSUME ArbitrationInv, NEW b, NEW B, Submitted(b, B)
  PROVE  LET close == [i \in Closers(b, B) |-> CloseLots(b, B, i)]
         IN  /\ \A i \in Closers(b, B) : CloseLots(b, B, i) \in Nat
             /\ Total(close, Closers(b, B)) <= AvailableClose
             /\ AvailableClose \in Nat
<1>1. PICK S, e, room : /\ S = Closers(b, B) /\ room = AvailableClose
                        /\ e = [j \in S |-> Desired(b, j)]
  OBVIOUS
<1>2. room \in Nat
  <2>1. PICK r : r = Reserved(Closing) /\ r \in Nat /\ r = ClosingReserved
    BY ClosingBinds
  <2>2. symbolLots \in Int
    BY DEF ArbitrationInv, ArbitrationTypeOK
  <2>3. QED
    BY <1>1, <2>1, <2>2 DEF AvailableClose, Larger, Abs
<1>3. S \in SUBSET B /\ IsFiniteSet(S) /\ \A i \in S : b[i].qty \in Nat \cup {Open}
  <2>1. S \in SUBSET B /\ \A i \in S : b[i].qty # Unaligned
    BY <1>1 DEF Closers, Reducing, Timely
  <2>2. QED
    BY <2>1, BatchFinite, IntentTyped
<1>4. \A i \in S : e[i] = Desired(b, i) /\ e[i] \in Nat
  BY <1>1, <1>2, <1>3 DEF Desired
<1> DEFINE pre == [i \in S |-> {j \in S : TakenBefore(b, j, i)}]
           a == [i \in S |-> CloseLots(b, B, i)]
<1>5. \A i \in S : pre[i] = {j \in S : TakenBefore(b, j, i)} /\ a[i] = CloseLots(b, B, i)
  OBVIOUS
<1> HIDE DEF pre, a
<1>6. \A i \in S : e[i] \in Nat /\ pre[i] \in SUBSET S /\ i \notin pre[i]
  BY <1>3, <1>4, <1>5, TakenInTurn
<1>7. \A i, j \in S : i # j => pre[i] \cup {i} \in SUBSET pre[j] \/ pre[j] \cup {j} \in SUBSET pre[i]
  <2>1. ASSUME NEW i \in S, NEW j \in S, TakenBefore(b, i, j) PROVE pre[i] \cup {i} \in SUBSET pre[j]
    BY <1>3, <1>5, <2>1, TakenInTurn
  <2>2. QED
    BY <1>3, <2>1, TakenInTurn
<1>8. ASSUME NEW i \in S PROVE a[i] = Smaller(e[i], Larger(0, room - Total(e, pre[i])))
  <2>1. PICK left : left = LeftFor(b, B, i)
    OBVIOUS
  <2>2. left = Larger(0, room - Total(e, pre[i]))
    BY <1>1, <1>5, <2>1 DEF LeftFor
  <2>3. Total(e, pre[i]) \in Nat
    <3>1. pre[i] \in SUBSET S /\ IsFiniteSet(pre[i])
      BY <1>3, <1>6, FS_Subset
    <3>2. \A j \in pre[i] : e[j] \in Nat
      BY <1>4, <3>1
    <3>3. QED
      BY <3>1, <3>2, TotalFinite
  <2>4. left \in Nat /\ left <= room
    BY <1>2, <2>2, <2>3 DEF Larger
  <2>5. a[i] = Smaller(IF b[i].qty = Open THEN left ELSE b[i].qty, left)
    BY <1>5, <2>1 DEF CloseLots
  <2>6. e[i] = IF b[i].qty = Open THEN room ELSE b[i].qty
    BY <1>1, <1>4 DEF Desired
  <2>7. a[i] = Smaller(e[i], left)
    BY <1>2, <2>4, <2>5, <2>6 DEF Smaller
  <2>8. QED
    BY <2>2, <2>7
<1>9. (\A i \in S : a[i] \in Nat) /\ Total(a, S) <= room
  <2>1. IsFiniteSet(S)
    BY <1>3
  <2>2. QED
    BY <1>2, <1>6, <1>7, <1>8, <2>1, ServedWithinRoom
<1>10. QED
  BY <1>1, <1>2, <1>5, <1>9 DEF a
-----------------------------------------------------------------------------
(* What a batch is answered.                                               *)

\* Eligible entries are of one strategy, the owner of the instrument if it
\* has one.
LEMMA EligibleParts ==
  ASSUME ArbitrationInv, NEW b, NEW B, Submitted(b, B), NEW i \in Eligible(b, B)
  PROVE  /\ i \in Timely(b, B) /\ i \in B /\ b[i].action = "ENTER"
         /\ ~ExitActive(b, B) /\ ~Uncertain
         /\ symbolLots = 0 \/ b[i].side = Sign(symbolLots)
         /\ symbolOwner # NoOwner => b[i].strategy = symbolOwner
         /\ \A j \in Eligible(b, B) : b[j].strategy = b[i].strategy
<1>1. PICK holder : /\ \A j \in Eligible(b, B) : j \in Admissible(b, B) /\ b[j].strategy = holder
                    /\ symbolOwner # NoOwner => holder = symbolOwner
  BY DEF Eligible, PreferredOwner
<1>2. i \in Admissible(b, B)
  BY <1>1
<1>3. ~ExitActive(b, B) /\ ~Uncertain /\ i \in Wanting(b, B)
      /\ (symbolLots = 0 \/ b[i].side = Sign(symbolLots))
  BY <1>2 DEF Admissible
<1>4. QED
  BY <1>1, <1>3 DEF Wanting, Timely

\* The lots of some entries are numbers.
LEMMA AskedTyped ==
  ASSUME NEW b, NEW B, Submitted(b, B), NEW S \in SUBSET B, \A i \in S : b[i].qty \in Nat, NEW side
  PROVE  /\ Asked(b, S, side) \in Nat
         /\ (\A i \in S : b[i].side # side) => Asked(b, S, side) = 0
<1>1. PICK T : T = {i \in S : b[i].side = side}
  OBVIOUS
<1>2. PICK f : f = [i \in S |-> b[i].qty]
  OBVIOUS
<1>3. T \in SUBSET B /\ T \in SUBSET S
  BY <1>1
<1>4. IsFiniteSet(T) /\ \A i \in T : f[i] \in Nat
  BY <1>2, <1>3, BatchFinite
<1>5. Total(f, T) \in Nat
  BY <1>4, TotalFinite
<1>6. Asked(b, S, side) = Total(f, T)
  BY <1>1, <1>2 DEF Asked
<1>7. ASSUME \A i \in S : b[i].side # side PROVE Total(f, T) = 0
  <2>1. T = {}
    BY <1>1, <1>7
  <2>2. QED
    BY <2>1, TotalOfNone
<1>8. QED
  BY <1>5, <1>6, <1>7

\* The entry that carries the difference is one of those netted, on its side.
LEMMA CarrierParts ==
  ASSUME NEW b, NEW B, Submitted(b, B), NEW E \in SUBSET B
  PROVE  /\ NettedEntries(b, E) \in SUBSET E /\ \A i \in NettedEntries(b, E) : b[i].qty \in Nat
         /\ NetLots(b, E) \in Int
         /\ \A i \in Carrier(b, E) :
              /\ i \in NettedEntries(b, E) /\ NetLots(b, E) # 0
              /\ b[i].side = Sign(NetLots(b, E))
<1>1. PICK N, n : N = NettedEntries(b, E) /\ n = NetLots(b, E)
  OBVIOUS
<1>2. N \in SUBSET E /\ \A i \in N : b[i].qty \in Nat
  BY <1>1, IntentTyped DEF NettedEntries, Alike
<1>3. n = Asked(b, N, 1) - Asked(b, N, -1)
  BY <1>1 DEF NetLots, Difference
<1>4. /\ Asked(b, N, 1) \in Nat /\ ((\A i \in N : b[i].side # 1) => Asked(b, N, 1) = 0)
      /\ Asked(b, N, -1) \in Nat /\ ((\A i \in N : b[i].side # -1) => Asked(b, N, -1) = 0)
  BY <1>2, AskedTyped
<1>5. n \in Int
  BY <1>3, <1>4
<1>6. ASSUME NEW i \in Carrier(b, E) PROVE i \in N /\ n # 0 /\ b[i].side = Sign(n)
  <2>1. PICK same : same = {j \in N : b[j].side = Sign(n)}
    OBVIOUS
  <2>2. n # 0 /\ i = Least(b, same)
    BY <1>1, <1>6, <2>1 DEF Carrier
  <2>3. same # {}
    BY <1>3, <1>4, <2>1, <2>2 DEF Sign
  <2>4. same \in SUBSET B
    BY <1>2, <2>1
  <2>5. i \in same
    BY <2>2, <2>3, <2>4, LeastExists
  <2>6. QED
    BY <2>1, <2>2, <2>5
<1>7. QED
  BY <1>1, <1>2, <1>5, <1>6

\* What becomes of the intents that are accepted: an exit gets its share of
\* the pool, the carrier of the netted entries their difference, and an entry
\* that leaves its size open stands alone.
LEMMA AnswerParts ==
  ASSUME ArbitrationInv, NEW b, NEW B, Submitted(b, B), NEW i \in Accepted(b, B),
         b[i].action # "CANCEL_ENTRY"
  PROVE  /\ i \in B /\ i \in Ids /\ i \notin ConsumedIntents
         /\ \/ /\ i \in Closers(b, B) /\ b[i].action = "EXIT"
               /\ AcceptedLots(b, B)[i] = CloseLots(b, B, i)
            \/ /\ i \in Carrier(b, Eligible(b, B)) /\ i \in Eligible(b, B)
               /\ b[i].action = "ENTER" /\ AcceptedLots(b, B)[i] = Abs(NetLots(b, Eligible(b, B)))
            \/ /\ i \notin NettedEntries(b, Eligible(b, B)) /\ i \in Eligible(b, B)
               /\ b[i].action = "ENTER" /\ AcceptedLots(b, B)[i] = Open
<1>1. PICK E : E = Eligible(b, B)
  OBVIOUS
<1>2. \A j \in Served(b, B) : /\ j \in Closers(b, B) /\ j \in Timely(b, B)
                              /\ b[j].action = "EXIT"
  BY DEF Served, Closers, Reducing
<1>3. E \in SUBSET B /\ \A j \in E : j \in Timely(b, B) /\ b[j].action = "ENTER"
  BY <1>1, EligibleParts
<1>4. \A j \in Carrier(b, E) : j \in NettedEntries(b, E) /\ j \in E
  BY <1>3, CarrierParts
<1>5. \A j \in Alone(b, E) : j \in E /\ j \notin NettedEntries(b, E)
  BY DEF Alone, NettedEntries, Alike
<1>6. \A j \in Timely(b, B) : j \in B /\ j \notin ConsumedIntents
  BY DEF Timely
<1>7. CASE i \in Served(b, B)
  <2>1. i \notin Carrier(b, E)
    BY <1>2, <1>3, <1>4, <1>7
  <2>2. AcceptedLots(b, B)[i] = CloseLots(b, B, i)
    BY <1>1, <1>7, <2>1 DEF AcceptedLots
  <2>3. QED
    BY <1>1, <1>2, <1>6, <1>7, <2>2, IntentTyped
<1>8. CASE i \in Carrier(b, E)
  <2>1. i \notin Served(b, B)
    BY <1>2, <1>3, <1>4, <1>8
  <2>2. AcceptedLots(b, B)[i] = Abs(NetLots(b, E))
    BY <1>1, <1>8, <2>1 DEF AcceptedLots
  <2>3. QED
    BY <1>1, <1>3, <1>4, <1>6, <1>8, <2>2, IntentTyped
<1>9. CASE i \in Alone(b, E)
  <2>1. i \notin Served(b, B) /\ i \notin Carrier(b, E)
    BY <1>2, <1>3, <1>4, <1>5, <1>9
  <2>2. AcceptedLots(b, B)[i] = Open
    BY <1>1, <1>9, <2>1 DEF AcceptedLots
  <2>3. QED
    BY <1>1, <1>3, <1>5, <1>6, <1>9, <2>2, IntentTyped
<1>10. i \in Served(b, B) \cup Carrier(b, E) \cup Alone(b, E)
  BY <1>1 DEF Accepted
<1>11. QED
  BY <1>7, <1>8, <1>9, <1>10

\* Only intents of the batch are answered.
LEMMA AnswersBatch ==
  ASSUME ArbitrationInv, NEW b, NEW B, Submitted(b, B), NEW listed \in BOOLEAN, NEW a,
         a = Resolve(b, B, listed)
  PROVE  /\ a.accepted \cup a.rejected \cup a.netted \subseteq B
         /\ a.netted \in {{}, NettedEntries(b, Eligible(b, B))}
<1>1. CASE ~listed
  BY <1>1 DEF Resolve, Answer
<1>2. CASE listed
  <2>1. PICK E : E = Eligible(b, B)
    OBVIOUS
  <2>2. E \in SUBSET B
    BY <2>1, EligibleParts
  <2>3. /\ NettedEntries(b, E) \in SUBSET B /\ Carrier(b, E) \in SUBSET B
        /\ Alone(b, E) \in SUBSET B
    BY <2>2, CarrierParts DEF Alone
  <2>4. /\ Reducing(b, B) \in SUBSET B /\ Wanting(b, B) \in SUBSET B
        /\ Served(b, B) \in SUBSET B
    BY DEF Reducing, Wanting, Timely, Served, Closers
  <2>5. RefusedExits(b, B) \in SUBSET B /\ RefusedEntries(b, B, E) \in SUBSET B
    BY <2>2, <2>3, <2>4 DEF RefusedExits, RefusedEntries
  <2>6. /\ a.accepted = {j \in Reducing(b, B) : b[j].action = "CANCEL_ENTRY"} \cup Served(b, B)
                          \cup Carrier(b, E) \cup Alone(b, E)
        /\ a.rejected = (B \ Timely(b, B)) \cup RefusedExits(b, B) \cup RefusedEntries(b, B, E)
        /\ a.netted \in {{}, NettedEntries(b, E)}
    BY <1>2, <2>1 DEF Resolve, Answer, Accepted
  <2>7. QED
    BY <2>1, <2>3, <2>4, <2>5, <2>6
<1>3. QED
  BY <1>1, <1>2
-----------------------------------------------------------------------------
(* What is prepared for the intents that are accepted.                     *)

New(b, B) == {i \in Accepted(b, B) : b[i].action # "CANCEL_ENTRY"}
LotsGiven(b, B, risk, i) ==
  IF AcceptedLots(b, B)[i] = Open THEN risk ELSE AcceptedLots(b, B)[i]
Made(b, B, risk) == {Prepared(b, i, LotsGiven(b, B, risk, i)) : i \in New(b, B)}

\* The lots given to an intent are a number.
LEMMA GivenTyped ==
  ASSUME ArbitrationInv, NEW b, NEW B, Submitted(b, B), NEW risk \in 1..MaxRisk,
         NEW i \in New(b, B)
  PROVE  LET E == Eligible(b, B)
         IN  /\ i \in B /\ i \in Ids /\ i \notin ConsumedIntents /\ LotsGiven(b, B, risk, i) \in Nat
             /\ \/ /\ i \in Closers(b, B) /\ b[i].action = "EXIT"
                   /\ LotsGiven(b, B, risk, i) = CloseLots(b, B, i)
                \/ /\ i \in E /\ b[i].action = "ENTER"
                   /\ i \in NettedEntries(b, E) =>
                        i \in Carrier(b, E) /\ LotsGiven(b, B, risk, i) = Abs(NetLots(b, E))
<1>1. risk \in Nat
  BY ArbitrationAssumption
<1>2. i \in Accepted(b, B) /\ b[i].action # "CANCEL_ENTRY"
  BY DEF New
<1>3. PICK E : E = Eligible(b, B)
  OBVIOUS
<1>4. E \in SUBSET B
  BY <1>1, <1>3, EligibleParts
<1>5. NetLots(b, E) \in Int
  BY <1>1, <1>4, CarrierParts
<1>6. i \in B /\ i \in Ids /\ i \notin ConsumedIntents
  BY <1>1, <1>2, AnswerParts
<1>7. CASE /\ i \in Closers(b, B) /\ b[i].action = "EXIT" /\ AcceptedLots(b, B)[i] = CloseLots(b, B, i)
  <2>1. CloseLots(b, B, i) \in Nat
    BY <1>1, <1>7, ClosesFit
  <2>2. LotsGiven(b, B, risk, i) = CloseLots(b, B, i)
    BY <1>7, <2>1 DEF LotsGiven, Open
  <2>3. QED
    BY <1>6, <1>7, <2>1, <2>2
<1>8. CASE i \in Carrier(b, E) /\ i \in E /\ b[i].action = "ENTER" /\ AcceptedLots(b, B)[i] = Abs(NetLots(b, E))
  <2>1. Abs(NetLots(b, E)) \in Nat
    BY <1>5 DEF Abs
  <2>2. LotsGiven(b, B, risk, i) = Abs(NetLots(b, E))
    BY <1>8, <2>1 DEF LotsGiven, Open
  <2>3. QED
    BY <1>3, <1>6, <1>8, <2>1, <2>2
<1>9. CASE i \notin NettedEntries(b, E) /\ i \in E /\ b[i].action = "ENTER" /\ AcceptedLots(b, B)[i] = Open
  <2>1. LotsGiven(b, B, risk, i) = risk
    BY <1>9 DEF LotsGiven
  <2>2. QED
    BY <1>1, <1>3, <1>6, <1>9, <2>1
<1>10. \/ i \in Closers(b, B) /\ b[i].action = "EXIT" /\ AcceptedLots(b, B)[i] = CloseLots(b, B, i)
       \/ /\ i \in Carrier(b, E) /\ i \in E /\ b[i].action = "ENTER"
          /\ AcceptedLots(b, B)[i] = Abs(NetLots(b, E))
       \/ /\ i \notin NettedEntries(b, E) /\ i \in E /\ b[i].action = "ENTER"
          /\ AcceptedLots(b, B)[i] = Open
  BY <1>2, <1>3, AnswerParts
<1>11. QED
  BY <1>7, <1>8, <1>9, <1>10

\* An order is prepared for one intent that has none.
LEMMA MadeParts ==
  ASSUME ArbitrationInv, NEW b, NEW B, Submitted(b, B), NEW risk \in 1..MaxRisk
  PROVE  /\ IsFiniteSet(Made(b, B, risk))
         /\ \A o \in Made(b, B, risk) :
              /\ o \in PreparedOrder /\ o.intent \in New(b, B) /\ o.intent \notin ConsumedIntents
              /\ o = Prepared(b, o.intent, LotsGiven(b, B, risk, o.intent))
              /\ o.owner = b[o.intent].strategy /\ o.side = b[o.intent].side
              /\ o.reserved = LotsGiven(b, B, risk, o.intent) /\ ~o.terminal /\ o.known
              /\ o.reduces <=> b[o.intent].action = "EXIT"
<1>2. ASSUME NEW o \in Made(b, B, risk)
      PROVE  /\ o \in PreparedOrder /\ o.intent \in New(b, B) /\ o.intent \notin ConsumedIntents
             /\ o = Prepared(b, o.intent, LotsGiven(b, B, risk, o.intent))
             /\ o.owner = b[o.intent].strategy /\ o.side = b[o.intent].side
             /\ o.reserved = LotsGiven(b, B, risk, o.intent) /\ ~o.terminal /\ o.known
             /\ o.reduces <=> b[o.intent].action = "EXIT"
  <2>1. PICK i \in New(b, B) : o = Prepared(b, i, LotsGiven(b, B, risk, i))
    BY DEF Made
  <2>2. PICK n : n = LotsGiven(b, B, risk, i)
    OBVIOUS
  <2>3. /\ i \in B /\ i \in Ids /\ i \notin ConsumedIntents /\ n \in Nat
    BY <2>2, GivenTyped
  <2>4. b[i].strategy \in Strategies /\ b[i].side \in {1, -1}
    BY <2>3, IntentTyped
  <2>5. /\ o.intent = i /\ o.owner = b[i].strategy /\ o.side = b[i].side /\ o.reserved = n
        /\ ~o.terminal /\ o.known /\ (o.reduces <=> b[i].action = "EXIT")
    BY <2>1, <2>2 DEF Prepared
  <2>6. o \in PreparedOrder
    BY <2>1, <2>2, <2>3, <2>4 DEF Prepared, PreparedOrder
  <2>7. QED
    BY <2>1, <2>2, <2>3, <2>5, <2>6
<1>3. IsFiniteSet(Made(b, B, risk))
  <2>1. PICK M : M = Made(b, B, risk)
    OBVIOUS
  <2>2. \A o \in M : o.intent \in B
    <3>1. New(b, B) \subseteq B
      BY GivenTyped
    <3>2. QED
      BY <1>2, <2>1, <3>1
  <2>3. \A o, p \in M : o.intent = p.intent => o = p
    BY <1>2, <2>1
  <2> DEFINE g == [o \in M |-> o.intent]
  <2>4. g \in [M -> B] /\ \A o, p \in M : g[o] = g[p] => o = p
    BY <2>2, <2>3
  <2>5. IsFiniteSet(B)
    BY BatchFinite
  <2> HIDE DEF g
  <2>6. g \in Injection(M, B)
    BY <2>4 DEF Injection, IsInjective
  <2>7. QED
    BY <2>1, <2>5, <2>6, FS_Injection
<1>4. QED
  BY <1>2, <1>3
-----------------------------------------------------------------------------
(* The steps.                                                              *)

\* An instrument is given up only flat, with nothing that binds it.
LEMMA OwnerGivenUp ==
  ASSUME ArbitrationInv, symbolOwner' = OwnerAfter(symbolOwner, intentOrders', symbolLots')
  PROVE  \/ symbolOwner' = symbolOwner
         \/ symbolOwner' = NoOwner /\ symbolLots' = 0 /\ Entries' = {}
<1>1. CASE symbolLots' = 0 /\ \A o \in intentOrders' : o.terminal /\ o.reserved = 0 /\ o.known
  <2>1. \A o \in intentOrders' : ~(~o.terminal \/ o.reserved > 0 \/ ~o.known)
    BY <1>1
  <2>2. Entries' = {}
    BY <2>1 DEF Entries, Binding
  <2>3. QED
    BY <1>1, <2>2 DEF OwnerAfter
<1>2. CASE ~(symbolLots' = 0 /\ \A o \in intentOrders' : o.terminal /\ o.reserved = 0 /\ o.known)
  BY <1>2 DEF OwnerAfter
<1>3. QED
  BY <1>1, <1>2

\* A batch that is arbitrated, in the terms above.
LEMMA ArbitrateParts ==
  ASSUME NEW b, NEW B, NEW risk, Arbitrate(B, b, risk)
  PROVE  /\ intentOrders' = intentOrders \cup Made(b, B, risk) /\ symbolLots' = symbolLots
         /\ body' = b /\ batch' = B /\ answer' = Resolve(b, B, TRUE)
         /\ symbolOwner' =
              IF {o \in Made(b, B, risk) : ~o.reduces} = {}
                THEN OwnerAfter(symbolOwner, intentOrders', symbolLots)
                ELSE Max({o.owner : o \in {p \in Made(b, B, risk) : ~p.reduces}})
<1>1. Resolve(b, B, TRUE).accepted = Accepted(b, B) /\ Resolve(b, B, TRUE).lots = AcceptedLots(b, B)
  BY DEF Resolve, Answer
<1>2. PICK a : a = Resolve(b, B, TRUE) /\ a.accepted = Accepted(b, B) /\ a.lots = AcceptedLots(b, B)
  BY <1>1
<1>3. {Prepared(b, i, IF a.lots[i] = Open THEN risk ELSE a.lots[i]) :
         i \in {j \in a.accepted : b[j].action # "CANCEL_ENTRY"}} = Made(b, B, risk)
  BY <1>2 DEF Made, New, LotsGiven
<1>4. QED
  BY <1>2, <1>3 DEF Arbitrate

\* The owner after a batch: the one before, or of the entries prepared.
LEMMA ArbitrateOwner ==
  ASSUME ArbitrationInv, NEW b, NEW B, Submitted(b, B), NEW risk \in 1..MaxRisk,
         Arbitrate(B, b, risk)
  PROVE  /\ symbolOwner' \in Strategies \cup {NoOwner}
         /\ EntriesOwned' /\ OneOwner
<1>1. PICK M : M = Made(b, B, risk)
  OBVIOUS
<1>2. PICK entered : entered = {o \in M : ~o.reduces}
  OBVIOUS
<1>3. /\ intentOrders' = intentOrders \cup M /\ symbolLots' = symbolLots
      /\ symbolOwner' = IF entered = {} THEN OwnerAfter(symbolOwner, intentOrders', symbolLots)
                          ELSE Max({o.owner : o \in entered})
  BY <1>1, <1>2, ArbitrateParts
<1>4. symbolOwner \in Strategies \cup {NoOwner} /\ EntriesOwned
  BY DEF ArbitrationInv, ArbitrationTypeOK, Strategies
<1>5. \A o \in Entries' : o \in Entries \cup entered
  BY <1>2, <1>3 DEF Entries, Exits, Binding
<1>6. CASE entered = {}
  <2>1. symbolOwner' = OwnerAfter(symbolOwner, intentOrders', symbolLots')
    BY <1>3, <1>6
  <2>2. \/ symbolOwner' = symbolOwner
        \/ symbolOwner' = NoOwner /\ symbolLots' = 0 /\ Entries' = {}
    BY <2>1, OwnerGivenUp
  <2>3. EntriesOwned'
    BY <1>4, <1>5, <1>6, <2>2 DEF EntriesOwned
  <2>4. QED
    BY <1>4, <2>2, <2>3 DEF EntriesOwned, OneOwner
<1>7. CASE entered # {}
  <2>1. \A o \in entered : /\ o.intent \in Eligible(b, B) /\ o.owner = b[o.intent].strategy
                           /\ o.owner \in Strategies /\ o.owner # NoOwner
    <3>1. ASSUME NEW o \in entered
          PROVE  /\ o.intent \in Eligible(b, B) /\ o.owner = b[o.intent].strategy
                 /\ o.owner \in Strategies /\ o.owner # NoOwner
      <4>1. /\ o.intent \in New(b, B) /\ o.owner = b[o.intent].strategy
            /\ b[o.intent].action # "EXIT"
        BY <1>1, <1>2, <3>1, MadeParts
      <4>2. o.intent \in Eligible(b, B) /\ o.intent \in B
        BY <4>1, GivenTyped
      <4>3. QED
        BY <4>1, <4>2, IntentTyped
    <3>2. QED
      BY <3>1
  <2>2. PICK e \in entered : TRUE
    BY <1>7
  <2>3. PICK h : h = e.owner
    OBVIOUS
  <2>4. \A o \in entered : o.owner = h
    BY <2>1, <2>2, <2>3, EligibleParts
  <2>5. symbolOwner' = h
    <3>1. {o.owner : o \in entered} = {h}
      BY <2>2, <2>4
    <3>2. h \in Nat
      BY <2>1, <2>2, <2>3, ArbitrationAssumption DEF Strategies
    <3>3. Max({h}) = h
      BY <3>2 DEF Max
    <3>4. QED
      BY <1>3, <1>7, <3>1, <3>3
  <2>6. h \in Strategies /\ h # NoOwner /\ (symbolOwner # NoOwner => h = symbolOwner)
    BY <2>1, <2>2, <2>3, EligibleParts
  <2>7. EntriesOwned'
    BY <1>4, <1>5, <2>4, <2>5, <2>6 DEF EntriesOwned
  <2>8. QED
    BY <2>5, <2>6, <2>7 DEF EntriesOwned, OneOwner
<1>8. QED
  BY <1>6, <1>7

\* A batch keeps the invariant.
LEMMA ArbitrateInv ==
  ASSUME ArbitrationInv, NEW b, NEW B, Submitted(b, B), NEW risk \in 1..MaxRisk,
         Arbitrate(B, b, risk)
  PROVE  ArbitrationInv'
<1>1. PICK M : M = Made(b, B, risk)
  OBVIOUS
<1>2. /\ intentOrders' = intentOrders \cup M /\ symbolLots' = symbolLots
      /\ body' = b /\ batch' = B /\ answer' = Resolve(b, B, TRUE)
  <2>1. intentOrders' = intentOrders \cup Made(b, B, risk) /\ symbolLots' = symbolLots
    BY ArbitrateParts
  <2>2. body' = b /\ batch' = B /\ answer' = Resolve(b, B, TRUE)
    BY DEF Arbitrate
  <2>3. QED
    BY <1>1, <2>1, <2>2
<1>3. /\ ArbitrationTypeOK /\ OneOrderPerIntent /\ intentOrders \subseteq PreparedOrder
  BY DEF ArbitrationInv
<1>4. /\ IsFiniteSet(M)
      /\ \A o \in M : /\ o \in PreparedOrder /\ o.intent \notin ConsumedIntents /\ ~o.terminal
                      /\ o = Prepared(b, o.intent, LotsGiven(b, B, risk, o.intent))
  BY <1>1, MadeParts
<1>5. symbolOwner' \in Strategies \cup {NoOwner} /\ EntriesOwned'
  BY ArbitrateOwner
<1>6. intentOrders' \subseteq PreparedOrder
  BY <1>2, <1>3, <1>4
<1>7. ArbitrationTypeOK'
  <2>1. IsFiniteSet(intentOrders')
    BY <1>2, <1>3, <1>4, FS_Union DEF ArbitrationTypeOK
  <2>2. \A o \in intentOrders' : o.intent \in Ids /\ o.reserved \in Nat /\ (o.terminal => o.reserved = 0)
    <3>1. \A o \in M : o.intent \in Ids /\ o.reserved \in Nat /\ (o.terminal => o.reserved = 0)
      BY <1>4 DEF PreparedOrder
    <3>2. QED
      BY <1>2, <1>3, <3>1 DEF ArbitrationTypeOK
  <2>3. /\ DOMAIN body' \subseteq Ids /\ \A i \in DOMAIN body' : body'[i] \in IntentBodies
        /\ symbolLots' \in Int
    BY <1>2, <1>3 DEF ArbitrationTypeOK, Submitted
  <2>4. answer'.accepted \cup answer'.rejected \cup answer'.netted \subseteq batch'
    BY <1>2, AnswersBatch
  <2>5. QED
    BY <1>5, <2>1, <2>2, <2>3, <2>4 DEF ArbitrationTypeOK, Strategies
<1>8. OneOrderPerIntent'
  <2>1. \A o \in intentOrders : o.intent \in ConsumedIntents
    BY DEF ConsumedIntents
  <2>2. ASSUME NEW o \in intentOrders', NEW p \in intentOrders', o.intent = p.intent PROVE o = p
    <3>1. CASE o \in M /\ p \in M
      BY <1>4, <2>2, <3>1
    <3>2. CASE o \in intentOrders /\ p \in intentOrders
      BY <1>3, <2>2, <3>2 DEF OneOrderPerIntent
    <3>3. QED
      BY <1>2, <1>4, <2>1, <2>2, <3>1, <3>2
  <2>3. QED
    BY <2>2 DEF OneOrderPerIntent
<1>9. QED
  BY <1>5, <1>6, <1>7, <1>8 DEF ArbitrationInv

\* The exits of a batch share what the earlier ones leave of the position.
LEMMA ArbitrateCloses ==
  ASSUME ArbitrationInv, NEW b, NEW B, Submitted(b, B), NEW risk \in 1..MaxRisk,
         Arbitrate(B, b, risk)
  PROVE  ClosesSharePosition
<1>1. PICK S, M : S = Closing /\ M = {o \in Made(b, B, risk) : o.reduces}
  OBVIOUS
<1>2. Closing' = S \cup M
  BY <1>1, ArbitrateParts DEF Closing
<1>3. /\ IsFiniteSet(S) /\ \A o \in S : o.reserved \in Nat
  <2>1. S \in SUBSET intentOrders
    BY <1>1 DEF Closing
  <2>2. QED
    BY <2>1, OrdersTyped
<1>4. /\ IsFiniteSet(M)
      /\ \A o \in M : /\ o.reserved \in Nat /\ o.intent \in Closers(b, B)
                      /\ o.reserved = CloseLots(b, B, o.intent)
                      /\ o = Prepared(b, o.intent, LotsGiven(b, B, risk, o.intent))
  <2>1. IsFiniteSet(M)
    <3>1. M \in SUBSET Made(b, B, risk)
      BY <1>1
    <3>2. QED
      BY <3>1, MadeParts, FS_Subset
  <2>2. ASSUME NEW o \in M
        PROVE  /\ o.reserved \in Nat /\ o.intent \in Closers(b, B)
               /\ o.reserved = CloseLots(b, B, o.intent)
               /\ o = Prepared(b, o.intent, LotsGiven(b, B, risk, o.intent))
    <3>1. /\ o.intent \in New(b, B) /\ b[o.intent].action = "EXIT"
          /\ o.reserved = LotsGiven(b, B, risk, o.intent)
          /\ o = Prepared(b, o.intent, LotsGiven(b, B, risk, o.intent))
      BY <1>1, MadeParts
    <3>2. QED
      BY <3>1, GivenTyped
  <2>3. QED
    BY <2>1, <2>2
<1>5. PICK f : f = [o \in S \cup M |-> o.reserved]
  OBVIOUS
<1>6. PICK x, y, z, room, left :
        /\ x = Total(f, S \cup M) /\ y = Total(f, S) /\ z = Total(f, M)
        /\ room = AvailableClose /\ left = Abs(symbolLots)
  OBVIOUS
<1>7. x <= y + z /\ x \in Nat /\ y \in Nat /\ z \in Nat
  <2>1. \A o \in S \cup M : f[o] \in Nat
    BY <1>3, <1>4, <1>5
  <2>2. IsFiniteSet(S \cup M)
    BY <1>3, <1>4, FS_Union
  <2>3. QED
    BY <1>3, <1>4, <1>6, <2>1, <2>2, TotalFinite, TotalOfUnion
<1>8. Reserved(Closing)' = x
  BY <1>2, <1>5, <1>6 DEF Reserved
<1>9. Reserved(Closing) = y /\ ClosingReserved = y
  <2>1. PICK g : g = [o \in S |-> o.reserved]
    OBVIOUS
  <2>2. Total(g, S) = Total(f, S)
    BY <1>5, <2>1, TotalSame
  <2>3. Reserved(Closing) = Total(g, S)
    BY <1>1, <2>1 DEF Reserved
  <2>4. QED
    BY <1>6, <2>2, <2>3, ClosingBinds
<1>10. z <= room /\ room \in Nat
  <2>1. PICK C, close : C = Closers(b, B) /\ close = [i \in C |-> CloseLots(b, B, i)]
    OBVIOUS
  <2>2. (\A i \in C : close[i] \in Nat) /\ Total(close, C) <= room /\ room \in Nat
    BY <1>6, <2>1, ClosesFit
  <2>3. IsFiniteSet(C)
    <3>1. C \in SUBSET B
      BY <2>1 DEF Closers, Reducing, Timely
    <3>2. QED
      BY <3>1, BatchFinite
  <2>4. PICK g : g = [o \in M |-> o.intent]
    OBVIOUS
  <2>5. \A o \in M : g[o] \in C /\ f[o] \in Int /\ f[o] <= close[g[o]]
    BY <1>4, <1>5, <2>1, <2>4
  <2>6. \A o, p \in M : g[o] = g[p] => o = p
    BY <1>4, <2>4
  <2>7. Total(f, M) <= Total(close, C)
    BY <2>2, <2>3, <2>5, <2>6, TotalRenamed
  <2>8. Total(close, C) \in Nat
    BY <2>2, <2>3, TotalFinite
  <2>9. QED
    BY <1>6, <1>7, <2>2, <2>7, <2>8
<1>11. room = Larger(0, left - y) /\ left \in Nat
  <2>1. symbolLots \in Int
    BY DEF ArbitrationInv, ArbitrationTypeOK
  <2>2. QED
    BY <1>6, <1>9, <2>1 DEF AvailableClose, Abs
<1>12. x <= Larger(y, left)
  BY <1>7, <1>10, <1>11 DEF Larger
<1>13. QED
  BY <1>6, <1>8, <1>9, <1>12 DEF ClosesSharePosition
\* The entries of a batch yield to exits and to what is unknown, and carry
\* the difference of what was asked.
LEMMA ArbitrateYields ==
  ASSUME ArbitrationInv, NEW b, NEW B, Submitted(b, B), NEW risk \in 1..MaxRisk,
         Arbitrate(B, b, risk)
  PROVE  EntriesYield /\ NettedToDifference
<1>1. PICK M : M = Made(b, B, risk)
  OBVIOUS
<1>2. intentOrders' = intentOrders \cup M
  BY <1>1, ArbitrateParts
<1>3. body' = b /\ answer' = Resolve(b, B, TRUE)
  BY DEF Arbitrate
<1>4. ASSUME NEW o \in intentOrders', ~o.reduces, o.intent \notin ConsumedIntents
      PROVE  /\ o \in M /\ o.intent \in New(b, B) /\ o.intent \in Eligible(b, B)
             /\ o.side = b[o.intent].side /\ o.reserved = LotsGiven(b, B, risk, o.intent)
  <2>1. o \in M
    BY <1>2, <1>4 DEF ConsumedIntents
  <2>2. /\ o.intent \in New(b, B) /\ b[o.intent].action # "EXIT"
        /\ o.side = b[o.intent].side /\ o.reserved = LotsGiven(b, B, risk, o.intent)
    BY <1>1, <1>4, <2>1, MadeParts
  <2>3. QED
    BY <2>1, <2>2, GivenTyped
<1>5. EntriesYield
  <2>1. SUFFICES ASSUME NEW o \in intentOrders', ~o.reduces, o.intent \notin ConsumedIntents
                 PROVE  /\ \A p \in intentOrders' : p.reduces => p.reserved = 0
                        /\ \A p \in intentOrders : p.known
                        /\ symbolLots = 0 \/ o.side = Sign(symbolLots)
    BY DEF EntriesYield
  <2>2. PICK i \in Eligible(b, B) : i = o.intent /\ o.side = b[i].side
    BY <1>4, <2>1
  <2>3. /\ ~ExitActive(b, B) /\ ~Uncertain
        /\ symbolLots = 0 \/ b[i].side = Sign(symbolLots)
    BY EligibleParts
  <2>4. \A p \in intentOrders : p.known
    BY <2>3 DEF Uncertain, Binding
  <2>5. ASSUME NEW p \in intentOrders', p.reduces PROVE p.reserved = 0
    <3>1. CASE p \in intentOrders
      <4>1. p.reserved \in Nat
        BY <3>1 DEF ArbitrationInv, ArbitrationTypeOK
      <4>2. ~(p.reserved > 0)
        BY <2>3, <2>5, <3>1 DEF ExitActive, ExitWorking, Exits, Binding
      <4>3. QED
        BY <4>1, <4>2
    <3>2. CASE p \in M
      <4>1. p.intent \in New(b, B) /\ b[p.intent].action = "EXIT"
        BY <1>1, <2>5, <3>2, MadeParts
      <4>2. p.intent \in Closers(b, B)
        BY <4>1, GivenTyped
      <4>3. Reducing(b, B) # {}
        BY <4>2 DEF Closers
      <4>4. QED
        BY <2>3, <4>3 DEF ExitActive
    <3>3. QED
      BY <1>2, <3>1, <3>2
  <2>6. QED
    BY <2>2, <2>3, <2>4, <2>5
<1>6. NettedToDifference
  <2>1. SUFFICES ASSUME NEW o \in intentOrders', ~o.reduces, o.intent \in answer'.netted,
                        o.intent \notin ConsumedIntents
                 PROVE  o.reserved * o.side = Difference(body', answer'.netted)
    BY DEF NettedToDifference
  <2>2. PICK E : E = Eligible(b, B) /\ E \in SUBSET B
    BY EligibleParts
  <2>3. answer'.netted = NettedEntries(b, E)
    <3>1. answer'.netted \in {{}, NettedEntries(b, E)}
      BY <1>3, <2>2, AnswersBatch
    <3>2. QED
      BY <2>1, <3>1
  <2>4. PICK i \in New(b, B) : /\ i = o.intent /\ i \in E /\ o.side = b[i].side
                               /\ o.reserved = LotsGiven(b, B, risk, i)
    BY <1>4, <2>1, <2>2
  <2>5. b[i].action = "ENTER"
    BY <2>2, <2>4, EligibleParts
  <2>6. i \in Carrier(b, E) /\ o.reserved = Abs(NetLots(b, E))
    BY <2>1, <2>2, <2>3, <2>4, <2>5, GivenTyped
  <2>7. PICK n \in Int : n = NetLots(b, E) /\ n # 0 /\ o.side = Sign(n)
    BY <2>2, <2>4, <2>6, CarrierParts
  <2>8. Difference(body', answer'.netted) = n
    BY <1>3, <2>3, <2>7 DEF NetLots
  <2>9. o.reserved = Abs(n)
    BY <2>6, <2>7
  <2>10. Abs(n) * Sign(n) = n
    <3>1. CASE n > 0
      BY <3>1 DEF Abs, Sign
    <3>2. CASE n < 0
      BY <3>2 DEF Abs, Sign
    <3>3. QED
      BY <2>7, <3>1, <3>2
  <2>11. QED
    BY <2>7, <2>8, <2>9, <2>10
<1>7. QED
  BY <1>5, <1>6

\* What a step does to one order: it keeps whose and what kind it is, and
\* never reserves more.
LEMMA UpdateKeeps ==
  ASSUME ArbitrationInv, NEW o \in intentOrders, NEW new \in PreparedOrder, Update(o, new),
         symbolLots' \in Int, o \in Binding,
         new.intent = o.intent, new.owner = o.owner, new.reduces = o.reduces,
         new.reserved <= o.reserved, new.terminal => new.reserved = 0
  PROVE  /\ ArbitrationInv' /\ OneOwner /\ ClosesSharePosition
         /\ EntriesYield /\ NettedToDifference
<1>1. /\ intentOrders' = (intentOrders \ {o}) \cup {new}
      /\ symbolOwner' = OwnerAfter(symbolOwner, intentOrders', symbolLots')
      /\ batch' = {} /\ answer' = NoAnswer /\ body' = body
  BY DEF Update
<1>2. /\ ArbitrationTypeOK /\ OneOrderPerIntent /\ EntriesOwned
      /\ intentOrders \subseteq PreparedOrder
  BY DEF ArbitrationInv
<1>3. /\ NoAnswer.accepted = {} /\ NoAnswer.rejected = {} /\ NoAnswer.netted = {}
  BY DEF NoAnswer, Answer
<1>4. \/ symbolOwner' = symbolOwner
      \/ symbolOwner' = NoOwner /\ symbolLots' = 0 /\ Entries' = {}
  BY <1>1, OwnerGivenUp
<1>5. intentOrders' \subseteq PreparedOrder
  BY <1>1, <1>2
<1>6. ArbitrationTypeOK'
  <2>1. IsFiniteSet(intentOrders')
    <3>1. IsFiniteSet(intentOrders) /\ intentOrders \ {o} \in SUBSET intentOrders
      BY <1>2 DEF ArbitrationTypeOK
    <3>2. IsFiniteSet(intentOrders \ {o}) /\ IsFiniteSet({new})
      BY <3>1, FS_Subset, FS_Singleton
    <3>3. QED
      BY <1>1, <3>2, FS_Union
  <2>2. \A p \in intentOrders' : p.intent \in Ids /\ p.reserved \in Nat /\ (p.terminal => p.reserved = 0)
    <3>1. new.intent \in Ids /\ new.reserved \in Nat
      BY DEF PreparedOrder
    <3>2. QED
      BY <1>1, <1>2, <3>1 DEF ArbitrationTypeOK
  <2>3. /\ DOMAIN body' \subseteq Ids /\ \A i \in DOMAIN body' : body'[i] \in IntentBodies
    BY <1>1, <1>2 DEF ArbitrationTypeOK
  <2>4. symbolOwner' \in {b.strategy : b \in IntentBodies} \cup {NoOwner}
    BY <1>2, <1>4 DEF ArbitrationTypeOK
  <2>5. answer'.accepted \cup answer'.rejected \cup answer'.netted \subseteq batch'
    BY <1>1, <1>3
  <2>6. QED
    BY <2>1, <2>2, <2>3, <2>4, <2>5 DEF ArbitrationTypeOK
<1>7. OneOrderPerIntent'
  BY <1>1, <1>2 DEF OneOrderPerIntent
<1>8. ASSUME NEW p \in Entries' PROVE p.owner = symbolOwner /\ symbolOwner # NoOwner
  <2>1. CASE p = new
    <3>1. o \in Entries
      BY <1>8, <2>1 DEF Entries, Exits, Binding
    <3>2. QED
      BY <1>2, <2>1, <3>1 DEF EntriesOwned
  <2>2. CASE p # new
    <3>1. p \in Entries
      BY <1>1, <1>8, <2>2 DEF Entries, Exits, Binding
    <3>2. QED
      BY <1>2, <3>1 DEF EntriesOwned
  <2>3. QED
    BY <2>1, <2>2
<1>9. EntriesOwned'
  BY <1>4, <1>8 DEF EntriesOwned
<1>10. OneOwner
  BY <1>4, <1>9 DEF OneOwner, EntriesOwned
<1>11. ClosesSharePosition
  <2>1. PICK f : f = [p \in intentOrders \cup intentOrders' |-> p.reserved]
    OBVIOUS
  <2>2. PICK S, T, R : S = Closing /\ T = Closing' /\ R = S \ {o}
    OBVIOUS
  <2>3. /\ S \subseteq intentOrders /\ T \subseteq intentOrders' /\ R \subseteq S /\ o \notin R
        /\ T \subseteq R \cup {new} /\ (o \notin S => T \subseteq S)
    BY <1>1, <2>2 DEF Closing
  <2>4. \A p \in S \cup T \cup {o, new} : f[p] = p.reserved /\ f[p] \in Nat /\ f[p] \in Int /\ f[p] <= f[p]
    <3>1. \A p \in S \cup T \cup {o, new} : p.reserved \in Nat /\ p \in intentOrders \cup intentOrders'
      BY <1>1, <1>2, <1>5, <2>3 DEF PreparedOrder
    <3>2. QED
      BY <2>1, <3>1
  <2>5. Reserved(Closing) = Total(f, S) /\ Reserved(Closing)' = Total(f, T)
    <3>1. PICK g, h : g = [p \in S |-> p.reserved] /\ h = [p \in T |-> p.reserved]
      OBVIOUS
    <3>2. Total(g, S) = Total(f, S) /\ Total(h, T) = Total(f, T)
      BY <2>4, <3>1, TotalSame
    <3>3. Reserved(Closing) = Total(g, S) /\ Reserved(Closing)' = Total(h, T)
      BY <2>2, <3>1 DEF Reserved
    <3>4. QED
      BY <3>2, <3>3
  <2>6. IsFiniteSet(S) /\ IsFiniteSet(R) /\ IsFiniteSet({new}) /\ IsFiniteSet(R \cup {new})
    <3>1. IsFiniteSet(S) /\ IsFiniteSet(R)
      BY <1>2, <2>3, FS_Subset DEF ArbitrationTypeOK
    <3>2. IsFiniteSet({new})
      BY FS_Singleton
    <3>3. QED
      BY <3>1, <3>2, FS_Union
  <2>7. Total(f, T) <= Total(f, S)
    <3>1. CASE o \notin S
      <4>1. T \in SUBSET S
        BY <2>3, <3>1
      <4>2. QED
        BY <2>4, <2>6, <4>1, TotalGrows
    <3>2. CASE o \in S
      <4>1. S = R \cup {o} /\ T \in SUBSET (R \cup {new}) /\ R \subseteq S
        BY <2>2, <2>3, <3>2
      <4>2. Total(f, S) = Total(f, R) + f[o] /\ Total(f, R) \in Nat
        <5>1. \A p \in R \cup {o} : f[p] \in Nat
          BY <2>4, <4>1
        <5>2. Total(f, R \cup {o}) = Total(f, R) + f[o]
          BY <2>3, <2>6, <5>1, TotalAddOrder
        <5>3. QED
          BY <2>6, <4>1, <5>1, <5>2, TotalFinite
      <4>3. Total(f, T) <= Total(f, R \cup {new})
        BY <2>4, <2>6, <4>1, TotalGrows
      <4>4. Total(f, R \cup {new}) <= Total(f, R) + f[new]
        <5>1. CASE new \in R
          <6>1. R \cup {new} = R
            BY <5>1
          <6>2. PICK r, m : r = Total(f, R) /\ m = f[new] /\ r \in Nat /\ m \in Nat
            BY <2>4, <4>2
          <6>3. r <= r + m
            BY <6>2
          <6>4. QED
            BY <6>1, <6>2, <6>3
        <5>2. CASE new \notin R
          <6>1. \A p \in R \cup {new} : f[p] \in Nat
            BY <2>4, <4>1
          <6>2. Total(f, R \cup {new}) = Total(f, R) + f[new]
            BY <2>6, <5>2, <6>1, TotalAddOrder
          <6>3. PICK r, m : r = Total(f, R) /\ m = f[new] /\ r \in Nat /\ m \in Nat
            BY <2>4, <4>2
          <6>4. r + m <= r + m
            BY <6>3
          <6>5. QED
            BY <6>2, <6>3, <6>4
        <5>3. QED
          BY <5>1, <5>2
      <4>5. /\ f[new] <= f[o] /\ f[new] \in Nat /\ f[o] \in Nat
            /\ Total(f, T) \in Nat /\ Total(f, R \cup {new}) \in Nat
        <5>1. IsFiniteSet(T) /\ \A p \in T : f[p] \in Nat
          BY <2>4, <2>6, <4>1, FS_Subset
        <5>2. \A p \in R \cup {new} : f[p] \in Nat
          BY <2>4, <4>1
        <5>3. QED
          BY <2>4, <2>6, <5>1, <5>2, TotalFinite
      <4>6. QED
        BY <4>2, <4>3, <4>4, <4>5
    <3>3. QED
      BY <3>1, <3>2
  <2>8. Total(f, T) \in Nat /\ Total(f, S) \in Nat
    <3>1. IsFiniteSet(T) /\ T \subseteq R \cup {new}
      BY <2>3, <2>6, FS_Subset
    <3>2. QED
      BY <2>4, <2>6, <3>1, TotalFinite
  <2>9. symbolLots \in Int
    BY <1>2 DEF ArbitrationTypeOK
  <2>10. PICK x, y, left : x = Total(f, T) /\ y = Total(f, S) /\ left = Abs(symbolLots)
    OBVIOUS
  <2>11. x <= Larger(y, left)
    <3>1. x \in Nat /\ y \in Nat /\ x <= y /\ left \in Nat
      BY <2>7, <2>8, <2>9, <2>10 DEF Abs
    <3>2. QED
      BY <3>1 DEF Larger
  <2>12. QED
    BY <2>5, <2>10, <2>11 DEF ClosesSharePosition
<1>12. EntriesYield
  <2>1. \A p \in intentOrders' : p.intent \in ConsumedIntents
    BY <1>1 DEF ConsumedIntents
  <2>2. QED
    BY <2>1 DEF EntriesYield
<1>13. NettedToDifference
  BY <1>1, <1>3 DEF NettedToDifference
<1>14. QED
  BY <1>2, <1>5, <1>6, <1>7, <1>9, <1>10, <1>11, <1>12, <1>13 DEF ArbitrationInv
\* A change of the parts of an order that a step may touch.
LEMMA PreparedUpdate ==
  ASSUME NEW o \in PreparedOrder, NEW reserved \in Nat, NEW terminal \in BOOLEAN,
         NEW known \in BOOLEAN
  PROVE  LET new == [o EXCEPT !.reserved = reserved, !.terminal = terminal, !.known = known]
         IN  /\ new \in PreparedOrder
             /\ new.intent = o.intent /\ new.owner = o.owner /\ new.reduces = o.reduces
             /\ new.reserved = reserved /\ new.terminal = terminal /\ new.known = known
  BY DEF PreparedOrder

\* The parts of an order.
LEMMA OrderParts ==
  ASSUME ArbitrationInv, NEW o \in intentOrders
  PROVE  /\ o \in PreparedOrder /\ o.reserved \in Nat /\ o.side \in {1, -1}
         /\ o.terminal \in BOOLEAN /\ o.known \in BOOLEAN /\ (o.terminal => o.reserved = 0)
         /\ symbolLots \in Int
  BY DEF ArbitrationInv, ArbitrationTypeOK, PreparedOrder

\* An order fills, is canceled, or loses and finds its answer.
LEMMA OrdersLive ==
  ASSUME ArbitrationInv, NEW o \in intentOrders,
         Fill(o) \/ Canceled(o) \/ LoseAnswer(o) \/ Recover(o)
  PROVE  /\ ArbitrationInv' /\ OneOwner /\ ClosesSharePosition
         /\ EntriesYield /\ NettedToDifference
<1>1. /\ o \in PreparedOrder /\ o.reserved \in Nat /\ o.side \in {1, -1}
      /\ o.terminal \in BOOLEAN /\ o.known \in BOOLEAN /\ (o.terminal => o.reserved = 0)
      /\ symbolLots \in Int
  BY OrderParts
<1>2. CASE Fill(o)
  <2>1. PICK new : new = [o EXCEPT !.reserved = @ - 1, !.terminal = o.reserved = 1]
    OBVIOUS
  <2>2. o.reserved > 0 /\ symbolLots' = symbolLots + o.side /\ Update(o, new)
    BY <1>2, <2>1 DEF Fill
  <2>3. PICK n \in Nat : n = o.reserved - 1 /\ n <= o.reserved /\ (o.reserved = 1 => n = 0)
    BY <1>1, <2>2
  <2>4. /\ new \in PreparedOrder /\ new.intent = o.intent /\ new.owner = o.owner
        /\ new.reduces = o.reduces /\ new.reserved = n /\ (new.terminal <=> o.reserved = 1)
    BY <1>1, <2>1, <2>3 DEF PreparedOrder
  <2>5. o \in Binding /\ symbolLots' \in Int
    BY <1>1, <2>2 DEF Binding
  <2>6. new.reserved <= o.reserved /\ (new.terminal => new.reserved = 0)
    BY <2>3, <2>4
  <2>7. QED
    BY <2>2, <2>4, <2>5, <2>6, UpdateKeeps
<1>3. CASE Canceled(o)
  <2>1. PICK new : new = [o EXCEPT !.reserved = 0, !.terminal = TRUE]
    OBVIOUS
  <2>2. ~o.terminal /\ symbolLots' = symbolLots /\ Update(o, new)
    BY <1>3, <2>1 DEF Canceled
  <2>3. /\ new \in PreparedOrder /\ new.intent = o.intent /\ new.owner = o.owner
        /\ new.reduces = o.reduces /\ new.reserved = 0
    BY <1>1, <2>1 DEF PreparedOrder
  <2>4. o \in Binding /\ symbolLots' \in Int /\ new.reserved <= o.reserved
    BY <1>1, <2>2, <2>3 DEF Binding
  <2>5. QED
    BY <2>2, <2>3, <2>4, UpdateKeeps
<1>4. CASE LoseAnswer(o) \/ Recover(o)
  <2>1. PICK known \in BOOLEAN : /\ Update(o, [o EXCEPT !.known = known])
                                 /\ symbolLots' = symbolLots /\ o \in Binding
    BY <1>4 DEF LoseAnswer, Recover, Binding
  <2>2. PICK new : new = [o EXCEPT !.known = known]
    OBVIOUS
  <2>3. /\ new \in PreparedOrder /\ new.intent = o.intent /\ new.owner = o.owner
        /\ new.reduces = o.reduces /\ new.reserved = o.reserved /\ new.terminal = o.terminal
    BY <1>1, <2>2 DEF PreparedOrder
  <2>4. /\ Update(o, new) /\ symbolLots' \in Int /\ new.reserved <= o.reserved
        /\ (new.terminal => new.reserved = 0)
    BY <1>1, <2>1, <2>2, <2>3
  <2>5. QED
    BY <2>1, <2>3, <2>4, UpdateKeeps
<1>5. QED
  BY <1>2, <1>3, <1>4

\* An instrument the registry does not have is refused, and nothing else.
LEMMA UnlistedKeeps ==
  ASSUME ArbitrationInv, NEW b, NEW B, Submitted(b, B), Unlisted(B, b)
  PROVE  /\ ArbitrationInv' /\ OneOwner /\ ClosesSharePosition
         /\ EntriesYield /\ NettedToDifference
<1>1. /\ body' = b /\ batch' = B /\ answer' = Resolve(b, B, FALSE)
      /\ UNCHANGED <<symbolLots, intentOrders, symbolOwner>>
  BY DEF Unlisted
<1>2. Closing' = Closing /\ Entries' = Entries
  BY <1>1 DEF Closing, Entries, Exits, Binding
<1>3. answer'.accepted \cup answer'.rejected \cup answer'.netted \subseteq batch'
  BY <1>1, AnswersBatch
<1>4. ArbitrationTypeOK'
  BY <1>1, <1>3 DEF ArbitrationInv, ArbitrationTypeOK, Submitted
<1>5. ArbitrationInv' /\ OneOwner
  BY <1>1, <1>2, <1>4 DEF ArbitrationInv, OneOrderPerIntent, EntriesOwned, OneOwner
<1>6. ClosesSharePosition
  <2>1. PICK x, left : x = Reserved(Closing) /\ left = Abs(symbolLots) /\ x \in Nat /\ left \in Nat
    <3>1. symbolLots \in Int /\ Reserved(Closing) \in Nat
      BY ClosingBinds DEF ArbitrationInv, ArbitrationTypeOK
    <3>2. Abs(symbolLots) \in Nat
      BY <3>1 DEF Abs
    <3>3. QED
      BY <3>1, <3>2
  <2>2. Reserved(Closing)' = Reserved(Closing)
    BY <1>2 DEF Reserved
  <2>3. x <= Larger(x, left)
    BY <2>1 DEF Larger
  <2>4. QED
    BY <2>1, <2>2, <2>3 DEF ClosesSharePosition
<1>7. EntriesYield /\ NettedToDifference
  <2>1. \A o \in intentOrders' : o.intent \in ConsumedIntents
    BY <1>1 DEF ConsumedIntents
  <2>2. QED
    BY <2>1 DEF EntriesYield, NettedToDifference
<1>8. QED
  BY <1>5, <1>6, <1>7

\* A batch is of known intents and of new ones with bodies of their own.
LEMMA SubmitParts ==
  ASSUME ArbitrationInv, NEW unlisted \in BOOLEAN, Submit(unlisted)
  PROVE  \E b, B : /\ Submitted(b, B)
                   /\ \/ Unlisted(B, b)
                      \/ \E risk \in 1..MaxRisk : Arbitrate(B, b, risk)
<1>0. PICK n \in 0..MaxBatch :
        \E fresh \in [Cardinality(DOMAIN body) + 1..Cardinality(DOMAIN body) + n -> IntentBodies] :
          LET b == [i \in DOMAIN body \cup DOMAIN fresh |->
                      IF i \in DOMAIN body THEN body[i] ELSE fresh[i]]
          IN  /\ DOMAIN b \subseteq Ids
              /\ \E again \in SUBSET DOMAIN body :
                   /\ Cardinality(again) + n \in 1..MaxBatch
                   /\ IF unlisted THEN Unlisted(again \cup DOMAIN fresh, b)
                        ELSE \E risk \in 1..MaxRisk : Arbitrate(again \cup DOMAIN fresh, b, risk)
  BY DEF Submit
<1>1. PICK fresh \in [Cardinality(DOMAIN body) + 1..Cardinality(DOMAIN body) + n -> IntentBodies] :
        LET b == [i \in DOMAIN body \cup DOMAIN fresh |->
                    IF i \in DOMAIN body THEN body[i] ELSE fresh[i]]
        IN  /\ DOMAIN b \subseteq Ids
            /\ \E again \in SUBSET DOMAIN body :
                 /\ Cardinality(again) + n \in 1..MaxBatch
                 /\ IF unlisted THEN Unlisted(again \cup DOMAIN fresh, b)
                      ELSE \E risk \in 1..MaxRisk : Arbitrate(again \cup DOMAIN fresh, b, risk)
  BY <1>0
<1>2. PICK b : b = [i \in DOMAIN body \cup DOMAIN fresh |->
                      IF i \in DOMAIN body THEN body[i] ELSE fresh[i]]
  OBVIOUS
<1>3. PICK again \in SUBSET DOMAIN body :
        /\ DOMAIN b \subseteq Ids
        /\ IF unlisted THEN Unlisted(again \cup DOMAIN fresh, b)
             ELSE \E risk \in 1..MaxRisk : Arbitrate(again \cup DOMAIN fresh, b, risk)
  BY <1>1, <1>2
<1>4. Submitted(b, again \cup DOMAIN fresh)
  <2>1. \A i \in DOMAIN body : body[i] \in IntentBodies
    BY DEF ArbitrationInv, ArbitrationTypeOK
  <2>2. \A i \in DOMAIN fresh : fresh[i] \in IntentBodies
    OBVIOUS
  <2>3. DOMAIN b = DOMAIN body \cup DOMAIN fresh
    BY <1>2
  <2>4. \A i \in DOMAIN b : b[i] \in IntentBodies
    BY <1>2, <2>1, <2>2, <2>3
  <2>5. QED
    BY <1>3, <2>3, <2>4 DEF Submitted
<1>5. QED
  BY <1>3, <1>4

\* Every step keeps the invariant and what is promised of steps.
LEMMA ArbitrationStep ==
  ASSUME ArbitrationInv, ArbitrationNext
  PROVE  /\ ArbitrationInv' /\ OneOwner /\ ClosesSharePosition
         /\ EntriesYield /\ NettedToDifference
<1>1. CASE Submit(TRUE) \/ Submit(FALSE)
  <2>1. PICK b, B : /\ Submitted(b, B)
                    /\ \/ Unlisted(B, b)
                       \/ \E risk \in 1..MaxRisk : Arbitrate(B, b, risk)
    BY <1>1, SubmitParts
  <2>2. CASE Unlisted(B, b)
    BY <2>1, <2>2, UnlistedKeeps
  <2>3. CASE \E risk \in 1..MaxRisk : Arbitrate(B, b, risk)
    <3>1. PICK risk \in 1..MaxRisk : Arbitrate(B, b, risk)
      BY <2>3
    <3>2. QED
      BY <2>1, <3>1, ArbitrateInv, ArbitrateOwner, ArbitrateCloses, ArbitrateYields
  <2>4. QED
    BY <2>1, <2>2, <2>3
<1>2. CASE \E o \in intentOrders : Fill(o) \/ Canceled(o) \/ LoseAnswer(o) \/ Recover(o)
  BY <1>2, OrdersLive
<1>3. QED
  BY <1>1, <1>2 DEF ArbitrationNext

\* Nothing is ordered at first.
LEMMA ArbitrationInitInv == ArbitrationInit => ArbitrationInv
<1> SUFFICES ASSUME ArbitrationInit PROVE ArbitrationInv
  OBVIOUS
<1>1. /\ body = <<>> /\ symbolLots = 0 /\ intentOrders = {} /\ symbolOwner = NoOwner
      /\ batch = {} /\ answer = NoAnswer
  BY DEF ArbitrationInit
<1>2. DOMAIN body = {}
  BY <1>1
<1>3. IsFiniteSet(intentOrders)
  BY <1>1, FS_EmptySet
<1>4. answer.accepted \cup answer.rejected \cup answer.netted = {}
  BY <1>1 DEF NoAnswer, Answer
<1>5. ArbitrationTypeOK
  BY <1>1, <1>2, <1>3, <1>4 DEF ArbitrationTypeOK
<1>6. Entries = {}
  BY <1>1 DEF Entries, Binding
<1>7. QED
  BY <1>1, <1>5, <1>6 DEF ArbitrationInv, OneOrderPerIntent, EntriesOwned

\* Intents are arbitrated whatever they are and however their orders fare: no
\* intent has two orders, one strategy owns the instrument, exits share the
\* position, entries yield to them and carry the difference of what was asked
\* (Arbitrator.resolve, OMS.approve).
THEOREM IntentsAlwaysArbitrated == ArbitrationSpec => IntentsArbitrated
<1>1. ArbitrationInit => ArbitrationInv
  BY ArbitrationInitInv
<1>2. ArbitrationInv /\ [ArbitrationNext]_arbitrationVars => ArbitrationInv'
  <2>1. ASSUME ArbitrationInv, UNCHANGED arbitrationVars PROVE ArbitrationInv'
    BY <2>1 DEF arbitrationVars, ArbitrationInv, ArbitrationTypeOK, OneOrderPerIntent,
                EntriesOwned, Entries, Exits, Binding
  <2>2. QED
    BY <2>1, ArbitrationStep
<1>3. ArbitrationInv => ArbitrationTypeOK /\ OneOrderPerIntent
  BY DEF ArbitrationInv
<1>4. ArbitrationInv /\ [ArbitrationNext]_arbitrationVars =>
        [OneOwner /\ ClosesSharePosition /\ EntriesYield /\ NettedToDifference]_arbitrationVars
  BY ArbitrationStep
<1>5. QED
  BY <1>1, <1>2, <1>3, <1>4, PTL DEF ArbitrationSpec, IntentsArbitrated
-----------------------------------------------------------------------------
(* The stops of a position.  A failure began no later than the row of      *)
(* reviews that found it, whatever was decided in between, and no failure  *)
(* is dated after the observation under way.                               *)

FailuresCount ==
  \A g \in Group :
    /\ prot[g].since <= ticks /\ \A o \in ToSet(obs) : prot[g].since <= o.at
    /\ naked[g] # Never => prot[g].since # Never /\ prot[g].since <= naked[g]

ProtectionInv == ProtectionTypeOK /\ OwnerBuiltIt /\ FailuresCount

Verdict == [status : ProtectionStatus, desired : Nat,
            since : {Never} \cup 0 .. MaxTicks, acts : SUBSET ProtectionAction]

Execution == [group : Group \cup {Nobody}, lots : Int]
Booking == [exec : DOMAIN execs, after : Int]

\* A sequence over a set is one over a larger set.
LEMMA SeqGrows ==
  ASSUME NEW S, NEW T, S \subseteq T, NEW s \in Seq(S)
  PROVE  s \in Seq(T)
<1>1. s \in [1 .. Len(s) -> T] /\ Len(s) \in Nat
  OBVIOUS
<1>2. QED
  BY <1>1

\* What is booked, and the positions in between, are typed.
LEMMA BookingsTyped ==
  ASSUME ProtectionTypeOK
  PROVE  /\ execs \in Seq(Execution) /\ bookings \in Seq(Booking)
         /\ Len(bookings) \in Nat /\ DOMAIN bookings = 1 .. Len(bookings)
         /\ \A i \in DOMAIN execs : execs[i].group \in Group \cup {Nobody} /\ execs[i].lots \in Int
         /\ \A k \in DOMAIN bookings : bookings[k].exec \in DOMAIN execs /\ bookings[k].after \in Int
         /\ \A k \in 1 .. Len(bookings) + 1 : LotsBefore(k) \in Int
         /\ LedgerLots \in Int
<1>1. execs \in Seq(Execution) /\ bookings \in Seq(Booking)
  BY DEF ProtectionTypeOK, Execution, Booking
<1>2. /\ Len(bookings) \in Nat /\ DOMAIN bookings = 1 .. Len(bookings)
      /\ \A k \in DOMAIN bookings : bookings[k] \in Booking
      /\ \A i \in DOMAIN execs : execs[i] \in Execution
  BY <1>1
<1>3. /\ \A i \in DOMAIN execs : execs[i].group \in Group \cup {Nobody} /\ execs[i].lots \in Int
      /\ \A k \in DOMAIN bookings : bookings[k].exec \in DOMAIN execs /\ bookings[k].after \in Int
  BY <1>2 DEF Execution, Booking
<1>4. ASSUME NEW k \in 1 .. Len(bookings) + 1 PROVE LotsBefore(k) \in Int
  <2>1. CASE k = 1
    BY <2>1 DEF LotsBefore, ProtectionTypeOK
  <2>2. CASE k # 1
    <3>1. k - 1 \in DOMAIN bookings
      BY <1>2, <2>2
    <3>2. QED
      BY <1>3, <2>2, <3>1 DEF LotsBefore
  <2>3. QED
    BY <2>1, <2>2
<1>5. LedgerLots \in Int
  BY <1>2, <1>4 DEF LedgerLots
<1>6. QED
  BY <1>1, <1>2, <1>3, <1>4, <1>5

\* What a booking does to the position and to those who built it.
LEMMA BookingBuilds ==
  ASSUME ProtectionTypeOK, NEW i \in DOMAIN execs, NEW after, after = LedgerLots + execs[i].lots,
         bookings' = Append(bookings, [exec |-> i, after |-> after]),
         UNCHANGED <<execs, openingLots>>
  PROVE  /\ LedgerLots' = after
         /\ after # 0 /\ ~SameSide(LedgerLots, after) => Builders' = {execs[i].group}
         /\ after # 0 /\ SameSide(LedgerLots, after) =>
              Builders' = Builders \cup (IF SameSide(LedgerLots, execs[i].lots)
                                           THEN {execs[i].group} ELSE {})
<1> DEFINE last == [exec |-> i, after |-> after]
<1>0. PICK n : n = Len(bookings)
  OBVIOUS
<1>1. /\ n \in Nat /\ DOMAIN bookings = 1 .. n /\ bookings \in Seq(Booking)
      /\ execs[i].lots \in Int /\ LedgerLots \in Int /\ after \in Int
      /\ \A k \in 1 .. n + 1 : LotsBefore(k) \in Int
  BY <1>0, BookingsTyped
<1>2. /\ DOMAIN bookings' = 1 .. n + 1 /\ Len(bookings') = n + 1
      /\ \A k \in 1 .. n : bookings'[k] = bookings[k]
      /\ bookings'[n + 1] = last
  BY <1>0, <1>1
<1>3. ASSUME NEW k \in 1 .. n + 1 PROVE LotsBefore(k)' = LotsBefore(k)
  <2>1. k = 1 \/ k - 1 \in 1 .. n
    BY <1>1
  <2>2. QED
    BY <1>2, <2>1 DEF LotsBefore
<1>4. LotsBefore(n + 1) = LedgerLots
  BY <1>0 DEF LedgerLots
<1>5. LedgerLots' = after
  <2>1. LedgerLots' = LotsBefore(n + 1 + 1)'
    BY <1>1, <1>2 DEF LedgerLots
  <2>2. n + 1 + 1 # 1 /\ n + 1 + 1 - 1 = n + 1
    BY <1>1
  <2>3. QED
    BY <1>2, <2>1, <2>2 DEF LotsBefore
<1>6. ASSUME NEW k \in 1 .. n PROVE (Turned(k)' <=> Turned(k)) /\ (Added(k)' <=> Added(k))
  <2>1. k \in 1 .. n + 1
    BY <1>1
  <2>2. LotsBefore(k)' = LotsBefore(k) /\ bookings'[k] = bookings[k]
    BY <1>2, <1>3, <2>1
  <2>3. QED
    BY <2>2 DEF Turned, Added
<1>7. /\ Turned(n + 1)' <=> ~SameSide(LedgerLots, after)
      /\ Added(n + 1)' <=> SameSide(LedgerLots, execs[i].lots)
  <2>1. LotsBefore(n + 1)' = LedgerLots /\ bookings'[n + 1].after = after
    BY <1>1, <1>2, <1>3, <1>4
  <2>2. after - LedgerLots = execs[i].lots
    BY <1>1
  <2>3. QED
    BY <2>1, <2>2 DEF Turned, Added
<1> DEFINE g(k) == execs[bookings[k].exec].group
<1>8. /\ execs' = execs /\ \A k \in 1 .. n : execs'[bookings'[k].exec].group = g(k)
      /\ execs'[bookings'[n + 1].exec].group = execs[i].group
  <2>1. execs' = execs
    OBVIOUS
  <2>2. bookings'[n + 1].exec = i
    BY <1>2
  <2> HIDE DEF last
  <2>3. QED
    BY <1>2, <2>1, <2>2
<1>9. 1 .. n + 1 = (1 .. n) \cup {n + 1}
  <2>1. n \in Nat
    BY <1>1
  <2>2. QED
    BY <2>1
<1> HIDE DEF last
<1>10. ASSUME after # 0, ~SameSide(LedgerLots, after) PROVE Builders' = {execs[i].group}
  <2>1. Building' = {n + 1}
    BY <1>1, <1>2, <1>7, <1>10 DEF Building
  <2>2. Strangers' = {}
    BY <1>1, <1>2, <1>7, <1>10 DEF Strangers
  <2>3. QED
    BY <1>5, <1>8, <1>10, <2>1, <2>2 DEF Builders
<1>11. ASSUME after # 0, SameSide(LedgerLots, after)
       PROVE  Builders' = Builders \cup (IF SameSide(LedgerLots, execs[i].lots)
                                           THEN {execs[i].group} ELSE {})
  <2>1. Building \subseteq 1 .. n
    BY <1>1 DEF Building
  <2>2. Building' = Building \cup (IF SameSide(LedgerLots, execs[i].lots) THEN {n + 1} ELSE {})
    <3>1. ~Turned(n + 1)'
      BY <1>7, <1>11
    <3>2. ASSUME NEW k \in 1 .. n PROVE k \in Building' <=> k \in Building
      <4>1. (\A j \in 1 .. n + 1 : j > k => ~Turned(j)') <=> \A j \in 1 .. n : j > k => ~Turned(j)
        BY <1>6, <1>9, <3>1
      <4>2. k \in 1 .. n + 1
        BY <1>1
      <4>3. QED
        BY <1>1, <1>2, <1>6, <4>1, <4>2 DEF Building
    <3>3. n + 1 \in Building' <=> SameSide(LedgerLots, execs[i].lots)
      <4>1. n + 1 \in 1 .. n + 1 /\ \A j \in 1 .. n + 1 : ~(j > n + 1)
        BY <1>1
      <4>2. QED
        BY <1>2, <1>7, <3>1, <4>1 DEF Building
    <3>4. Building' \subseteq (1 .. n) \cup {n + 1}
      BY <1>1, <1>2 DEF Building
    <3>5. QED
      BY <2>1, <3>2, <3>3, <3>4
  <2>3. Strangers' = Strangers
    <3>1. ~Turned(n + 1)'
      BY <1>7, <1>11
    <3>2. (\E k \in 1 .. n + 1 : Turned(k)') <=> \E k \in 1 .. n : Turned(k)
      BY <1>6, <1>9, <3>1
    <3>3. QED
      BY <1>1, <1>2, <3>2 DEF Strangers
  <2>4. LedgerLots # 0
    BY <1>11 DEF SameSide
  <2>5. {execs'[bookings'[k].exec].group : k \in Building'}
          = {g(k) : k \in Building} \cup (IF SameSide(LedgerLots, execs[i].lots)
                                            THEN {execs[i].group} ELSE {})
    <3> HIDE DEF g
    <3>1. \A k \in Building : execs'[bookings'[k].exec].group = g(k)
      BY <1>8, <2>1
    <3>2. execs'[bookings'[n + 1].exec].group = execs[i].group
      BY <1>8
    <3>3. PICK h : h = [k \in Building' |-> execs'[bookings'[k].exec].group]
      OBVIOUS
    <3>4. /\ \A k \in Building : k \in Building' => h[k] = g(k)
          /\ n + 1 \in Building' => h[n + 1] = execs[i].group
          /\ {execs'[bookings'[k].exec].group : k \in Building'} = {h[k] : k \in Building'}
      BY <3>1, <3>2, <3>3
    <3>5. CASE SameSide(LedgerLots, execs[i].lots)
      <4>1. Building' = Building \cup {n + 1}
        BY <2>2, <3>5
      <4>2. {h[k] : k \in Building'} = {g(k) : k \in Building} \cup {execs[i].group}
        BY <3>4, <4>1
      <4>3. QED
        BY <3>4, <3>5, <4>2
    <3>6. CASE ~SameSide(LedgerLots, execs[i].lots)
      <4>1. Building' = Building
        BY <2>2, <3>6
      <4>2. {h[k] : k \in Building'} = {g(k) : k \in Building}
        BY <3>4, <4>1
      <4>3. QED
        BY <3>4, <3>6, <4>2
    <3>7. QED
      BY <3>5, <3>6
  <2>6. QED
    BY <1>5, <1>11, <2>3, <2>4, <2>5 DEF Builders
<1>12. QED
  BY <1>5, <1>10, <1>11

\* A single usable stop is the stop that was observed, of the size that counts.
LEMMA SingleIsObserved ==
  ASSUME NEW g \in Group, NEW lots \in Int, NEW o, o.stops \in [Group -> Legs],
         SingleStop(g, lots, o)
  PROVE  o.stops[g] = <<Covered(g, lots, o)>>
<1>1. PICK s : s = o.stops[g] /\ s \in Legs
  OBVIOUS
<1>2. Usable(g, lots, o) = s /\ Len(s) = 1
  <2>1. Usable(g, lots, o) = s \/ Usable(g, lots, o) = <<>>
    BY <1>1 DEF Usable
  <2>2. QED
    BY <2>1 DEF SingleStop
<1>3. PICK n \in Nat : s = <<n>>
  <2>1. s # <<>> /\ s # <<1, 1>>
    BY <1>2
  <2>2. QED
    BY <1>1, <2>1, ProtectionAssumption DEF Legs
<1>4. Covered(g, lots, o) = Max({n, 0})
  <2>1. ToSet(<<n>>) = {n}
    BY DEF ToSet
  <2>2. ToSet(s) \cup {0} = {n, 0}
    BY <1>3, <2>1
  <2>3. QED
    BY <1>2, <2>2 DEF Covered
<1>5. Max({n, 0}) = n
  <2>1. n \in {n, 0} /\ \A y \in {n, 0} : n >= y
    BY <1>3
  <2>2. \A x \in {n, 0} : (\A y \in {n, 0} : x >= y) => x = n
    BY <1>3
  <2>3. QED
    BY <2>1, <2>2 DEF Max
<1>6. QED
  BY <1>1, <1>3, <1>4, <1>5

\* What a review of one group can decide.
Observed(o) == o.at \in 0 .. MaxTicks /\ o.stops \in [Group -> Legs]

Decides(d, g, o, flat) ==
  /\ d \in Verdict
  /\ d.since \in {Never, prot[g].since, Started(g, o)}
  /\ d.status \notin {"PROTECTED", "FLAT"} => d.since \in {prot[g].since, Started(g, o)}
  /\ d.status = "RESTORING" => d.since = Started(g, o) /\ o.at - Started(g, o) < Budget
  /\ d.acts \cap {"RESTORE_STOP", "RESIZE_STOP"} # {} => d.status \notin {"PROTECTED", "FLAT"}
  /\ "CANCEL_STOP" \in d.acts => flat /\ LedgerLots = 0
  /\ d.status = "PROTECTED" => stopOwner.group = g /\ o.stops[g] = <<Abs(LedgerLots)>>
  /\ LedgerLots # 0 => \/ "LATCH_ENTRIES" \in d.acts
                       \/ d.status = "PROTECTED"
                       \/ /\ stopOwner.group \notin {Nobody, g}
                          /\ stopOwner.lots = LedgerLots

\* A decision is typed when its parts are.
LEMMA VerdictParts ==
  ASSUME NEW status \in ProtectionStatus, NEW desired \in Nat,
         NEW since \in {Never} \cup 0 .. MaxTicks, NEW acts \in SUBSET ProtectionAction
  PROVE  /\ Decision(status, desired, since, acts) \in Verdict
         /\ Decision(status, desired, since, acts).status = status
         /\ Decision(status, desired, since, acts).since = since
         /\ Decision(status, desired, since, acts).acts = acts
  BY DEF Decision, Verdict

LEMMA SinceTyped ==
  ASSUME ProtectionTypeOK, NEW g \in Group, NEW o, Observed(o)
  PROVE  /\ prot[g] \in Verdict /\ prot[g].since \in {Never} \cup 0 .. MaxTicks
         /\ Started(g, o) \in {Never} \cup 0 .. MaxTicks
         /\ LedgerLots \in Int /\ Abs(LedgerLots) \in Nat
<1>1. prot[g] \in Verdict
  BY DEF ProtectionTypeOK, Verdict
<1>2. prot[g].since \in {Never} \cup 0 .. MaxTicks
  BY <1>1 DEF Verdict
<1>3. Started(g, o) \in {Never} \cup 0 .. MaxTicks
  BY <1>2 DEF Started, Observed
<1>4. LedgerLots \in Int
  BY BookingsTyped
<1>5. Abs(LedgerLots) \in Nat
  BY <1>4 DEF Abs
<1>6. QED
  BY <1>1, <1>2, <1>3, <1>4, <1>5

\* The manager reviews a position that is the group's own.
LEMMA ManagerDecides ==
  ASSUME ProtectionTypeOK, NEW g \in Group, NEW o, Observed(o), NEW flat \in BOOLEAN,
         NEW capable \in BOOLEAN, NEW lots, lots = OwnedLots(g), lots = LedgerLots
  PROVE  Decides(EvaluateStops(g, lots, o, flat, capable), g, o, flat)
<1> DEFINE d == EvaluateStops(g, lots, o, flat, capable)
<1> SUFFICES Decides(d, g, o, flat)
  OBVIOUS
<1> HIDE DEF d
<1>1. /\ prot[g].since \in {Never} \cup 0 .. MaxTicks /\ Started(g, o) \in {Never} \cup 0 .. MaxTicks
      /\ lots \in Int /\ Abs(lots) \in Nat /\ 0 \in Nat /\ Never \in {Never} \cup 0 .. MaxTicks
  BY SinceTyped
<1>2. lots # 0 => stopOwner.group = g
  BY DEF OwnedLots
<1>3. CASE lots = 0
  <2>1. d = EvaluateFlat(g, o, flat)
    BY <1>3 DEF EvaluateStops, d
  <2>2. CASE ~flat
    <3>1. d = Decision("AWAITING_FLAT", 0, prot[g].since, {"LATCH_ENTRIES", "RECONCILE"})
      BY <2>1, <2>2 DEF EvaluateFlat
    <3>2. d \in Verdict /\ d.status = "AWAITING_FLAT" /\ d.since = prot[g].since /\ d.acts = {"LATCH_ENTRIES", "RECONCILE"}
      BY <1>1, <3>1, VerdictParts DEF ProtectionStatus, ProtectionAction
    <3>3. QED
      BY <1>1, <1>3, <3>2 DEF Decides
  <2>3. CASE flat
    <3>1. PICK acts : /\ acts \in {{}, {"CANCEL_STOP", "RECONCILE"}}
                      /\ d = Decision("FLAT", 0, Never, acts)
      BY <2>1, <2>3 DEF EvaluateFlat
    <3>2. d \in Verdict /\ d.status = "FLAT" /\ d.since = Never /\ d.acts = acts
      <4>1. "FLAT" \in ProtectionStatus /\ acts \in SUBSET ProtectionAction
        BY <3>1 DEF ProtectionStatus, ProtectionAction
      <4>2. QED
        BY <1>1, <3>1, <4>1, VerdictParts
    <3>3. QED
      BY <1>1, <1>3, <2>3, <3>1, <3>2 DEF Decides
  <2>4. QED
    BY <2>2, <2>3
<1>4. CASE lots # 0 /\ ~capable
  <2>1. d = Decision("BLOCKED", Abs(lots), prot[g].since,
                  {"LATCH_ENTRIES", "CANCEL_ENTRY_REMAINDER", "BOUNDED_REDUCE_ONLY_EXIT"})
    BY <1>4 DEF EvaluateStops, d
  <2>2. /\ d \in Verdict /\ d.status = "BLOCKED" /\ d.since = prot[g].since
        /\ d.acts = {"LATCH_ENTRIES", "CANCEL_ENTRY_REMAINDER", "BOUNDED_REDUCE_ONLY_EXIT"}
    BY <1>1, <2>1, VerdictParts DEF ProtectionStatus, ProtectionAction
  <2>3. QED
    BY <1>1, <2>2 DEF Decides
<1>5. CASE lots # 0 /\ capable
  <2>1. CASE SingleStop(g, lots, o) /\ Covered(g, lots, o) = Abs(lots)
    <3>1. d = Decision("PROTECTED", Abs(lots), Never, {})
      BY <1>5, <2>1 DEF EvaluateStops, d
    <3>2. o.stops[g] = <<Abs(lots)>>
      BY <1>1, <2>1, SingleIsObserved DEF Observed
    <3>3. d \in Verdict /\ d.status = "PROTECTED" /\ d.since = Never /\ d.acts = {}
      BY <1>1, <3>1, VerdictParts DEF ProtectionStatus, ProtectionAction
    <3>4. QED
      BY <1>1, <1>2, <1>5, <3>2, <3>3 DEF Decides
  <2>2. CASE SingleStop(g, lots, o) /\ Covered(g, lots, o) > Abs(lots) /\ Covered(g, lots, o) # Abs(lots)
    <3>1. d = Decision("RESIZING", Abs(lots), prot[g].since, {"LATCH_ENTRIES", "RESIZE_STOP"})
      BY <1>5, <2>2 DEF EvaluateStops, d
    <3>2. QED
      BY <1>1, <3>1, VerdictParts DEF Decides, ProtectionStatus, ProtectionAction
  <2>3. CASE ~SingleStop(g, lots, o) \/ ~(Covered(g, lots, o) = Abs(lots) \/ Covered(g, lots, o) > Abs(lots))
    <3>1. d = Failing(g, lots, o)
      BY <1>5, <2>3 DEF EvaluateStops, d
    <3>2. CASE o.at - Started(g, o) >= Budget
      <4>1. d = Decision("EXIT_REQUIRED", Abs(lots), Started(g, o),
                  {"LATCH_ENTRIES", "CANCEL_ENTRY_REMAINDER", "BOUNDED_REDUCE_ONLY_EXIT"})
        BY <3>1, <3>2 DEF Failing
      <4>2. QED
        BY <1>1, <4>1, VerdictParts DEF Decides, ProtectionStatus, ProtectionAction
    <3>3. CASE ~(o.at - Started(g, o) >= Budget)
      <4>1. d = Decision("RESTORING", Abs(lots), Started(g, o),
                  {"LATCH_ENTRIES", "CANCEL_ENTRY_REMAINDER", "RESTORE_STOP"})
        BY <3>1, <3>3 DEF Failing
      <4>2. o.at - Started(g, o) < Budget
        BY <1>1, <3>3, ProtectionAssumption DEF Observed, Never
      <4>3. QED
        BY <1>1, <4>1, <4>2, VerdictParts DEF Decides, ProtectionStatus, ProtectionAction
    <3>4. QED
      BY <3>2, <3>3
  <2>4. QED
    BY <2>1, <2>2, <2>3
<1>6. QED
  BY <1>3, <1>4, <1>5

\* The reducer reviews any position.
LEMMA ReducerDecides ==
  ASSUME ProtectionTypeOK, NEW g \in Group, NEW o, Observed(o), NEW flat \in BOOLEAN,
         NEW capable \in BOOLEAN, NEW supported \in BOOLEAN
  PROVE  Decides(Decide(g, o, flat, capable, supported), g, o, flat)
<1> DEFINE d == Owned(g, o, flat, capable)
<1>1. /\ prot[g].since \in {Never} \cup 0 .. MaxTicks /\ Started(g, o) \in {Never} \cup 0 .. MaxTicks
      /\ LedgerLots \in Int /\ 0 \in Nat
  BY SinceTyped
<1> HIDE DEF d
<1>2. Decides(d, g, o, flat)
  <2>1. CASE LedgerLots # 0 /\ (stopOwner.group = Nobody \/ stopOwner.lots # LedgerLots)
    <3>1. d = Decision("OWNERSHIP_UNVERIFIED", 0, prot[g].since, {"LATCH_ENTRIES", "RECONCILE"})
      BY <2>1 DEF Owned, Unowned, d
    <3>2. QED
      BY <1>1, <3>1, VerdictParts DEF Decides, ProtectionStatus, ProtectionAction
  <2>2. CASE /\ LedgerLots # 0 /\ stopOwner.group # Nobody /\ stopOwner.lots = LedgerLots
             /\ OwnedLots(g) = 0
    <3>1. stopOwner.group # g
      BY <2>2 DEF OwnedLots
    <3>2. CASE o.stops[g] = <<>>
      <4>1. d = Decision("INACTIVE", 0, prot[g].since, {})
        BY <2>2, <3>2 DEF Owned, d
      <4>2. QED
        BY <1>1, <2>2, <3>1, <4>1, VerdictParts DEF Decides, ProtectionStatus, ProtectionAction
    <3>3. CASE o.stops[g] # <<>>
      <4>1. d = Decision("INACTIVE_PENDING_PROTECTION", 0, prot[g].since, {"LATCH_ENTRIES", "RECONCILE"})
        BY <2>2, <3>3 DEF Owned, d
      <4>2. d \in Verdict /\ d.status = "INACTIVE_PENDING_PROTECTION" /\ d.since = prot[g].since /\ d.acts = {"LATCH_ENTRIES", "RECONCILE"}
        BY <1>1, <4>1, VerdictParts DEF ProtectionStatus, ProtectionAction
      <4>3. QED
        BY <1>1, <2>2, <4>2 DEF Decides
    <3>4. QED
      BY <3>2, <3>3
  <2>3. CASE LedgerLots = 0 /\ o.stops[g] = <<>> /\ g \notin entries /\ ~EntryFilled(g)
    <3>1. d = Decision("INACTIVE", 0, prot[g].since, {})
      BY <2>3 DEF Owned, d
    <3>2. QED
      BY <1>1, <2>3, <3>1, VerdictParts DEF Decides, ProtectionStatus, ProtectionAction
  <2>4. CASE /\ ~(LedgerLots # 0 /\ (stopOwner.group = Nobody \/ stopOwner.lots # LedgerLots))
             /\ ~(LedgerLots # 0 /\ OwnedLots(g) = 0)
             /\ ~(LedgerLots = 0 /\ o.stops[g] = <<>> /\ g \notin entries /\ ~EntryFilled(g))
    <3>1. d = EvaluateStops(g, OwnedLots(g), o, flat, capable)
      BY <2>4 DEF Owned, d
    <3>2. OwnedLots(g) = LedgerLots
      BY <2>4 DEF OwnedLots
    <3>3. QED
      BY <3>1, <3>2, ManagerDecides
  <2>5. QED
    BY <2>1, <2>2, <2>3, <2>4
<1>3. CASE ~supported /\ d.acts \cap {"RESTORE_STOP", "RESIZE_STOP"} # {}
  <2> DEFINE acts == {"LATCH_ENTRIES", "CANCEL_ENTRY_REMAINDER", "BOUNDED_REDUCE_ONLY_EXIT"}
             x == [d EXCEPT !.status = "EXIT_REQUIRED", !.acts = acts]
  <2>1. Decide(g, o, flat, capable, supported) = x
    BY <1>3 DEF Decide, d
  <2>2. d \in Verdict
    BY <1>2 DEF Decides
  <2>3. x \in Verdict /\ x.status = "EXIT_REQUIRED" /\ x.since = d.since /\ x.acts = acts
    BY <2>2 DEF Verdict, ProtectionStatus, ProtectionAction
  <2>4. d.since \in {prot[g].since, Started(g, o)}
    <3>1. d.status \notin {"PROTECTED", "FLAT"}
      BY <1>2, <1>3 DEF Decides
    <3>2. QED
      BY <1>2, <3>1 DEF Decides
  <2> HIDE DEF x
  <2>5. QED
    BY <2>1, <2>3, <2>4 DEF Decides
<1>4. CASE ~(~supported /\ d.acts \cap {"RESTORE_STOP", "RESIZE_STOP"} # {})
  BY <1>2, <1>4 DEF Decide, d
<1>5. QED
  BY <1>3, <1>4
-----------------------------------------------------------------------------
\* Nothing is known of the position at first.
LEMMA ProtectionInitInv == ProtectionInit => ProtectionInv
<1> SUFFICES ASSUME ProtectionInit PROVE ProtectionInv
  OBVIOUS
<1>1. /\ ticks = 0 /\ execs = <<>> /\ entries = Group /\ obs = <<>> /\ bookings = <<>>
      /\ openingLots \in Int /\ stopOwner = [group |-> Nobody, lots |-> 0, known |-> {}]
      /\ prot = [g \in Group |-> Decision("PENDING", 0, Never, {})]
      /\ naked = [g \in Group |-> Never]
  BY ProtectionAssumption DEF ProtectionInit
<1>2. ProtectionTypeOK
  <2>1. Decision("PENDING", 0, Never, {}) \in Verdict
    BY VerdictParts DEF ProtectionStatus
  <2>2. prot \in [Group -> Verdict] /\ naked \in [Group -> {Never} \cup 0 .. MaxTicks]
    BY <1>1, <2>1
  <2>3. 0 \in 0 .. MaxTicks
    BY ProtectionAssumption
  <2>4. ToSet(obs) = {}
    BY <1>1 DEF ToSet
  <2>5. execs \in Seq(Execution) /\ bookings \in Seq(Booking)
    BY <1>1
  <2>6. stopOwner \in [group : Group \cup {Nobody}, lots : Int, known : SUBSET DOMAIN execs]
    BY <1>1
  <2>7. QED
    BY <1>1, <2>2, <2>3, <2>4, <2>5, <2>6 DEF ProtectionTypeOK, Verdict, Execution, Booking
<1>3. OwnerBuiltIt
  BY <1>1 DEF OwnerBuiltIt
<1>4. FailuresCount
  <2>1. \A g \in Group : prot[g].since = Never /\ naked[g] = Never
    BY <1>1 DEF Decision
  <2>2. ToSet(obs) = {}
    BY <1>1 DEF ToSet
  <2>3. QED
    BY <1>1, <2>1, <2>2 DEF FailuresCount, Never
<1>5. QED
  BY <1>2, <1>3, <1>4 DEF ProtectionInv

\* What the venue and the clock do leaves the bookings and their owner alone.
LEMMA BuildersKept ==
  ASSUME ProtectionTypeOK, OwnerBuiltIt, UNCHANGED <<openingLots, bookings, stopOwner>>,
         \A i \in DOMAIN execs : execs'[i] = execs[i]
  PROVE  OwnerBuiltIt' /\ LedgerLots' = LedgerLots
<1>1. \A k \in DOMAIN bookings : execs'[bookings[k].exec] = execs[bookings[k].exec]
  BY BookingsTyped
<1>2. Building \subseteq DOMAIN bookings
  BY DEF Building
<1>3. /\ LedgerLots' = LedgerLots /\ Strangers' = Strangers /\ Building' = Building
  BY DEF LedgerLots, LotsBefore, Strangers, Building, Turned, Added
<1>4. Builders' = Builders
  <2>1. \A k \in Building : execs'[bookings'[k].exec].group = execs[bookings[k].exec].group
    BY <1>1, <1>2
  <2>2. {execs'[bookings'[k].exec].group : k \in Building'}
          = {execs[bookings[k].exec].group : k \in Building}
    BY <1>3, <2>1
  <2>3. QED
    BY <1>3, <2>2 DEF Builders
<1>5. QED
  BY <1>3, <1>4 DEF OwnerBuiltIt

\* The venue executes, an entry ends, time passes, the stops are read.
LEMMA VenueKeepsStops ==
  ASSUME ProtectionInv,
         \/ \E group \in Group \cup {Nobody}, lots \in {1, -1} : Execute(group, lots)
         \/ \E g \in Group : EntryDone(g)
         \/ ClockTicks
         \/ \E stops \in [Group -> Legs] : Observe(stops)
  PROVE  ProtectionInv'
<1>1. /\ ProtectionTypeOK /\ OwnerBuiltIt /\ FailuresCount
      /\ execs \in Seq(Execution) /\ bookings \in Seq(Booking)
  BY BookingsTyped DEF ProtectionInv
<1>2. CASE \E group \in Group \cup {Nobody}, lots \in {1, -1} : Execute(group, lots)
  <2>1. PICK group \in Group \cup {Nobody}, lots \in {1, -1} : Execute(group, lots)
    BY <1>2
  <2>2. /\ execs' = Append(execs, [group |-> group, lots |-> lots])
        /\ UNCHANGED <<ticks, entries, obs, stopLocal>>
    BY <2>1 DEF Execute
  <2>3. [group |-> group, lots |-> lots] \in Execution
    BY DEF Execution
  <2>4. /\ execs' \in Seq(Execution) /\ DOMAIN execs \subseteq DOMAIN execs'
        /\ \A i \in DOMAIN execs : execs'[i] = execs[i]
    BY <1>1, <2>2, <2>3
  <2>5. bookings' \in Seq(Booking') /\ stopOwner'.known \subseteq DOMAIN execs'
    <3>1. Booking \subseteq Booking'
      BY <2>4 DEF Booking
    <3>2. stopOwner.known \subseteq DOMAIN execs
      BY <1>1 DEF ProtectionTypeOK
    <3>3. bookings \in Seq(Booking')
      <4> HIDE DEF Booking
      <4>1. QED
        BY <1>1, <3>1, SeqGrows
    <3>4. QED
      BY <2>2, <2>4, <3>2, <3>3 DEF stopLocal
  <2>6. ProtectionTypeOK'
    BY <1>1, <2>2, <2>4, <2>5 DEF ProtectionTypeOK, stopLocal, Execution, Booking
  <2>7. OwnerBuiltIt'
    BY <1>1, <2>2, <2>4, BuildersKept DEF stopLocal
  <2>8. FailuresCount'
    BY <1>1, <2>2 DEF FailuresCount, stopLocal
  <2>9. QED
    BY <2>6, <2>7, <2>8 DEF ProtectionInv
<1>3. CASE \E g \in Group : EntryDone(g)
  <2>1. entries' \subseteq entries /\ UNCHANGED <<ticks, execs, obs, stopLocal>>
    BY <1>3 DEF EntryDone
  <2>2. ProtectionTypeOK'
    BY <1>1, <2>1 DEF ProtectionTypeOK, stopLocal
  <2>3. OwnerBuiltIt'
    BY <1>1, <2>1, BuildersKept DEF stopLocal
  <2>4. FailuresCount'
    BY <1>1, <2>1 DEF FailuresCount, stopLocal
  <2>5. QED
    BY <2>2, <2>3, <2>4 DEF ProtectionInv
<1>4. CASE ClockTicks
  <2>1. /\ ticks < MaxTicks /\ ticks' = ticks + 1 /\ UNCHANGED <<execs, entries, obs, stopLocal>>
    BY <1>4 DEF ClockTicks, stopVenue
  <2>2. ticks' \in 0 .. MaxTicks /\ ticks <= ticks' /\ ticks \in Int /\ ticks' \in Int
    <3>1. ticks \in 0 .. MaxTicks /\ MaxTicks \in Nat
      BY <1>1, ProtectionAssumption DEF ProtectionTypeOK
    <3>2. QED
      BY <2>1, <3>1
  <2>3. ProtectionTypeOK'
    <3>1. \A o \in ToSet(obs) : o.at \in 0 .. ticks'
      BY <1>1, <2>2 DEF ProtectionTypeOK
    <3>2. QED
      BY <1>1, <2>1, <2>2, <3>1 DEF ProtectionTypeOK, stopLocal
  <2>4. OwnerBuiltIt'
    BY <1>1, <2>1, BuildersKept DEF stopLocal
  <2>5. FailuresCount'
    <3>1. ASSUME NEW g \in Group PROVE prot[g].since <= ticks'
      <4>1. prot[g].since \in Int /\ prot[g].since <= ticks
        BY <1>1 DEF FailuresCount, ProtectionTypeOK, Never
      <4>2. QED
        BY <2>2, <4>1
    <3>2. QED
      BY <1>1, <2>1, <3>1 DEF FailuresCount, stopLocal
  <2>6. QED
    BY <2>3, <2>4, <2>5 DEF ProtectionInv
<1>5. CASE \E stops \in [Group -> Legs] : Observe(stops)
  <2>1. PICK stops \in [Group -> Legs] : Observe(stops)
    BY <1>5
  <2> DEFINE o == [lots |-> VenueLots, stops |-> stops, quiet |-> entries = {}, at |-> ticks]
  <2>2. obs' = <<o>> /\ UNCHANGED <<ticks, execs, entries, stopLocal>>
    BY <2>1 DEF Observe, stopVenue
  <2>3. ToSet(obs') = {o} /\ obs' = <<obs'[1]>>
    <3> HIDE DEF o
    <3>1. QED
      BY <2>2 DEF ToSet
  <2>4. o.at = ticks /\ o.stops \in [Group -> Legs]
    OBVIOUS
  <2> HIDE DEF o
  <2>5. ProtectionTypeOK'
    <3>1. \A p \in ToSet(obs') : p.at \in 0 .. ticks /\ p.stops \in [Group -> Legs]
      BY <1>1, <2>3, <2>4 DEF ProtectionTypeOK
    <3>2. (obs' # <<>> => obs' = <<obs'[1]>>) /\ Booking' = Booking
      BY <2>2, <2>3 DEF Booking
    <3>3. QED
      BY <1>1, <2>2, <3>1, <3>2 DEF ProtectionTypeOK, stopLocal
  <2>6. OwnerBuiltIt'
    BY <1>1, <2>2, BuildersKept DEF stopLocal
  <2>7. FailuresCount'
    BY <1>1, <2>2, <2>3, <2>4 DEF FailuresCount, stopLocal
  <2>8. QED
    BY <2>5, <2>6, <2>7 DEF ProtectionInv
<1>6. QED
  BY <1>2, <1>3, <1>4, <1>5

\* Who owns the position after a booking alone built it, if it did before.
LEMMA BookKeepsOwner ==
  ASSUME ProtectionTypeOK, OwnerBuiltIt, NEW i \in DOMAIN execs, NEW after,
         after = LedgerLots + execs[i].lots,
         LedgerLots' = after,
         after # 0 /\ ~SameSide(LedgerLots, after) => Builders' = {execs[i].group},
         after # 0 /\ SameSide(LedgerLots, after) =>
           Builders' = Builders \cup (IF SameSide(LedgerLots, execs[i].lots)
                                        THEN {execs[i].group} ELSE {})
  PROVE  LET group == OwningGroup(execs[i], after)
         IN  group \in Group \cup {Nobody} /\ (group # Nobody => Builders' = {group})
<1>1. PICK group : group = OwningGroup(execs[i], after)
  OBVIOUS
<1>2. after - execs[i].lots = LedgerLots /\ execs[i].group \in Group \cup {Nobody}
  BY BookingsTyped
<1>3. stopOwner.group \in Group \cup {Nobody}
  BY DEF ProtectionTypeOK
<1>4. group \in Group \cup {Nobody}
  BY <1>1, <1>2, <1>3 DEF OwningGroup
<1>5. ASSUME group # Nobody PROVE Builders' = {group}
  <2>1. after # 0 /\ stopOwner.lots = LedgerLots
    BY <1>1, <1>2, <1>5 DEF OwningGroup
  <2>2. CASE ~SameSide(LedgerLots, after)
    <3>1. group = execs[i].group
      BY <1>1, <1>2, <2>1, <2>2 DEF OwningGroup
    <3>2. QED
      BY <2>1, <2>2, <3>1
  <2>3. CASE SameSide(LedgerLots, after)
    <3>1. /\ group = stopOwner.group
          /\ SameSide(LedgerLots, execs[i].lots) => execs[i].group = group
      BY <1>1, <1>2, <1>5, <2>1, <2>3 DEF OwningGroup
    <3>2. Builders = {group}
      BY <1>5, <3>1 DEF OwnerBuiltIt
    <3>3. QED
      BY <2>1, <2>3, <3>1, <3>2
  <2>4. QED
    BY <2>2, <2>3
<1>6. QED
  BY <1>1, <1>4, <1>5

\* An execution is booked, or was.
LEMMA BookKeepsStops ==
  ASSUME ProtectionInv, NEW i \in DOMAIN execs, Book(i)
  PROVE  ProtectionInv'
<1>1. /\ ProtectionTypeOK /\ OwnerBuiltIt /\ FailuresCount
      /\ bookings \in Seq(Booking)
      /\ UNCHANGED <<ticks, execs, entries, obs, openingLots, prot, naked>>
  BY BookingsTyped DEF ProtectionInv, Book, stopVenue
<1>2. FailuresCount'
  BY <1>1 DEF FailuresCount
<1>3. CASE i \in stopOwner.known
  <2>1. UNCHANGED <<bookings, stopOwner>>
    BY <1>3 DEF Book
  <2>2. OwnerBuiltIt'
    BY <1>1, <2>1, BuildersKept
  <2>3. ProtectionTypeOK'
    BY <1>1, <2>1 DEF ProtectionTypeOK
  <2>4. QED
    BY <1>2, <2>2, <2>3 DEF ProtectionInv
<1>4. CASE i \notin stopOwner.known
  <2>1. PICK after : after = LedgerLots + execs[i].lots
    OBVIOUS
  <2>2. PICK group : group = OwningGroup(execs[i], after)
    OBVIOUS
  <2>3. PICK last : last = [exec |-> i, after |-> after]
    OBVIOUS
  <2>4. /\ bookings' = Append(bookings, last)
        /\ stopOwner' = [stopOwner EXCEPT !.group = group, !.lots = after, !.known = @ \cup {i}]
    BY <1>4, <2>1, <2>2, <2>3 DEF Book
  <2>5. /\ LedgerLots' = after
        /\ after # 0 /\ ~SameSide(LedgerLots, after) => Builders' = {execs[i].group}
        /\ after # 0 /\ SameSide(LedgerLots, after) =>
             Builders' = Builders \cup (IF SameSide(LedgerLots, execs[i].lots)
                                          THEN {execs[i].group} ELSE {})
    BY <1>1, <2>1, <2>3, <2>4, BookingBuilds
  <2>6. group \in Group \cup {Nobody} /\ (group # Nobody => Builders' = {group})
    BY <1>1, <2>1, <2>2, <2>5, BookKeepsOwner
  <2>7. after \in Int
    BY <1>1, <2>1, BookingsTyped
  <2>8. stopOwner \in [group : Group \cup {Nobody}, lots : Int, known : SUBSET DOMAIN execs]
    BY <1>1 DEF ProtectionTypeOK
  <2>9. /\ stopOwner' \in [group : Group \cup {Nobody}, lots : Int, known : SUBSET DOMAIN execs]
        /\ stopOwner'.group = group /\ stopOwner'.lots = after
        /\ stopOwner'.known = stopOwner.known \cup {i}
    BY <2>4, <2>6, <2>7, <2>8
  <2>10. PICK n \in Nat : n = Len(bookings) /\ DOMAIN bookings = 1 .. n
    BY <1>1, BookingsTyped
  <2>11. /\ DOMAIN bookings' = 1 .. n + 1
         /\ \A k \in 1 .. n : bookings'[k] = bookings[k]
         /\ bookings'[n + 1] = last
    BY <1>1, <2>4, <2>10
  <2>12. ProtectionTypeOK'
    <3>1. last \in Booking
      BY <2>3, <2>7 DEF Booking
    <3>2. bookings' \in Seq(Booking)
      <4> HIDE DEF Booking
      <4>1. QED
        BY <1>1, <2>4, <3>1
    <3>3. QED
      BY <1>1, <2>9, <3>2 DEF ProtectionTypeOK, Booking
  <2>13. OwnerBuiltIt'
    <3>1. 1 .. n + 1 = (1 .. n) \cup {n + 1} /\ n + 1 \notin 1 .. n
      BY <2>10
    <3>2. last.exec = i
      BY <2>3
    <3>3. /\ stopOwner.known = {bookings[k].exec : k \in 1 .. n}
          /\ \A j, k \in 1 .. n : bookings[j].exec = bookings[k].exec => j = k
      BY <1>1, <2>10 DEF OwnerBuiltIt
    <3>4. stopOwner'.known = {bookings'[k].exec : k \in 1 .. n + 1}
      BY <2>9, <2>11, <3>1, <3>2, <3>3
    <3>5. \A k \in 1 .. n : bookings'[k].exec # i
      BY <1>4, <2>11, <3>3
    <3>6. ASSUME NEW j \in 1 .. n + 1, NEW k \in 1 .. n + 1, bookings'[j].exec = bookings'[k].exec
          PROVE  j = k
      <4>1. CASE j \in 1 .. n /\ k \in 1 .. n
        BY <2>11, <3>3, <3>6, <4>1
      <4>2. CASE j = n + 1 \/ k = n + 1
        BY <2>11, <3>1, <3>2, <3>5, <3>6, <4>2
      <4>3. QED
        BY <3>1, <4>1, <4>2
    <3>7. QED
      BY <2>5, <2>6, <2>9, <2>11, <3>4, <3>6 DEF OwnerBuiltIt
  <2>14. QED
    BY <1>2, <2>12, <2>13 DEF ProtectionInv
<1>5. QED
  BY <1>3, <1>4

\* What a review leaves: every group was decided upon, from the observation.
LEMMA ReviewDecides ==
  ASSUME ProtectionInv, NEW capable \in BOOLEAN, NEW supported \in Supported,
         NEW flat \in BOOLEAN, Review(capable, supported, flat)
  PROVE  /\ Observed(obs[1]) /\ obs[1] \in ToSet(obs)
         /\ \A g \in Group : Decides(prot'[g], g, obs[1], flat)
         /\ prot' \in [Group -> Verdict] /\ LedgerLots' = LedgerLots
         /\ flat => LedgerLots = 0 /\ obs[1].lots = 0
<1>1. /\ ProtectionTypeOK /\ OwnerBuiltIt /\ supported \in BOOLEAN
  BY ProtectionAssumption DEF ProtectionInv
<1>2. /\ obs # <<>> /\ (flat => VerifiedFlat)
      /\ prot' = [g \in Group |-> Decide(g, obs[1], flat, capable, supported)]
      /\ UNCHANGED <<ticks, execs, entries, openingLots, bookings, stopOwner>>
  BY DEF Review, stopVenue
<1>3. obs[1] \in ToSet(obs)
  <2>1. PICK o : o = obs[1]
    OBVIOUS
  <2>2. obs = <<o>>
    BY <1>1, <1>2, <2>1 DEF ProtectionTypeOK
  <2>3. QED
    BY <2>1, <2>2 DEF ToSet
<1>4. Observed(obs[1])
  <2>1. obs[1].at \in 0 .. ticks /\ obs[1].stops \in [Group -> Legs]
    BY <1>1, <1>3 DEF ProtectionTypeOK
  <2>2. QED
    BY <1>1, <2>1, ProtectionAssumption DEF Observed, ProtectionTypeOK
<1>5. \A g \in Group : Decides(prot'[g], g, obs[1], flat)
  BY <1>1, <1>2, <1>4, ReducerDecides
<1>6. prot' \in [Group -> Verdict]
  BY <1>2, <1>5 DEF Decides
<1>7. LedgerLots' = LedgerLots
  BY <1>1, <1>2, BuildersKept
<1>8. flat => LedgerLots = 0 /\ obs[1].lots = 0
  BY <1>2 DEF VerifiedFlat
<1>9. QED
  BY <1>3, <1>4, <1>5, <1>6, <1>7, <1>8

\* Every group is reviewed, and the row of failing reviews goes on or ends.
LEMMA ReviewKeepsStops ==
  ASSUME ProtectionInv, NEW capable \in BOOLEAN, NEW supported \in Supported,
         NEW flat \in BOOLEAN, Review(capable, supported, flat)
  PROVE  ProtectionInv'
<1>1. /\ ProtectionTypeOK /\ OwnerBuiltIt /\ FailuresCount
  BY DEF ProtectionInv
<1>2. PICK o : o = obs[1]
  OBVIOUS
<1>3. /\ Observed(o) /\ o \in ToSet(obs) /\ \A g \in Group : Decides(prot'[g], g, o, flat)
      /\ prot' \in [Group -> Verdict]
  BY <1>2, ReviewDecides
<1>4. /\ naked' = [g \in Group |->
           IF prot'[g].status \in {"PROTECTED", "FLAT"} THEN Never
           ELSE IF naked[g] = Never /\ prot'[g].status = "RESTORING" THEN o.at
           ELSE naked[g]]
      /\ obs' = <<>>
      /\ UNCHANGED <<ticks, execs, entries, openingLots, bookings, stopOwner>>
  BY <1>2 DEF Review, stopVenue
<1>5. ticks \in 0 .. MaxTicks /\ o.at \in 0 .. ticks /\ o.at \in 0 .. MaxTicks
  BY <1>1, <1>3, ProtectionAssumption DEF ProtectionTypeOK, Observed
<1>6. ToSet(obs') = {}
  BY <1>4 DEF ToSet
<1>7. \A g \in Group : /\ prot[g].since \in {Never} \cup 0 .. MaxTicks
                       /\ naked[g] \in {Never} \cup 0 .. MaxTicks
                       /\ prot'[g].since \in {Never} \cup 0 .. MaxTicks
  BY <1>1, <1>3, SinceTyped DEF ProtectionTypeOK, Verdict
<1>8. ProtectionTypeOK'
  <2>1. naked' \in [Group -> {Never} \cup 0 .. MaxTicks]
    BY <1>4, <1>5, <1>7
  <2>2. obs' = <<>> /\ Booking' = Booking /\ stopVenue' = stopVenue
    BY <1>4 DEF Booking, stopVenue
  <2>3. QED
    BY <1>1, <1>3, <1>4, <1>6, <2>1, <2>2 DEF ProtectionTypeOK, Verdict
<1>9. OwnerBuiltIt'
  BY <1>1, <1>4, BuildersKept
<1>10. FailuresCount'
  <2>1. ASSUME NEW g \in Group
        PROVE  /\ prot'[g].since <= ticks
               /\ naked'[g] # Never => prot'[g].since # Never /\ prot'[g].since <= naked'[g]
    <3>1. PICK before, after, was, now : before = prot[g].since /\ after = prot'[g].since
                                        /\ was = naked[g] /\ now = naked'[g]
      OBVIOUS
    <3>2. /\ {before, after, was} \subseteq {Never} \cup 0 .. MaxTicks /\ before <= ticks
          /\ before <= o.at /\ (was # Never => before # Never /\ before <= was)
      BY <1>1, <1>3, <1>7, <3>1 DEF FailuresCount
    <3>3. Started(g, o) = (IF before # Never THEN before ELSE o.at)
      BY <3>1 DEF Started
    <3>4. /\ after \in {Never, before, Started(g, o)}
          /\ prot'[g].status \notin {"PROTECTED", "FLAT"} => after \in {before, Started(g, o)}
          /\ prot'[g].status = "RESTORING" => after = Started(g, o)
      BY <1>3, <3>1 DEF Decides
    <3>5. now = (IF prot'[g].status \in {"PROTECTED", "FLAT"} THEN Never
                 ELSE IF was = Never /\ prot'[g].status = "RESTORING" THEN o.at
                 ELSE was)
      BY <1>4, <3>1
    <3>6. after <= ticks
      BY <1>5, <3>2, <3>3, <3>4 DEF Never
    <3>7. now # Never => after # Never /\ after <= now
      <4>1. CASE now = o.at /\ prot'[g].status = "RESTORING"
        BY <1>5, <3>2, <3>3, <3>4, <4>1 DEF Never
      <4>2. CASE now = was /\ prot'[g].status \notin {"PROTECTED", "FLAT"}
        BY <1>5, <3>2, <3>3, <3>4, <4>2 DEF Never
      <4>3. QED
        BY <3>5, <4>1, <4>2
    <3>8. QED
      BY <3>1, <3>6, <3>7
  <2>2. QED
    BY <1>4, <1>6, <2>1 DEF FailuresCount
<1>11. QED
  BY <1>8, <1>9, <1>10 DEF ProtectionInv

\* Every step keeps the invariant.
LEMMA ProtectionStepInv == ProtectionInv /\ [ProtectionNext]_protectionVars => ProtectionInv'
<1> SUFFICES ASSUME ProtectionInv, [ProtectionNext]_protectionVars PROVE ProtectionInv'
  OBVIOUS
<1>1. CASE ProtectionNext
  BY <1>1, VenueKeepsStops, BookKeepsStops, ReviewKeepsStops DEF ProtectionNext
<1>2. CASE UNCHANGED protectionVars
  <2>1. /\ ProtectionTypeOK /\ OwnerBuiltIt /\ FailuresCount
        /\ UNCHANGED <<ticks, execs, entries, obs, openingLots, bookings, stopOwner, prot, naked>>
    BY <1>2 DEF ProtectionInv, protectionVars, stopVenue, stopLocal
  <2>2. OwnerBuiltIt'
    BY <2>1, BuildersKept
  <2>3. ProtectionTypeOK' /\ FailuresCount'
    BY <2>1 DEF ProtectionTypeOK, FailuresCount
  <2>4. QED
    BY <2>2, <2>3 DEF ProtectionInv
<1>3. QED
  BY <1>1, <1>2

\* Only a review ends an observation.
LEMMA OnlyReviewsCommit ==
  ASSUME ProtectionNext, Committed
  PROVE  \E capable \in BOOLEAN, supported \in Supported, flat \in BOOLEAN :
           Review(capable, supported, flat)
  BY DEF ProtectionNext, Committed, Execute, EntryDone, ClockTicks, Observe, Book

\* What a committed review promises.
LEMMA CommittedKeeps ==
  ASSUME ProtectionInv, ProtectionNext
  PROVE  NeverSilentlyNaked /\ CancelOnlyFlat /\ RestorationBounded
<1> SUFFICES ASSUME Committed PROVE NeverSilentlyNaked /\ CancelOnlyFlat /\ RestorationBounded
  BY DEF NeverSilentlyNaked, CancelOnlyFlat, RestorationBounded
<1>1. PICK capable \in BOOLEAN, supported \in Supported, flat \in BOOLEAN :
        Review(capable, supported, flat)
  BY OnlyReviewsCommit
<1>2. PICK o : o = obs[1]
  OBVIOUS
<1>3. /\ Observed(o) /\ o \in ToSet(obs) /\ \A g \in Group : Decides(prot'[g], g, o, flat)
      /\ prot' \in [Group -> Verdict] /\ LedgerLots' = LedgerLots
      /\ flat => LedgerLots = 0 /\ o.lots = 0
  BY <1>1, <1>2, ReviewDecides
<1>4. /\ naked' = [g \in Group |->
           IF prot'[g].status \in {"PROTECTED", "FLAT"} THEN Never
           ELSE IF naked[g] = Never /\ prot'[g].status = "RESTORING" THEN o.at
           ELSE naked[g]]
      /\ stopOwner' = stopOwner
  BY <1>1, <1>2 DEF Review
<1>5. ProtectionTypeOK /\ FailuresCount
  BY DEF ProtectionInv
<1>6. NeverSilentlyNaked
  <2>1. CASE LedgerLots = 0
    BY <1>3, <2>1 DEF NeverSilentlyNaked
  <2>2. CASE LedgerLots # 0 /\ stopOwner.group \in Group
    <3>1. PICK g \in Group : g = stopOwner.group
      BY <2>2
    <3>2. Decides(prot'[g], g, o, flat)
      BY <1>3
    <3>3. \/ "LATCH_ENTRIES" \in prot'[g].acts
          \/ prot'[g].status = "PROTECTED" /\ o.stops[g] = <<Abs(LedgerLots)>>
      BY <2>2, <3>1, <3>2 DEF Decides
    <3>4. QED
      BY <1>2, <1>3, <1>4, <3>1, <3>3 DEF NeverSilentlyNaked
  <2>3. CASE LedgerLots # 0 /\ stopOwner.group = Nobody
    <3>1. PICK g \in Group : TRUE
      BY ProtectionAssumption
    <3>2. Decides(prot'[g], g, o, flat)
      BY <1>3
    <3>3. "LATCH_ENTRIES" \in prot'[g].acts
      BY <2>3, <3>2, ProtectionAssumption DEF Decides
    <3>4. QED
      BY <3>3 DEF NeverSilentlyNaked
  <2>4. stopOwner.group \in Group \cup {Nobody}
    BY <1>5 DEF ProtectionTypeOK
  <2>5. QED
    BY <2>1, <2>2, <2>3, <2>4
<1>7. CancelOnlyFlat
  <2>1. ASSUME NEW g \in Group, "CANCEL_STOP" \in prot'[g].acts PROVE flat /\ LedgerLots = 0
    <3>1. Decides(prot'[g], g, o, flat)
      BY <1>3
    <3>2. QED
      BY <2>1, <3>1 DEF Decides
  <2>2. QED
    BY <1>2, <1>3, <2>1 DEF CancelOnlyFlat
<1>8. RestorationBounded
  <2>1. ASSUME NEW g \in Group, prot'[g].status = "RESTORING" PROVE o.at - naked'[g] < Budget
    <3>1. o.at - Started(g, o) < Budget
      <4>1. Decides(prot'[g], g, o, flat)
        BY <1>3
      <4>2. QED
        BY <2>1, <4>1 DEF Decides
    <3>2. PICK before, was : before = prot[g].since /\ was = naked[g]
      OBVIOUS
    <3>3. /\ before \in {Never} \cup 0 .. MaxTicks /\ was \in {Never} \cup 0 .. MaxTicks
          /\ (was # Never => before # Never /\ before <= was)
      BY <1>3, <1>5, <3>2, SinceTyped DEF FailuresCount, ProtectionTypeOK
    <3>4. o.at \in Int /\ Budget \in Nat
      BY <1>3, ProtectionAssumption DEF Observed
    <3>5. Started(g, o) = (IF before # Never THEN before ELSE o.at)
      BY <3>2 DEF Started
    <3>6. naked'[g] = (IF was = Never THEN o.at ELSE was)
      BY <1>4, <2>1, <3>2
    <3>7. CASE was = Never
      BY <3>1, <3>3, <3>4, <3>5, <3>6, <3>7, ProtectionAssumption DEF Never
    <3>8. CASE was # Never
      BY <3>1, <3>3, <3>4, <3>5, <3>6, <3>8 DEF Never
    <3>9. QED
      BY <3>7, <3>8
  <2>2. QED
    BY <1>2, <2>1 DEF RestorationBounded
<1>9. QED
  BY <1>6, <1>7, <1>8

\* The stops of a position are kept: its owner built it alone, and whatever
\* a review observed, a position without its stop is repaired or left within
\* the budget, and no stop goes while a position was seen
\* (ProtectionManager.evaluate, _execution_ownership).
THEOREM ProtectionAlwaysKept == ProtectionSpec => ProtectionKept
<1>1. ProtectionInit => ProtectionInv
  BY ProtectionInitInv
<1>2. ProtectionInv /\ [ProtectionNext]_protectionVars => ProtectionInv'
  BY ProtectionStepInv
<1>3. ProtectionInv => ProtectionTypeOK /\ OwnerBuiltIt
  BY DEF ProtectionInv
<1>4. ProtectionInv /\ [ProtectionNext]_protectionVars =>
        [NeverSilentlyNaked /\ CancelOnlyFlat /\ RestorationBounded]_protectionVars
  BY CommittedKeeps
<1>5. QED
  BY <1>1, <1>2, <1>3, <1>4, PTL DEF ProtectionSpec, ProtectionKept
-----------------------------------------------------------------------------
(* The margin estimate: a pending order's lot that fills moves the position *)
(* by one and leaves one lot less to fill, so that what a side may come to *)
(* never grows; the first estimate therefore allows for every later one.   *)
(* What is asked for a position is the charge of the first tier that       *)
(* reaches it, which grows with the position where the tiers meet.         *)


ListTyped == pending \in Seq(Reservations)
MarginTyped ==
  /\ holding \in Int /\ ListTyped /\ Len(pending) <= MaxPending
  /\ asked.long \in Int /\ asked.short \in Int

\* The maintenance asked for is that of the widest position asked for.
WorstAsked == Larger(Abs(asked.long), Abs(asked.short)) * MarkNow
AskedForWorst ==
  asked.known => Reaching(WorstAsked) # {} /\ asked.maintenance = Charge(WorstAsked)

MarginInv == MarginTyped /\ NeverWider /\ AskedForWorst

\* What a reservation is made of.
LEMMA ReservationParts ==
  ASSUME ListTyped, NEW i \in DOMAIN pending
  PROVE  /\ pending[i] \in Reservations /\ pending[i].side \in {1, -1}
         /\ pending[i].closing \in BOOLEAN
         /\ pending[i].remaining \in Nat /\ pending[i].unresolved \in Nat
         /\ pending[i].unresolved <= pending[i].remaining
         /\ Executable(pending[i]) \in Nat
<1>1. pending[i] \in Reservations
  BY ElementOfSeq DEF ListTyped
<1>2. MaxSize \in Nat
  BY MarginAssumption
<1> QED
  BY <1>1, <1>2 DEF Reservations, Executable

\* The orders of a side, and their sums.
LEMMA MarginSums ==
  ASSUME ListTyped, NEW side, NEW closing
  PROVE  /\ IsFiniteSet(Of(side, closing)) /\ Of(side, closing) \in SUBSET DOMAIN pending
         /\ Ordinary(side) \in Nat /\ Reported(side) \in Nat /\ ClosersFill(side) \in Nat
<1>1. IsFiniteSet(DOMAIN pending)
  BY LenProperties, FS_Interval DEF ListTyped
<1>2. \A c : Of(side, c) \in SUBSET DOMAIN pending /\ IsFiniteSet(Of(side, c))
  <2>1. \A c : Of(side, c) \in SUBSET DOMAIN pending
    BY DEF Of
  <2> QED
    BY <1>1, <2>1, FS_Subset
<1>3. Ordinary(side) \in Nat
  BY <1>2, TotalFinite, ReservationParts DEF Ordinary
<1>4. Reported(side) \in Nat
  BY <1>2, TotalFinite, ReservationParts DEF Reported
<1>5. ClosersFill(side) \in Nat
  BY <1>2, TotalFinite, ReservationParts DEF ClosersFill
<1> QED
  BY <1>2, <1>3, <1>4, <1>5

LEMMA SumsTyped ==
  ListTyped => \A side : /\ Ordinary(side) \in Nat /\ Reported(side) \in Nat
                         /\ ClosersFill(side) \in Nat
  BY MarginSums

\* Also after a step.
LEMMA MarginSumsThen ==
  ListTyped' => \A side : /\ Ordinary(side)' \in Nat /\ Reported(side)' \in Nat
                          /\ ClosersFill(side)' \in Nat
<1>1. (ListTyped => \A side : /\ Ordinary(side) \in Nat /\ Reported(side) \in Nat
                              /\ ClosersFill(side) \in Nat)'
  BY SumsTyped, PTL
<1> QED
  BY <1>1

\* The worst position of a side is beyond the present one.
LEMMA WorstBeyond ==
  ASSUME ListTyped, holding \in Int, NEW side \in {1, -1}
  PROVE  Worst(side) \in Int /\ side * holding <= Worst(side)
<1>1. Ordinary(side) \in Nat /\ Reported(side) \in Nat /\ ClosersFill(side) \in Nat
  BY MarginSums
<1>2. side * holding \in Int /\ Close(side) \in Nat
  BY <1>1 DEF Close, Smaller, Larger
<1> QED
  BY <1>1, <1>2 DEF Worst

LEMMA WorstTyped ==
  ListTyped /\ holding \in Int => \A side \in {1, -1} : Worst(side) \in Int
  BY WorstBeyond

\* The sum after one of the orders has one lot less, or none.
LEMMA OneLotLess ==
  ASSUME NEW S, IsFiniteSet(S), NEW i, NEW f, NEW g, NEW k \in {0, 1},
         \A j \in S : f[j] \in Nat /\ g[j] \in Nat,
         \A j \in S \ {i} : g[j] = f[j], f[i] = g[i] + k
  PROVE  Total(f, S) = Total(g, S) + (IF i \in S THEN k ELSE 0)
<1>1. CASE i \in S /\ k = 1
  <2>1. f[i] = g[i] + 1
    BY <1>1
  <2>2. Total(f, S) = Total(g, S) + 1
    BY <1>1, <2>1, TotalAddLot
  <2> QED
    BY <1>1, <2>2
<1>2. CASE ~(i \in S /\ k = 1)
  <2>1. ASSUME NEW j \in S
        PROVE  f[j] = g[j]
    <3>1. CASE j = i
      <4>1. k = 0 /\ g[i] \in Nat
        BY <1>2, <3>1, <2>1
      <4> QED
        BY <3>1, <4>1
    <3> QED
      BY <2>1, <3>1
  <2>2. Total(f, S) = Total(g, S) /\ Total(f, S) \in Nat
    BY <2>1, TotalSame, TotalFinite
  <2>3. (IF i \in S THEN k ELSE 0) = 0
    BY <1>2
  <2> QED
    BY <2>2, <2>3
<1> QED
  BY <1>1, <1>2

\* A step replaces one order by another of its side and kind.
LEMMA ReplacedOrder ==
  ASSUME ListTyped, NEW i \in DOMAIN pending, NEW r \in Reservations,
         pending' = [pending EXCEPT ![i] = r],
         r.side = pending[i].side, r.closing = pending[i].closing
  PROVE  /\ ListTyped' /\ Len(pending') = Len(pending) /\ DOMAIN pending' = DOMAIN pending
         /\ pending'[i] = r /\ \A j \in DOMAIN pending \ {i} : pending'[j] = pending[j]
         /\ \A side, closing : Of(side, closing)' = Of(side, closing)
<1>1. pending' \in Seq(Reservations) /\ Len(pending') = Len(pending)
  BY ExceptSeq DEF ListTyped
<1>2. /\ DOMAIN pending' = DOMAIN pending /\ pending'[i] = r
      /\ \A j \in DOMAIN pending \ {i} : pending'[j] = pending[j]
  OBVIOUS
<1>3. ASSUME NEW side, NEW closing
      PROVE  Of(side, closing)' = Of(side, closing)
  BY <1>2 DEF Of
<1> QED
  BY <1>1, <1>2, <1>3 DEF ListTyped

\* What a lot less to fill, and one less without details, do to the sums.
LEMMA SumsAfter ==
  ASSUME ListTyped, NEW i \in DOMAIN pending, NEW u \in {0, 1},
         ListTyped', DOMAIN pending' = DOMAIN pending,
         \A side, closing : Of(side, closing)' = Of(side, closing),
         \A j \in DOMAIN pending \ {i} : pending'[j] = pending[j],
         pending[i].remaining = pending'[i].remaining + 1,
         pending[i].unresolved = pending'[i].unresolved + u,
         Executable(pending[i]) = Executable(pending'[i]) + (1 - u),
         NEW side
  PROVE  /\ Ordinary(side) = Ordinary(side)' + (IF i \in Of(side, FALSE) THEN 1 ELSE 0)
         /\ Reported(side) = Reported(side)' + (IF i \in Of(side, TRUE) THEN u ELSE 0)
         /\ ClosersFill(side) = ClosersFill(side)' + (IF i \in Of(side, TRUE) THEN 1 - u ELSE 0)
<1>1. /\ IsFiniteSet(Of(side, FALSE)) /\ IsFiniteSet(Of(side, TRUE))
      /\ Of(side, FALSE) \in SUBSET DOMAIN pending /\ Of(side, TRUE) \in SUBSET DOMAIN pending
  BY MarginSums
<1>2. \A j \in DOMAIN pending :
        /\ pending[j].remaining \in Nat /\ pending[j].unresolved \in Nat
        /\ Executable(pending[j]) \in Nat
  BY ReservationParts
<1>3. \A j \in DOMAIN pending :
        /\ pending'[j].remaining \in Nat /\ pending'[j].unresolved \in Nat
        /\ Executable(pending'[j]) \in Nat
  <2>1. ASSUME NEW j \in DOMAIN pending
        PROVE  pending'[j] \in Reservations
    BY ElementOfSeq DEF ListTyped
  <2>2. MaxSize \in Nat
    BY MarginAssumption
  <2> QED
    BY <2>1, <2>2 DEF Reservations, Executable
<1>4. PICK a : a = [j \in DOMAIN pending |-> pending[j].remaining]
  OBVIOUS
<1>5. PICK b : b = [j \in DOMAIN pending |-> pending'[j].remaining]
  OBVIOUS
<1>6. Ordinary(side) = Ordinary(side)' + (IF i \in Of(side, FALSE) THEN 1 ELSE 0)
  <2>1. Ordinary(side) = Total(a, Of(side, FALSE)) /\ Ordinary(side)' = Total(b, Of(side, FALSE))
    BY <1>4, <1>5 DEF Ordinary
  <2>2. \A j \in Of(side, FALSE) : a[j] \in Nat /\ b[j] \in Nat
    BY <1>1, <1>2, <1>3, <1>4, <1>5
  <2>3. \A j \in Of(side, FALSE) \ {i} : b[j] = a[j]
    BY <1>1, <1>4, <1>5
  <2>4. a[i] = b[i] + 1
    BY <1>4, <1>5
  <2>6. PICK S : S = Of(side, FALSE)
    OBVIOUS
  <2>7. Total(a, S) = Total(b, S) + (IF i \in S THEN 1 ELSE 0)
    <3>1. IsFiniteSet(S) /\ 1 \in {0, 1}
      BY <1>1, <2>6
    <3>2. /\ \A j \in S : a[j] \in Nat /\ b[j] \in Nat
          /\ \A j \in S \ {i} : b[j] = a[j]
          /\ a[i] = b[i] + 1
      BY <2>2, <2>3, <2>4, <2>6
    <3> QED
      BY <3>1, <3>2, OneLotLess
  <2> QED
    BY <2>1, <2>6, <2>7
<1>7. PICK c : c = [j \in DOMAIN pending |-> pending[j].unresolved]
  OBVIOUS
<1>8. PICK d : d = [j \in DOMAIN pending |-> pending'[j].unresolved]
  OBVIOUS
<1>9. Reported(side) = Reported(side)' + (IF i \in Of(side, TRUE) THEN u ELSE 0)
  <2>1. Reported(side) = Total(c, Of(side, TRUE)) /\ Reported(side)' = Total(d, Of(side, TRUE))
    BY <1>7, <1>8 DEF Reported
  <2>2. \A j \in Of(side, TRUE) : c[j] \in Nat /\ d[j] \in Nat
    BY <1>1, <1>2, <1>3, <1>7, <1>8
  <2>3. \A j \in Of(side, TRUE) \ {i} : d[j] = c[j]
    BY <1>1, <1>7, <1>8
  <2>4. c[i] = d[i] + u
    BY <1>7, <1>8
  <2>6. PICK S : S = Of(side, TRUE)
    OBVIOUS
  <2>7. Total(c, S) = Total(d, S) + (IF i \in S THEN u ELSE 0)
    <3>1. IsFiniteSet(S) /\ u \in {0, 1}
      BY <1>1, <2>6
    <3>2. /\ \A j \in S : c[j] \in Nat /\ d[j] \in Nat
          /\ \A j \in S \ {i} : d[j] = c[j]
          /\ c[i] = d[i] + u
      BY <2>2, <2>3, <2>4, <2>6
    <3> QED
      BY <3>1, <3>2, OneLotLess
  <2> QED
    BY <2>1, <2>6, <2>7
<1>10. PICK e : e = [j \in DOMAIN pending |-> Executable(pending[j])]
  OBVIOUS
<1>11. PICK h : h = [j \in DOMAIN pending |-> Executable(pending'[j])]
  OBVIOUS
<1>12. ClosersFill(side) = ClosersFill(side)' + (IF i \in Of(side, TRUE) THEN 1 - u ELSE 0)
  <2>1. ClosersFill(side) = Total(e, Of(side, TRUE)) /\ ClosersFill(side)' = Total(h, Of(side, TRUE))
    BY <1>10, <1>11 DEF ClosersFill, Executable
  <2>2. \A j \in Of(side, TRUE) : e[j] \in Nat /\ h[j] \in Nat
    BY <1>1, <1>2, <1>3, <1>10, <1>11
  <2>3. \A j \in Of(side, TRUE) \ {i} : h[j] = e[j]
    BY <1>1, <1>10, <1>11
  <2>4. e[i] = h[i] + (1 - u)
    BY <1>10, <1>11
  <2>5. 1 - u \in {0, 1}
    OBVIOUS
  <2>6. PICK S : S = Of(side, TRUE)
    OBVIOUS
  <2>7. Total(e, S) = Total(h, S) + (IF i \in S THEN (1 - u) ELSE 0)
    <3>1. IsFiniteSet(S) /\ (1 - u) \in {0, 1}
      BY <1>1, <2>6, <2>5
    <3>2. /\ \A j \in S : e[j] \in Nat /\ h[j] \in Nat
          /\ \A j \in S \ {i} : h[j] = e[j]
          /\ e[i] = h[i] + (1 - u)
      BY <2>2, <2>3, <2>4, <2>6
    <3> QED
      BY <3>1, <3>2, OneLotLess
  <2> QED
    BY <2>1, <2>6, <2>7
<1> QED
  BY <1>6, <1>9, <1>12

\* A fill, or its details, never makes the worst position of a side worse.
LEMMA FillNarrows ==
  ASSUME MarginTyped, NEW i \in DOMAIN pending, LotFills(i) \/ DetailsArrive(i),
         NEW side \in {1, -1}
  PROVE  /\ holding' \in Int /\ ListTyped' /\ Len(pending') = Len(pending)
         /\ Worst(side)' <= Worst(side)
<1>1. PICK u \in {0, 1} :
        /\ u = 0 => LotFills(i)
        /\ u = 1 => DetailsArrive(i)
  <2>1. CASE LotFills(i)
    BY <2>1
  <2>2. CASE DetailsArrive(i)
    BY <2>2
  <2> QED
    BY <2>1, <2>2
<1>2. PICK r : r = pending[i]
  OBVIOUS
<1>3. /\ r \in Reservations /\ r.side \in {1, -1} /\ r.closing \in BOOLEAN
      /\ r.remaining \in Nat /\ r.unresolved \in Nat /\ r.unresolved <= r.remaining
  BY <1>2, ReservationParts DEF MarginTyped
<1>4. PICK s : s = [side |-> r.side, closing |-> r.closing, remaining |-> r.remaining - 1,
                    unresolved |-> r.unresolved - u]
  OBVIOUS
<1>5. /\ s \in Reservations /\ s.side = r.side /\ s.closing = r.closing
      /\ s.remaining = r.remaining - 1 /\ s.unresolved = r.unresolved - u
      /\ pending' = [pending EXCEPT ![i] = s]
  <2>1. u = 0 => r.remaining - r.unresolved > 0
    BY <1>1, <1>2 DEF LotFills, Executable
  <2>2. u = 1 => r.unresolved > 0
    BY <1>1, <1>2 DEF DetailsArrive
  <2>3. MaxSize \in Nat
    BY MarginAssumption
  <2>4. /\ s.side = r.side /\ s.closing = r.closing
        /\ s.remaining = r.remaining - 1 /\ s.unresolved = r.unresolved - u
    BY <1>4
  <2>5. s \in Reservations
    <3>1. r.remaining <= MaxSize /\ r.remaining > 0
      BY <1>1, <1>3, <2>1, <2>2, <2>3 DEF Reservations
    <3>2. r.remaining - 1 \in 0 .. MaxSize /\ r.unresolved - u \in 0 .. MaxSize
      BY <1>1, <1>3, <2>1, <2>2, <2>3, <3>1
    <3>3. s.unresolved <= s.remaining
      BY <1>1, <1>3, <2>1, <2>2, <2>4
    <3> QED
      BY <1>3, <1>4, <3>2, <3>3 DEF Reservations
  <2>8. r = [side |-> r.side, closing |-> r.closing, remaining |-> r.remaining,
             unresolved |-> r.unresolved]
    BY <1>3 DEF Reservations
  <2>6. CASE u = 0
    <3>1. s = [r EXCEPT !.remaining = @ - 1]
      BY <1>3, <1>4, <2>6, <2>8
    <3>2. pending' = [pending EXCEPT ![i].remaining = @ - 1, ![i].unresolved = @]
      BY <1>1, <2>6 DEF LotFills, AfterFill
    <3>3. pending' = [pending EXCEPT ![i] = [r EXCEPT !.remaining = @ - 1]]
      BY <1>2, <1>3, <3>2 DEF MarginTyped, ListTyped, Reservations
    <3> QED
      BY <2>4, <2>5, <3>1, <3>3
  <2>7. CASE u = 1
    <3>1. pending' = [pending EXCEPT ![i].remaining = @ - 1, ![i].unresolved = @ - 1]
      BY <1>1, <2>7 DEF DetailsArrive, AfterFill
    <3>2. s = [r EXCEPT !.remaining = @ - 1, !.unresolved = @ - 1]
      <4>1. PICK t : t = [r EXCEPT !.remaining = @ - 1]
        OBVIOUS
      <4>2. t = [side |-> r.side, closing |-> r.closing, remaining |-> r.remaining - 1,
                 unresolved |-> r.unresolved]
        BY <2>8, <4>1
      <4>3. s = [t EXCEPT !.unresolved = @ - 1]
        BY <1>4, <2>7, <4>2
      <4> QED
        BY <4>1, <4>3
    <3>3. pending' = [pending EXCEPT ![i] = s]
      BY <1>2, <3>1, <3>2
    <3> QED
      BY <2>4, <2>5, <3>3
  <2> QED
    BY <2>6, <2>7
<1>6. /\ ListTyped' /\ Len(pending') = Len(pending) /\ DOMAIN pending' = DOMAIN pending
      /\ pending'[i] = s /\ \A j \in DOMAIN pending \ {i} : pending'[j] = pending[j]
      /\ \A x, closing : Of(x, closing)' = Of(x, closing)
  BY <1>2, <1>5, ReplacedOrder DEF MarginTyped
<1>7. /\ Ordinary(side) = Ordinary(side)' + (IF i \in Of(side, FALSE) THEN 1 ELSE 0)
      /\ Reported(side) = Reported(side)' + (IF i \in Of(side, TRUE) THEN u ELSE 0)
      /\ ClosersFill(side) = ClosersFill(side)' + (IF i \in Of(side, TRUE) THEN 1 - u ELSE 0)
  <2>1. /\ pending[i].remaining = pending'[i].remaining + 1
        /\ pending[i].unresolved = pending'[i].unresolved + u
        /\ Executable(pending[i]) = Executable(pending'[i]) + (1 - u)
    BY <1>2, <1>3, <1>5, <1>6 DEF Executable
  <2> QED
    BY <1>6, <2>1, SumsAfter DEF MarginTyped
<1>8. /\ i \in Of(side, FALSE) <=> r.side = side /\ ~r.closing
      /\ i \in Of(side, TRUE) <=> r.side = side /\ r.closing
  BY <1>2, <1>3 DEF Of
<1>9. PICK p, q : p = side * holding /\ q = side * holding'
  OBVIOUS
<1>10. /\ holding \in Int /\ holding' \in Int /\ p \in Int /\ q \in Int
       /\ r.side = side => q = p + 1
       /\ r.side # side => q = p - 1
       /\ r.side = side /\ r.closing /\ u = 0 => p < 0
  <2>1. holding' = holding + r.side
    BY <1>1, <1>2 DEF LotFills, DetailsArrive
  <2>2. holding \in Int
    BY DEF MarginTyped
  <2>3. r.closing /\ u = 0 => r.side * holding < 0
    BY <1>1, <1>2 DEF LotFills
  <2>4. CASE side = 1
    BY <1>3, <1>9, <2>1, <2>2, <2>3, <2>4
  <2>5. CASE side = -1
    BY <1>3, <1>9, <2>1, <2>2, <2>3, <2>5
  <2> QED
    BY <2>4, <2>5
<1>11. /\ Ordinary(side) \in Nat /\ Reported(side) \in Nat /\ ClosersFill(side) \in Nat
       /\ Ordinary(side)' \in Nat /\ Reported(side)' \in Nat /\ ClosersFill(side)' \in Nat
  BY <1>6, MarginSums, MarginSumsThen DEF MarginTyped
<1>12. PICK x, y, z, x2, y2, z2 :
         /\ x = ClosersFill(side) /\ y = Ordinary(side) /\ z = Reported(side)
         /\ x2 = ClosersFill(side)' /\ y2 = Ordinary(side)' /\ z2 = Reported(side)'
  OBVIOUS
<1>13. q + Smaller(Larger(-q, 0), x2) + y2 + z2 <= p + Smaller(Larger(-p, 0), x) + y + z
  <2>1. /\ x \in Nat /\ y \in Nat /\ z \in Nat /\ x2 \in Nat /\ y2 \in Nat /\ z2 \in Nat
        /\ y = y2 + (IF r.side = side /\ ~r.closing THEN 1 ELSE 0)
        /\ z = z2 + (IF r.side = side /\ r.closing THEN u ELSE 0)
        /\ x = x2 + (IF r.side = side /\ r.closing THEN 1 - u ELSE 0)
    BY <1>7, <1>8, <1>11, <1>12
  <2>2. \/ q = p + 1 /\ y = y2 + 1 /\ z = z2 /\ x = x2
        \/ q = p + 1 /\ y = y2 /\ z = z2 + 1 /\ x = x2
        \/ q = p + 1 /\ p < 0 /\ y = y2 /\ z = z2 /\ x = x2 + 1
        \/ q = p - 1 /\ y = y2 /\ z = z2 /\ x = x2
    BY <1>1, <1>3, <1>10, <2>1
  <2> QED
    BY <1>10, <2>1, <2>2 DEF Smaller, Larger
<1> QED
  BY <1>6, <1>9, <1>10, <1>12, <1>13 DEF Worst, Close

\* Neither does a cancellation.
LEMMA ReleaseNarrows ==
  ASSUME MarginTyped, NEW i \in DOMAIN pending, Release(i), NEW side \in {1, -1}
  PROVE  /\ holding' = holding /\ ListTyped' /\ Len(pending') = Len(pending)
         /\ Worst(side)' <= Worst(side)
<1>1. PICK r : r = pending[i]
  OBVIOUS
<1>2. /\ r \in Reservations /\ r.side \in {1, -1} /\ r.closing \in BOOLEAN
      /\ r.remaining \in Nat /\ r.unresolved \in Nat /\ r.unresolved <= r.remaining
  BY <1>1, ReservationParts DEF MarginTyped
<1>3. PICK s : s = [r EXCEPT !.remaining = r.unresolved]
  OBVIOUS
<1>4. /\ s \in Reservations /\ s.side = r.side /\ s.closing = r.closing
      /\ s.remaining = r.unresolved /\ s.unresolved = r.unresolved
  BY <1>2, <1>3 DEF Reservations
<1>5. pending' = [pending EXCEPT ![i] = s] /\ holding' = holding
  BY <1>1, <1>3 DEF Release
<1>6. /\ ListTyped' /\ Len(pending') = Len(pending) /\ DOMAIN pending' = DOMAIN pending
      /\ pending'[i] = s /\ \A j \in DOMAIN pending \ {i} : pending'[j] = pending[j]
      /\ \A x, closing : Of(x, closing)' = Of(x, closing)
  BY <1>1, <1>4, <1>5, ReplacedOrder DEF MarginTyped
<1>7. \A j \in DOMAIN pending :
        /\ pending[j].remaining \in Nat /\ pending[j].unresolved \in Nat
        /\ Executable(pending[j]) \in Nat
        /\ pending'[j].remaining \in Nat /\ pending'[j].unresolved \in Nat
        /\ Executable(pending'[j]) \in Nat
        /\ pending'[j].remaining <= pending[j].remaining
        /\ pending'[j].unresolved <= pending[j].unresolved
        /\ Executable(pending'[j]) <= Executable(pending[j])
  <2>1. ASSUME NEW j \in DOMAIN pending
        PROVE  /\ pending[j].remaining \in Nat /\ pending[j].unresolved \in Nat
               /\ Executable(pending[j]) \in Nat
    BY ReservationParts DEF MarginTyped
  <2>2. ASSUME NEW j \in DOMAIN pending, j # i
        PROVE  pending'[j] = pending[j]
    BY <1>6, <2>2
  <2>3. /\ pending'[i].remaining \in Nat /\ pending'[i].unresolved \in Nat
        /\ Executable(pending'[i]) = 0 /\ pending'[i].remaining <= pending[i].remaining
        /\ pending'[i].unresolved <= pending[i].unresolved
    BY <1>1, <1>2, <1>4, <1>6 DEF Executable
  <2> QED
    BY <2>1, <2>2, <2>3
<1>8. PICK a, b, c, d, e, h :
        /\ a = [j \in DOMAIN pending |-> pending'[j].remaining]
        /\ b = [j \in DOMAIN pending |-> pending[j].remaining]
        /\ c = [j \in DOMAIN pending |-> pending'[j].unresolved]
        /\ d = [j \in DOMAIN pending |-> pending[j].unresolved]
        /\ e = [j \in DOMAIN pending |-> Executable(pending'[j])]
        /\ h = [j \in DOMAIN pending |-> Executable(pending[j])]
  OBVIOUS
<1>9. /\ Ordinary(side)' = Total(a, Of(side, FALSE)) /\ Ordinary(side) = Total(b, Of(side, FALSE))
      /\ Reported(side)' = Total(c, Of(side, TRUE)) /\ Reported(side) = Total(d, Of(side, TRUE))
      /\ ClosersFill(side)' = Total(e, Of(side, TRUE))
      /\ ClosersFill(side) = Total(h, Of(side, TRUE))
  <2>1. Of(side, FALSE)' = Of(side, FALSE) /\ Of(side, TRUE)' = Of(side, TRUE)
    BY <1>6
  <2> QED
    BY <1>6, <1>8, <2>1 DEF Ordinary, Reported, ClosersFill, Executable
<1>10. /\ IsFiniteSet(Of(side, FALSE)) /\ Of(side, FALSE) \in SUBSET DOMAIN pending
       /\ IsFiniteSet(Of(side, TRUE)) /\ Of(side, TRUE) \in SUBSET DOMAIN pending
  BY MarginSums DEF MarginTyped
<1>11. Ordinary(side)' <= Ordinary(side)
  <2>1. ASSUME NEW j \in Of(side, FALSE)
        PROVE  a[j] \in Int /\ b[j] \in Nat /\ a[j] <= b[j]
    <3>1. j \in DOMAIN pending
      BY <1>10
    <3> QED
      BY <1>7, <1>8, <3>1
  <2>2. Of(side, FALSE) \in SUBSET Of(side, FALSE)
    OBVIOUS
  <2>3. Total(a, Of(side, FALSE)) <= Total(b, Of(side, FALSE))
    BY <1>10, <2>1, <2>2, TotalGrows
  <2> QED
    BY <1>9, <2>3
<1>12. Reported(side)' <= Reported(side)
  <2>1. ASSUME NEW j \in Of(side, TRUE)
        PROVE  c[j] \in Int /\ d[j] \in Nat /\ c[j] <= d[j]
    <3>1. j \in DOMAIN pending
      BY <1>10
    <3> QED
      BY <1>7, <1>8, <3>1
  <2>2. Of(side, TRUE) \in SUBSET Of(side, TRUE)
    OBVIOUS
  <2>3. Total(c, Of(side, TRUE)) <= Total(d, Of(side, TRUE))
    BY <1>10, <2>1, <2>2, TotalGrows
  <2> QED
    BY <1>9, <2>3
<1>13. ClosersFill(side)' <= ClosersFill(side)
  <2>1. ASSUME NEW j \in Of(side, TRUE)
        PROVE  e[j] \in Int /\ h[j] \in Nat /\ e[j] <= h[j]
    <3>1. j \in DOMAIN pending
      BY <1>10
    <3> QED
      BY <1>7, <1>8, <3>1
  <2>2. Of(side, TRUE) \in SUBSET Of(side, TRUE)
    OBVIOUS
  <2>3. Total(e, Of(side, TRUE)) <= Total(h, Of(side, TRUE))
    BY <1>10, <2>1, <2>2, TotalGrows
  <2> QED
    BY <1>9, <2>3
<1>14. /\ Ordinary(side) \in Nat /\ Reported(side) \in Nat /\ ClosersFill(side) \in Nat
       /\ Ordinary(side)' \in Nat /\ Reported(side)' \in Nat /\ ClosersFill(side)' \in Nat
  BY <1>6, MarginSums, MarginSumsThen DEF MarginTyped
<1>15. side * holding \in Int
  BY DEF MarginTyped
<1>16. Worst(side)' <= Worst(side)
  BY <1>5, <1>11, <1>12, <1>13, <1>14, <1>15 DEF Worst, Close, Smaller, Larger
<1> QED
  BY <1>5, <1>6, <1>16

\* Of two amounts that tiers reach the greater is charged more.
LEMMA ChargeGrows ==
  ASSUME TiersMeet, NEW n \in Nat, NEW w \in Nat, n <= w, Reaching(w) # {}
  PROVE  Charge(n) <= Charge(w) /\ Charge(n) \in Int /\ Charge(w) \in Int
<1>1. /\ DOMAIN Tiers \in SUBSET Nat
      /\ \A i \in DOMAIN Tiers : /\ Tiers[i].cap \in Nat /\ Tiers[i].rate \in Nat
                                 /\ Tiers[i].deduction \in Nat
  <2>1. Tiers \in Seq([cap : Nat, rate : Nat, deduction : Nat])
    BY MarginAssumption
  <2>2. DOMAIN Tiers = 1 .. Len(Tiers) /\ Len(Tiers) \in Nat
    BY <2>1, LenProperties
  <2>3. \A i \in DOMAIN Tiers : Tiers[i] \in [cap : Nat, rate : Nat, deduction : Nat]
    BY <2>1, <2>2, ElementOfSeq
  <2> QED
    BY <2>2, <2>3
<1>2. Reaching(w) \in SUBSET Reaching(n) /\ Reaching(n) \in SUBSET DOMAIN Tiers
  BY <1>1 DEF Reaching
<1>3. ASSUME NEW S \in SUBSET DOMAIN Tiers, S # {}
      PROVE  Min(S) \in S /\ \A j \in S : Min(S) <= j
  BY <1>1, <1>3, LeastOfNumbers DEF Min
<1>4. PICK i : i = Min(Reaching(n))
  OBVIOUS
<1>5. PICK j : j = Min(Reaching(w))
  OBVIOUS
<1>6. /\ i \in DOMAIN Tiers /\ j \in DOMAIN Tiers /\ i <= j /\ n <= Tiers[i].cap /\ w <= Tiers[j].cap
      /\ i # j => Tiers[i].cap < w
  <2>1. j \in Reaching(w) /\ \A k \in Reaching(w) : j <= k
    BY <1>2, <1>3, <1>5
  <2>2. i \in Reaching(n) /\ \A k \in Reaching(n) : i <= k
    BY <1>2, <1>3, <1>4
  <2>3. i \in DOMAIN Tiers /\ j \in DOMAIN Tiers /\ n <= Tiers[i].cap /\ w <= Tiers[j].cap
    BY <2>1, <2>2 DEF Reaching
  <2>4. i <= j
    BY <1>2, <2>1, <2>2
  <2>5. ASSUME i # j
        PROVE  Tiers[i].cap < w
    <3>1. i \notin Reaching(w)
      BY <1>1, <2>1, <2>3, <2>4, <2>5
    <3> QED
      BY <1>1, <2>3, <3>1 DEF Reaching
  <2> QED
    BY <2>3, <2>4, <2>5
<1>7. PICK r \in Nat, d \in Nat, c \in Nat :
        Tiers[i].rate = r /\ Tiers[i].deduction = d /\ Tiers[i].cap = c
  BY <1>1, <1>6
<1>8. PICK s \in Nat, e \in Nat : Tiers[j].rate = s /\ Tiers[j].deduction = e
  BY <1>1, <1>6
<1>9. Charge(n) = n * r - d * 100 /\ Charge(w) = w * s - e * 100
  BY <1>4, <1>5, <1>7, <1>8 DEF Charge, TierOf
<1>10. \A x, y, k \in Nat : x <= y => x * k <= y * k
  OBVIOUS
<1>11. CASE i = j
  <2>1. s = r /\ e = d
    BY <1>7, <1>8, <1>11
  <2>2. n * r <= w * r /\ n * r \in Nat /\ w * r \in Nat
    BY <1>10
  <2> QED
    BY <1>9, <2>1, <2>2
<1>12. CASE i # j
  <2>1. c * r - d * 100 <= c * s - e * 100
    <3>1. i < j /\ i \in Nat /\ j \in Nat
      BY <1>1, <1>6, <1>12
    <3> QED
      BY <1>6, <1>7, <1>8, <3>1 DEF TiersMeet
  <2>2. n * r <= c * r
    BY <1>6, <1>7, <1>10
  <2>3. c <= w
    BY <1>6, <1>7, <1>12
  <2>4. c * s <= w * s
    BY <1>10, <2>3
  <2>5. /\ n * r \in Nat /\ c * r \in Nat /\ c * s \in Nat /\ w * s \in Nat
    OBVIOUS
  <2> QED
    BY <1>9, <2>1, <2>2, <2>4, <2>5
<1> QED
  BY <1>11, <1>12

\* What the estimate asks for at first.
LEMMA MarginInitInv == MarginInit => MarginInv
<1> SUFFICES ASSUME MarginInit
             PROVE  MarginInv
  OBVIOUS
<1>1. ListTyped /\ Len(pending) <= MaxPending /\ holding \in Int
  <2>1. PICK n \in 0 .. MaxPending : pending \in [1 .. n -> Reservations]
    BY DEF MarginInit, Lists
  <2>2. MaxPending \in Nat /\ MaxHeld \in Nat
    BY MarginAssumption
  <2>3. pending \in Seq(Reservations)
    BY <2>1, <2>2, SeqDef
  <2>4. Len(pending) = n
    BY <2>1, <2>2, <2>3, LenProperties
  <2> QED
    BY <2>1, <2>2, <2>3, <2>4 DEF ListTyped, MarginInit
<1>2. WorstLong \in Int /\ WorstShort \in Int
  BY <1>1, WorstBeyond DEF WorstLong, WorstShort
<1>3. asked.long = WorstLong /\ asked.short = WorstShort
  BY DEF MarginInit, Estimate
<1>4. WorstAsked = WorstNotional
  BY <1>3 DEF WorstAsked, WorstNotional
<1>5. AskedForWorst
  BY <1>4 DEF AskedForWorst, MarginInit, Estimate, Maintenance, Charge, Tier
<1> QED
  BY <1>1, <1>2, <1>3, <1>5 DEF MarginInv, MarginTyped, NeverWider

LEMMA MarginStep == MarginInv /\ [MarginNext]_marginVars => MarginInv'
<1> SUFFICES ASSUME MarginInv, [MarginNext]_marginVars
             PROVE  MarginInv'
  OBVIOUS
<1> USE DEF MarginInv
<1>1. CASE UNCHANGED marginVars
  BY <1>1 DEF marginVars, MarginTyped, ListTyped, NeverWider, AskedForWorst, WorstAsked, WorstLong,
     WorstShort, Worst, Close, Ordinary, Reported, ClosersFill, Of
<1>2. ASSUME NEW i \in DOMAIN pending, LotFills(i) \/ DetailsArrive(i) \/ Release(i)
      PROVE  MarginInv'
  <2>1. asked' = asked
    BY <1>2 DEF LotFills, DetailsArrive, Release
  <2>2. /\ holding' \in Int /\ ListTyped' /\ Len(pending') = Len(pending)
        /\ \A side \in {1, -1} : Worst(side)' <= Worst(side)
    <3>1. CASE Release(i)
      BY <3>1, ReleaseNarrows DEF MarginTyped
    <3>2. CASE LotFills(i) \/ DetailsArrive(i)
      BY <3>2, FillNarrows
    <3> QED
      BY <1>2, <3>1, <3>2
  <2>3. \A side \in {1, -1} : Worst(side) \in Int
    BY WorstBeyond DEF MarginTyped
  <2>4. \A side \in {1, -1} : Worst(side)' \in Int
    <3>1. (ListTyped /\ holding \in Int => \A side \in {1, -1} : Worst(side) \in Int)'
      BY WorstTyped, PTL
    <3> QED
      BY <2>2, <3>1
  <2>5. MarginTyped'
    BY <2>1, <2>2 DEF MarginTyped
  <2>6. NeverWider'
    <3>1. PICK a, b, c, d : /\ a = Worst(1) /\ b = Worst(1)' /\ c = Worst(-1) /\ d = Worst(-1)'
      OBVIOUS
    <3>2. /\ a \in Int /\ b \in Int /\ c \in Int /\ d \in Int /\ b <= a /\ d <= c
          /\ a <= asked.long /\ -c >= asked.short /\ asked.long \in Int /\ asked.short \in Int
      BY <2>2, <2>3, <2>4, <3>1 DEF NeverWider, MarginTyped, WorstLong, WorstShort
    <3>3. b <= asked.long /\ -d >= asked.short
      BY <3>2
    <3> QED
      BY <2>1, <3>1, <3>3 DEF NeverWider, WorstLong, WorstShort
  <2>7. AskedForWorst'
    BY <2>1 DEF AskedForWorst, WorstAsked
  <2> QED
    BY <2>5, <2>6, <2>7
<1> QED
  BY <1>1, <1>2 DEF MarginNext

\* However the pending orders fill, are reported late or are canceled, the
\* first estimate allows for the position and for any later estimate; and, of
\* tiers that meet, what it asked for maintains the position.
THEOREM EstimateAlwaysCovers == ASSUME TiersMeet PROVE MarginSpec => []EstimateCovers
<1>1. ASSUME MarginInv
      PROVE  EstimateCovers
  <2>1. /\ holding \in Int /\ WorstLong \in Int /\ WorstShort \in Int
        /\ holding <= WorstLong /\ WorstShort <= holding
    BY <1>1, WorstBeyond DEF MarginInv, MarginTyped, WorstLong, WorstShort
  <2>2. asked.short <= holding /\ holding <= asked.long
    BY <1>1, <2>1 DEF MarginInv, MarginTyped, NeverWider
  <2>3. ASSUME asked.known
        PROVE  asked.maintenance >= Charge(Abs(holding) * MarkNow)
    <3>1. PICK a \in Nat : a = Larger(Abs(asked.long), Abs(asked.short))
      BY <1>1 DEF MarginInv, MarginTyped, Larger, Abs
    <3>2. Abs(holding) \in Nat /\ Abs(holding) <= a
      <4>1. /\ holding \in Int /\ asked.long \in Int /\ asked.short \in Int
            /\ asked.short <= holding /\ holding <= asked.long
        BY <1>1, <2>2 DEF MarginInv, MarginTyped
      <4>2. \A h, l, m \in Int :
              m <= h /\ h <= l => Abs(h) \in Nat /\ Abs(h) <= Larger(Abs(l), Abs(m))
        BY DEF Larger, Abs
      <4> QED
        BY <3>1, <4>1, <4>2
    <3>3. MarkNow \in Nat
      BY MarginAssumption
    <3>4. Abs(holding) * MarkNow \in Nat /\ a * MarkNow \in Nat /\ Abs(holding) * MarkNow <= a * MarkNow
      <4>1. \A x, y, k \in Nat : x <= y => x * k <= y * k
        OBVIOUS
      <4> QED
        BY <3>2, <3>3, <4>1
    <3>5. a * MarkNow = WorstAsked
      BY <3>1 DEF WorstAsked
    <3>6. Reaching(WorstAsked) # {} /\ asked.maintenance = Charge(WorstAsked)
      BY <1>1, <2>3 DEF MarginInv, AskedForWorst
    <3>7. /\ Charge(Abs(holding) * MarkNow) <= Charge(WorstAsked)
          /\ Charge(Abs(holding) * MarkNow) \in Int /\ Charge(WorstAsked) \in Int
      BY <3>4, <3>5, <3>6, ChargeGrows
    <3> QED
      BY <3>6, <3>7
  <2>4. \A i \in DOMAIN pending : pending[i] \in Reservations
    BY <1>1, ReservationParts DEF MarginInv, MarginTyped
  <2> QED
    BY <1>1, <2>1, <2>2, <2>3, <2>4
       DEF MarginInv, MarginTyped, EstimateCovers, MarginTypeOK, WorstCovers, MaintenanceCovers
<1> QED
  BY <1>1, MarginInitInv, MarginStep, PTL DEF MarginSpec
=============================================================================
