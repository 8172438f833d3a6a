------------------------------- MODULE Ledger -------------------------------
(***************************************************************************)
(* The portfolio ledger (portfolio/ledger.py, positions.py): financial     *)
(* facts arrive in any order, repeated and under several names; marks,     *)
(* conversion rates and reservations arrive beside them.  Every transition *)
(* is pure: one that raises leaves the state as it was.  One instrument,   *)
(* a foreign asset beside the settlement asset.  Amounts are integers, and *)
(* only fills are booked whose average entry leaves no remainder (Exact).  *)
(***************************************************************************)
EXTENDS Integers, Sequences, FiniteSets, Lots

CONSTANTS
  Facts,      \* financial messages
  OrderStates, \* reservation messages: [id, side, lots, unresolved, closing, revision]
  Batches,    \* sets of OrderStates that come in one message
  Prices,     \* prices of marks
  Rates,      \* conversion rates of the foreign asset
  MarkAge, MaxNow, Missing

FactKinds == {"execution", "transfer", "funding", "fee_adjustment", "adjustment"}
Assets == {"USDT", "BGB"}
Accounts == {"cash", "realized", "fees", "funding", "external", "adjustments"}

\* A financial message: native is its name at the venue, aliases other names of
\* the same fact, of the execution whose fee it corrects, side 1 or -1.
ASSUME LedgerAssumption ==
  /\ \A f \in Facts :
       /\ f.kind \in FactKinds /\ f.asset \in Assets /\ f.amount \in Int
       /\ f.native \notin f.aliases /\ f.trading \in BOOLEAN
       /\ f.kind = "execution" => f.side \in {1, -1} /\ f.lots \in Nat \ {0} /\ f.price \in Nat \ {0}
  /\ \A r \in OrderStates : r.revision \in Nat
  /\ \A b \in Batches : b \subseteq OrderStates /\ \A r \in b : \A q \in b : r.id = q.id => r = q
  /\ Prices \subseteq Nat \ {0} /\ Rates \subseteq Nat \ {0} /\ MaxNow \in Nat /\ MarkAge \in Nat
  /\ Missing \notin [value : Prices \union Rates, at : 0 .. MaxNow]

VARIABLES
  available,    \* LedgerState.available_ns
  balances,     \* postings summed per account and asset: a debit is positive
  exposure,     \* the position, [lots, average]
  identities,   \* name -> [print, tx], of the names known so far
  transactions, \* facts booked, in order
  mark, rate,   \* newest observation, [value, at], or Missing
  reservations, \* id -> newest reservation
  adjusted,     \* trading_adjustments
  heard,        \* facts accepted so far (observation)
  taken,        \* reservations accepted so far (observation)
  newest        \* event time of the newest mark and rate heard (observation)
ledgerVars ==
  <<available, balances, exposure, identities, transactions, mark, rate, reservations, adjusted,
    heard, taken, newest>>
booking == <<balances, exposure, identities, transactions, adjusted>>

NoMoney == [s \in Assets |-> 0]
Flat == [lots |-> 0, average |-> 0]
LedgerInit ==
  /\ available = 0 /\ balances = [a \in Accounts |-> NoMoney] /\ exposure = Flat
  /\ transactions = <<>> /\ identities = [k \in {} |-> Missing] /\ reservations = [i \in {} |-> Missing]
  /\ mark = Missing /\ rate = Missing /\ adjusted = NoMoney
  /\ heard = {} /\ taken = {} /\ newest = [mark |-> -1, rate |-> -1]

-----------------------------------------------------------------------------
\* apply_fill: the average entry of what remains and the profit of what closes.
Adds(q, lots) == q # 0 /\ (q > 0) = (lots > 0)
Reverses(q, lots) == q # 0 /\ q + lots # 0 /\ (q + lots > 0) # (q > 0)
AverageKept(p, lots, price) == IF p.lots = 0 THEN price ELSE IF p.lots + lots = 0 THEN 0 ELSE p.average
Spent(p, lots, price) == Abs(p.lots) * p.average + Abs(lots) * price
Average(p, lots, price) ==
  CASE p.lots = 0 \/ Reverses(p.lots, lots) -> price
    [] Adds(p.lots, lots) -> Spent(p, lots, price) \div Abs(p.lots + lots)
    [] p.lots # 0 /\ p.lots + lots = 0 -> 0
    [] OTHER -> p.average
Realized(p, lots, price) ==
  IF p.lots = 0 \/ Adds(p.lots, lots) THEN 0
  ELSE Smaller(Abs(p.lots), Abs(lots)) * (price - p.average) * (IF p.lots > 0 THEN 1 ELSE -1)
SignedLots(f) == f.side * f.lots
\* Bound: averages are whole.
Exact(f) ==
  f.kind = "execution" /\ Adds(exposure.lots, SignedLots(f)) =>
    Spent(exposure, SignedLots(f), f.price) % Abs(exposure.lots + SignedLots(f)) = 0

\* The posting pairs of a fact: cash and its counteraccount.
Pair(b, asset, amount, account) ==
  [b EXCEPT !["cash"][asset] = @ + amount, ![account][asset] = @ - amount]
Counter(f) ==
  CASE f.kind \in {"execution", "fee_adjustment"} -> "fees"
    [] f.kind = "transfer" -> "external"
    [] f.kind = "funding" -> "funding"
    [] OTHER -> "adjustments"
Posted(f) ==
  LET own == Pair(balances, f.asset, IF Counter(f) = "fees" THEN -f.amount ELSE f.amount, Counter(f))
  IN IF f.kind = "execution"
     THEN Pair(own, "USDT", Realized(exposure, SignedLots(f), f.price), "realized")
     ELSE own

\* economic_key: a name counts per kind.  The fingerprint is the fact without
\* its names; a fee correction names the transaction it corrects.
Names(f) == {<<f.kind, n>> : n \in {f.native} \union f.aliases}
Corrected(f) == <<"execution", f.of>>
Signature(f) ==
  LET core == [f EXCEPT !.native = Missing, !.aliases = {}]
  IN IF f.kind = "fee_adjustment" THEN [core EXCEPT !.of = identities[Corrected(f)].tx] ELSE core
Known(f) == Names(f) \intersect DOMAIN identities
\* A fee correction needs its execution, with a fee in the same asset.
Acceptable(f) ==
  f.kind = "fee_adjustment" =>
    /\ Corrected(f) \in DOMAIN identities
    /\ transactions[identities[Corrected(f)].tx].asset = f.asset
Named(f, tx) ==
  [k \in Names(f) \union DOMAIN identities |->
     IF k \in Names(f) THEN [print |-> Signature(f), tx |-> tx] ELSE identities[k]]

\* A known fact under any of its names books nothing and teaches the others.
SameFact(f) ==
  /\ \A k \in Known(f) : identities[k].print = Signature(f)
  /\ \A j \in Known(f) : \A k \in Known(f) : identities[j].tx = identities[k].tx
FactKnown(f) ==
  /\ Acceptable(f) /\ SameFact(f)
  /\ \E k \in Known(f) : identities' = Named(f, identities[k].tx)
  /\ heard' = heard \union {f}
  /\ UNCHANGED <<available, balances, exposure, transactions, adjusted, mark, rate, reservations,
                 taken, newest>>

FactBooked(f) ==
  /\ Known(f) = {} /\ Acceptable(f) /\ Exact(f)
  /\ transactions' = Append(transactions, f)
  /\ balances' = Posted(f)
  /\ exposure' = IF f.kind # "execution" THEN exposure
                 ELSE [lots |-> exposure.lots + SignedLots(f), average |-> Average(exposure, SignedLots(f), f.price)]
  /\ identities' = Named(f, Len(transactions) + 1)
  /\ adjusted' = IF f.kind = "adjustment" /\ f.trading THEN [adjusted EXCEPT ![f.asset] = @ + f.amount] ELSE adjusted
  /\ heard' = heard \union {f}
  /\ UNCHANGED <<available, mark, rate, reservations, taken, newest>>

\* A mark or a rate replaces the one there is unless its event time is older.
NotOlder(seen, at) == seen = Missing \/ at >= seen.at
Newer(seen, value, at) == IF NotOlder(seen, at) THEN [value |-> value, at |-> at] ELSE seen
MarkObserved ==
  \E p \in Prices : \E at \in 0 .. available :
    /\ mark' = Newer(mark, p, at)
    /\ newest' = [newest EXCEPT !.mark = Larger(@, at)]
    /\ UNCHANGED <<available, booking, rate, reservations, heard, taken>>
ConversionRateObserved ==
  \E r \in Rates : \E at \in 0 .. available :
    /\ rate' = Newer(rate, r, at)
    /\ newest' = [newest EXCEPT !.rate = Larger(@, at)]
    /\ UNCHANGED <<available, booking, mark, reservations, heard, taken>>

\* Timers and funding announcements only advance the time.
TimerFired ==
  /\ available < MaxNow /\ available' = available + 1
  /\ UNCHANGED <<booking, mark, rate, reservations, heard, taken, newest>>

\* A batch of reservations is taken whole or refused whole.
Follows(r) ==
  r.id \in DOMAIN reservations =>
    LET prior == reservations[r.id] IN
    prior = r \/ (prior.revision < r.revision /\ prior.side = r.side /\ prior.closing = r.closing)
ExecutableLots(r) == r.lots - r.unresolved
ClosingFits(after) ==
  LET closing == {i \in DOMAIN after : after[i].closing /\ ExecutableLots(after[i]) > 0} IN
  /\ \A i \in closing : (after[i].side = -1) = (exposure.lots > 0)
  /\ Total([i \in closing |-> ExecutableLots(after[i])], closing) <= Abs(exposure.lots)
Revised(b) ==
  [i \in {r.id : r \in b} \union DOMAIN reservations |->
     IF \E r \in b : r.id = i THEN CHOOSE r \in b : r.id = i ELSE reservations[i]]
ReservationBatchChanged(b) ==
  /\ \A r \in b : Follows(r)
  /\ ClosingFits(Revised(b))
  /\ reservations' = Revised(b)
  /\ taken' = taken \union b
  /\ UNCHANGED <<available, booking, mark, rate, heard, newest>>

LedgerNext ==
  \/ \E f \in Facts : FactKnown(f) \/ FactBooked(f)
  \/ \E b \in Batches : ReservationBatchChanged(b)
  \/ MarkObserved \/ ConversionRateObserved \/ TimerFired
LedgerSpec == LedgerInit /\ [][LedgerNext]_ledgerVars

-----------------------------------------------------------------------------
(* snapshot *)
WithinAge(seen) == seen # Missing /\ available - seen.at <= MarkAge
Unrealized == IF exposure.lots = 0 THEN 0 ELSE exposure.lots * (mark.value - exposure.average)
Converted(amounts) ==
  IF amounts["BGB"] = 0 THEN amounts["USDT"] ELSE amounts["USDT"] + amounts["BGB"] * rate.value
Negated(amounts) == [s \in Assets |-> -amounts[s]]
Wallet == Converted(balances["cash"])
External == Converted(Negated(balances["external"]))
Marked == exposure.lots # 0 => WithinAge(mark)
Convertible(amounts) == amounts["BGB"] # 0 => WithinAge(rate)
\* The adjustments that are no trading results are not shown.
Shown == {"cash", "realized", "fees", "funding", "external"}
Complete == Marked /\ (\A a \in Shown : Convertible(balances[a])) /\ Convertible(adjusted)
Equity == Wallet + Unrealized
FundingReceived == Converted(Negated(balances["funding"]))
NetPnl ==
  Converted(Negated(balances["realized"])) + Unrealized - Converted(balances["fees"]) + FundingReceived
  + Converted(adjusted)

-----------------------------------------------------------------------------
(* Properties *)
Observations(values) == [value : values, at : 0 .. MaxNow] \union {Missing}
LedgerTypeOK ==
  /\ available \in 0 .. MaxNow
  /\ balances \in [Accounts -> [Assets -> Int]] /\ adjusted \in [Assets -> Int]
  /\ exposure \in [lots : Int, average : Nat] /\ (exposure.lots = 0) = (exposure.average = 0)
  /\ \A k \in DOMAIN identities : identities[k].tx \in DOMAIN transactions
  /\ mark \in Observations(Prices) /\ rate \in Observations(Rates)
  /\ \A i \in DOMAIN reservations : reservations[i] \in OrderStates /\ reservations[i].id = i

\* What the snapshot shows adds up: the equity is the money brought in, the
\* adjustments nobody approved as trading results, and the net result.
EquityExplained ==
  Complete => Equity = External + NetPnl + Converted(Negated(balances["adjustments"])) - Converted(adjusted)

\* The average entry keeps the books of the fills: at any price, profit taken
\* plus profit open is the cash of the fills plus the value of what is held,
\* through additions, partial closes and reversals, in whatever order.
LotsBooked == [i \in DOMAIN transactions |-> IF transactions[i].kind = "execution" THEN SignedLots(transactions[i]) ELSE 0]
CashBooked == [i \in DOMAIN transactions |->
  IF transactions[i].kind = "execution" THEN -SignedLots(transactions[i]) * transactions[i].price ELSE 0]
FillLots == SumTo(LotsBooked, Len(transactions))
FillCash == SumTo(CashBooked, Len(transactions))
BooksOfTheFills ==
  /\ exposure.lots = FillLots
  /\ \A p \in Prices : -balances["realized"]["USDT"] + exposure.lots * (p - exposure.average) = FillCash + FillLots * p

\* A fact is booked once whatever it is called: messages taken that share a
\* name, directly or through a third, are of one transaction.
SharedNames(f, g) == Names(f) \intersect Names(g) # {}
BookedOnce ==
  \A i \in DOMAIN transactions : \A j \in DOMAIN transactions : i # j =>
    \A f \in heard : \A g \in heard :
      ~(SharedNames(f, transactions[i]) /\ SharedNames(f, g) /\ SharedNames(g, transactions[j]))

\* A reservation shown is the newest revision of it that was taken.
NewestReservation ==
  \A r \in taken : r.id \in DOMAIN reservations /\ r.revision <= reservations[r.id].revision

\* Equity shown is of the newest mark and rate heard, none older than the limit.
UpToDate(seen, latest) == seen.at = latest /\ available - latest <= MarkAge
EquityFresh ==
  Complete =>
    /\ exposure.lots # 0 => UpToDate(mark, newest.mark)
    /\ \A a \in Shown : balances[a]["BGB"] # 0 => UpToDate(rate, newest.rate)

\* Position, average, profit and fees are those of the fills in order, each
\* fact once under whichever of its names; the balances are the sum of the
\* facts, no equity is shown on an old mark, and the reservation of an order
\* is the newest that was heard (LedgerState).
LedgerExplained ==
  /\ LedgerTypeOK /\ BooksOfTheFills /\ BookedOnce /\ EquityExplained /\ EquityFresh
  /\ NewestReservation
=============================================================================
