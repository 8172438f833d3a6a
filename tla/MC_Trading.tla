----------------------------- MODULE MC_Trading -----------------------------
(***************************************************************************)
(* Small instances of the parts of a trading process for TLC: what decides *)
(* on orders, what recovers and books them, the runner and its operator,   *)
(* the feeds and the venues.  A behaviour lets one part move, chosen at    *)
(* the start, while the others rest where they begin; so one run checks    *)
(* several parts, and their states add up instead of multiplying.          *)
(*                                                                         *)
(* The gate, the session, the inbox, recovery, the latches, arbitration,   *)
(* protection, the margin, the ledger, the runner and the feed are         *)
(* extended and take their constants from the run; the other parts are     *)
(* instances, several of them on the same variables where the bounds       *)
(* differ.                                                                 *)
(***************************************************************************)
EXTENDS RiskGate, VenueSession, CommandInbox, Recovery, Emergency, Arbitration, Protection,
        Margin, Ledger, LiveRunner, BookFeed

CONSTANT Parts        \* the parts of a run

VARIABLE part         \* the part that moves
VARIABLES
  posPos, posHeld, posIdle, posCooldown, posLosses,
  rfxParams, rfxStrat, rfxTuning, rfxSpread,
  barOpen, barNext, barNow, barFinalized, barBars, barLate, barTold,
  simV, simTarget, simMarket, simPast

-----------------------------------------------------------------------------
(* Constants of the extended parts.  Amounts of the gate lie around every  *)
(* limit; -1 is a field that is None.                                      *)
FewEquities == {0, 92, 100}
FewBaselines == {0, 95, 110}
FewFlows == {-5, 0, 10}
FewPrices == {1, 3, 7}
FewStops == {-1, 0, 1, 2}
FewPendings == {0, 13, 40}
DeepBook == {-1, 8}
FewWants == {-1, 3, 100}
FewBudgets == {-1, 7}

KillAndResume == {[kind |-> k, strategy |-> "unified"] : k \in {"KILL", "RESUME"}}

\* One order of the account, which buys a lot, or one that sells it again too.
OneBuy == [o1 |-> 1]
BuyAndSell == [o1 |-> 1, o2 |-> -1]
-----------------------------------------------------------------------------
(* What decides on orders.                                                 *)

Asks(strategy, action, side, qty, policy) ==
  [strategy |-> strategy, action |-> action, side |-> side, qty |-> qty,
   policy |-> policy, expired |-> FALSE]

\* Entries of two strategies and an exit of one; -1 is None, and -2 is no whole number.
Contending ==
  {Asks(1, "ENTER", 1, 1, 1), Asks(2, "ENTER", 1, 1, 1), Asks(1, "EXIT", -1, -1, 1)}

\* Entries with different policies and sizes.
Entering ==
  {Asks(1, "ENTER", 1, 2, 1), Asks(1, "ENTER", -1, 1, 1), Asks(2, "ENTER", 1, 1, 1),
   Asks(1, "ENTER", 1, 1, 2), Asks(1, "ENTER", 1, -1, 1),
   Asks(1, "ENTER", 1, -2, 1), Asks(2, "CANCEL_ENTRY", 1, -1, 1),
   Asks(2, "EXIT", -1, -2, 1), Asks(1, "EXIT", 1, 1, 1),
   [Asks(1, "ENTER", 1, 1, 1) EXCEPT !.expired = TRUE]}

Asking == Contending \union Entering

\* A buying entry and a selling one.
OneEachWay == [g1 |-> 1, g2 |-> -1]

-----------------------------------------------------------------------------
(* What books them.                                                        *)

FactOf(kind, native, aliases, asset, amount) ==
  [kind |-> kind, native |-> native, aliases |-> aliases, asset |-> asset, amount |-> amount,
   side |-> 0, lots |-> 0, price |-> 0, of |-> Nil, trading |-> FALSE]
Executed(native, aliases, side, lots, price, asset, fee) ==
  [FactOf("execution", native, aliases, asset, fee) EXCEPT !.side = side, !.lots = lots, !.price = price]

\* Fills that open, add, close in part, reverse and close again; prices divide
\* by every number of lots that can be averaged over.
FillFacts ==
  { Executed("a", {}, 1, 2, 108000, "USDT", 1), Executed("a", {"x"}, 1, 2, 108000, "USDT", 1),
    Executed("x", {}, 1, 2, 108000, "USDT", 1), Executed("x", {}, 1, 2, 108000, "USDT", 2),
    Executed("b", {}, 1, 1, 172800, "USDT", 1), Executed("c", {}, -1, 4, 129600, "USDT", 1),
    Executed("d", {}, -1, 1, 151200, "USDT", -1), Executed("e", {}, -1, 1, 86400, "USDT", 0) }

\* Cash of every kind, in both assets.
CashFacts ==
  { Executed("a", {"x"}, 1, 2, 108000, "USDT", 1), Executed("d", {}, -1, 1, 151200, "BGB", 3),
    FactOf("transfer", "a", {}, "USDT", 100), FactOf("funding", "f", {}, "USDT", -4),
    [FactOf("fee_adjustment", "k", {}, "USDT", 2) EXCEPT !.of = "x"],
    [FactOf("fee_adjustment", "m", {}, "USDT", 1) EXCEPT !.of = "d"],
    [FactOf("adjustment", "s", {}, "USDT", 7) EXCEPT !.trading = TRUE],
    FactOf("adjustment", "t", {}, "USDT", 9) }

ReserveFacts == {Executed("a", {}, 1, 2, 108000, "USDT", 1), Executed("d", {}, -1, 1, 151200, "USDT", 1)}

AllFacts == FillFacts \union CashFacts \union ReserveFacts

EntryOf(id, lots, unresolved, revision) ==
  [id |-> id, side |-> 1, lots |-> lots, unresolved |-> unresolved, closing |-> FALSE, revision |-> revision]
CloseOf(id, lots, unresolved, revision) ==
  [id |-> id, side |-> -1, lots |-> lots, unresolved |-> unresolved, closing |-> TRUE, revision |-> revision]
Reserving ==
  { EntryOf("r", 2, 0, 1), EntryOf("r", 2, 1, 2), EntryOf("r", 0, 0, 3),
    CloseOf("s", 1, 0, 1), CloseOf("s", 2, 0, 2), CloseOf("s", 2, 1, 3), CloseOf("u", 1, 0, 1), CloseOf("u", 0, 0, 2) }
RevisedTogether == {{r} : r \in Reserving} \union
  {{EntryOf("r", 2, 1, 2), CloseOf("s", 2, 0, 2)}, {CloseOf("s", 2, 1, 3), CloseOf("u", 1, 0, 1)}}

\* The deduction makes the maintenance of neighbouring tiers meet at the cap.
TwoTiers == <<[cap |-> 9, rate |-> 5, deduction |-> 0], [cap |-> 15, rate |-> 10, deduction |-> 0]>>
-----------------------------------------------------------------------------
(* The operator and the strategies.                                        *)

\* Mids on both sides of every threshold in basis points (35, 45 and 8, 10,
\* 12, 15 of the code).
AlphaMids == {9950, 9984, 10000, 10016, 10040}

\* One engine, and a strategy for diagnostics.
UnifiedAndLegacy == <<"unified", "legacy">>

\* The parameters of the ETH leg, and what an operator applies to it.
Leg == [atr |-> 400, wait |-> 90, threshold |-> 40, maker |-> TRUE, shock |-> FALSE]
Applied == {[atr |-> 300, wait |-> 120, maker |-> FALSE], [atr |-> 425, wait |-> 175, maker |-> TRUE]}
-----------------------------------------------------------------------------
(* The simulated venue: two orders at prices 1 to 3, and books of one or   *)
(* two levels a side.                                                      *)

Instruct(buy, lots, limit, policy, tif) ==
  [buy |-> buy, lots |-> lots, limit |-> limit, policy |-> policy, tif |-> tif]
BookShown(bids, asks) == [bids |-> bids, asks |-> asks]

\* A resting buy and a sell that takes, or two buys that take.
Resting == [o1 |-> Instruct(TRUE, 2, 1, "POST_ONLY", "GTC"), o2 |-> Instruct(FALSE, 3, 0, "MARKET", "GTC")]
Taking  == [o1 |-> Instruct(TRUE, 3, 3, "LIMIT", "GTC"), o2 |-> Instruct(TRUE, 2, 2, "LIMIT", "IOC")]
OneLevel  == {BookShown(<<<<1, 1>>>>, <<<<2, 2>>>>), BookShown(<<<<2, 2>>>>, <<<<3, 1>>>>)}
TwoLevels == {BookShown(<<<<2, 1>>, <<1, 2>>>>, <<<<3, 2>>>>), BookShown(<<<<1, 1>>>>, <<<<2, 1>>, <<3, 2>>>>)}
-----------------------------------------------------------------------------
(* The parts that are instances.                                           *)

\* Two strategies and the arbitrator: entries against an exit, or entries
\* that are netted.
Contended == INSTANCE Arbitration WITH IntentBodies <- Contending
Combined == INSTANCE Arbitration WITH IntentBodies <- Entering, MaxIntents <- 2

\* The stops of positions: of a buying and a selling entry, of two buying
\* ones whose executions cannot cancel out, or of one as time passes.
OpposedStops == INSTANCE Protection WITH MaxExec <- 2, MaxTicks <- 0
AlikeStops == INSTANCE Protection WITH
  Side <- [g1 |-> 1, g2 |-> 1], Supported <- {}, MaxTicks <- 0, MaxStop <- 0
FailingStops == INSTANCE Protection WITH
  UnseenLots <- {0}, MaxExec <- 2, MaxTicks <- 2, MaxStop <- 1

\* Recovery from an opening baseline beside a stranger.
Begun == INSTANCE Recovery WITH
  Orders <- {"o1"}, KnownOrders <- {}, Rows <- {"x"}, Delta <- [o1 |-> 1], Fee <- 1,
  FirstWallet <- 5, Opening <- TRUE, Skew <- 1, Overlap <- 1, Timeout <- 3, Capacity <- 3,
  MaxClock <- 2, MaxRuns <- 2, MaxCrash <- 1

\* The ledger: fills, cash, or reservations.
FillsLedger == INSTANCE Ledger WITH Facts <- FillFacts, Batches <- {}, Rates <- {}, MaxNow <- 0
CashLedger == INSTANCE Ledger WITH Facts <- CashFacts, Batches <- {}, Prices <- {108000}
ReservesLedger == INSTANCE Ledger WITH Facts <- ReserveFacts, Prices <- {}, Rates <- {}, MaxNow <- 0

\* The live runner with books of two sides, no restart and more trades.
WholeBooksRunner == INSTANCE LiveRunner WITH OneSided <- {}, MaxTrades <- 3, MaxRestarts <- 0

\* A position of the alpha engine, and the tuner of one leg.
Alpha == INSTANCE AlphaPosition WITH
  pos <- posPos, held <- posHeld, idle <- posIdle, cooldown <- posCooldown,
  losses <- posLosses, Mids <- AlphaMids, Trails <- {0, 10014}, Depths <- {-45, 0, 45},
  Atrs <- {5, 40}, Elapses <- {4, 17}
Tuner == INSTANCE Reflex WITH
  params <- rfxParams, strat <- rfxStrat, tuning <- rfxTuning, spread <- rfxSpread,
  Baseline <- Leg, LeastWait <- 90, AuditAtr <- <<350, 500>>, AuditThreshold <- <<35, 55>>,
  Configs <- Applied, Spreads <- {10, 20, 30}

\* A book whose numbers have no gap and begin anew with each connection.
NumberedFeed == INSTANCE BookFeed WITH
  Contract <- "contiguous", NamesPrior <- FALSE, Restarts <- TRUE

\* Bars of two time units.
TwoUnitBars == INSTANCE Bars WITH
  open <- barOpen, next <- barNext, now <- barNow, finalized <- barFinalized,
  bars <- barBars, late <- barLate, told <- barTold, Interval <- 2, Lateness <- 1,
  MaxOpen <- 2, Page <- 2, Horizon <- 9, MaxTrades <- 3, None <- Nil

\* The simulated venue: a resting order, or two that take from one book.
RestingVenue == INSTANCE SimVenue WITH
  v <- simV, target <- simTarget, market <- simMarket, past <- simPast,
  Orders <- {"o1", "o2"}, Price <- 1 .. 3, Books <- OneLevel, Instruction <- Resting,
  Latency <- [submit |-> 1, cancel |-> 1, ack |-> 1, report |-> 2], Collateral <- 100,
  RateDiv <- 10, TradeLots <- {2}, FundingSigns <- {1}, EndModes <- {TRUE, FALSE},
  MaxTime <- 3, MaxMarket <- 3
TakingVenue == INSTANCE SimVenue WITH
  v <- simV, target <- simTarget, market <- simMarket, past <- simPast,
  Orders <- {"o1", "o2"}, Price <- 1 .. 3, Books <- TwoLevels, Instruction <- Taking,
  Latency <- [submit |-> 1, cancel |-> 1, ack |-> 1, report |-> 2], Collateral <- 8,
  RateDiv <- 10, TradeLots <- {1}, FundingSigns <- {1}, EndModes <- {TRUE, FALSE},
  MaxTime <- 3, MaxMarket <- 2

ASSUME TradingAssumption ==
  /\ Contended!ArbitrationAssumption /\ Combined!ArbitrationAssumption
  /\ OpposedStops!ProtectionAssumption /\ AlikeStops!ProtectionAssumption
  /\ FailingStops!ProtectionAssumption
  /\ Begun!RecoveryAssumption
  /\ FillsLedger!LedgerAssumption /\ CashLedger!LedgerAssumption /\ ReservesLedger!LedgerAssumption
  /\ TiersMeet
  /\ WholeBooksRunner!LiveRunnerAssumption
  /\ Alpha!Inputs /\ Tuner!Ranges
  /\ NumberedFeed!BookFeedAssumption
  /\ TwoUnitBars!Positive
  /\ RestingVenue!VenueAssumption /\ TakingVenue!VenueAssumption
-----------------------------------------------------------------------------
(* Behaviours.                                                             *)

posVars ==
  <<posPos, posHeld, posIdle, posCooldown, posLosses>>
rfxVars ==
  <<rfxParams, rfxStrat, rfxTuning, rfxSpread>>
barVars ==
  <<barOpen, barNext, barNow, barFinalized, barBars, barLate, barTold>>
simVars ==
  <<simV, simTarget, simMarket, simPast>>

sysVars ==
  <<part, vars, sessionVars, inboxVars, recoveryVars, emergencyVars,
    arbitrationVars, protectionVars, marginVars, ledgerVars, runnerVars, posVars, rfxVars, bookFeedVars,
    barVars, simVars>>

Stopping == {"opposed stops", "alike stops", "failing stops"}

SysInit ==
  /\ part \in Parts
  /\ SessionInit
  /\ InboxInit
  /\ IF part = "begun" THEN Begun!RecoveryInit
       ELSE RecoveryInit /\ (part # "recovery" => ahead = Skew)
  /\ EmergencyInit /\ (part # "latches" => position = 0 /\ working = 0)
  /\ ArbitrationInit
  /\ IF part = "failing stops" THEN FailingStops!ProtectionInit
       ELSE ProtectionInit /\ (part \notin Stopping => openingLots = 0)
  /\ LedgerInit
  /\ RunnerInit
  /\ Alpha!Init
  /\ Tuner!Init /\ (part # "tuner" => rfxSpread = 10)
  /\ BookFeedInit
  /\ part \notin {"naming feed", "numbered feed"} => truth[1] = [bids |-> {1}, asks |-> {2}]
  /\ TwoUnitBars!Init
  /\ RestingVenue!Init
  /\ IF part = "gate" THEN Init ELSE decision = None /\ ctx = CHOOSE c \in Context : TRUE
  /\ IF part = "margin" THEN MarginInit ELSE holding = 0 /\ pending = <<>> /\ asked = Estimate

\* Everything but the group of variables mine.
Rests(mine) ==
  /\ UNCHANGED part
  /\ mine # "vars" => UNCHANGED vars
  /\ mine # "sessionVars" => UNCHANGED sessionVars
  /\ mine # "inboxVars" => UNCHANGED inboxVars
  /\ mine # "recoveryVars" => UNCHANGED recoveryVars
  /\ mine # "emergencyVars" => UNCHANGED emergencyVars
  /\ mine # "arbitrationVars" => UNCHANGED arbitrationVars
  /\ mine # "protectionVars" => UNCHANGED protectionVars
  /\ mine # "ledgerVars" => UNCHANGED ledgerVars
  /\ mine # "marginVars" => UNCHANGED marginVars
  /\ mine # "runnerVars" => UNCHANGED runnerVars
  /\ mine # "posVars" => UNCHANGED posVars
  /\ mine # "rfxVars" => UNCHANGED rfxVars
  /\ mine # "bookFeedVars" => UNCHANGED bookFeedVars
  /\ mine # "barVars" => UNCHANGED barVars
  /\ mine # "simVars" => UNCHANGED simVars

SysNext ==
  \/ part = "gate" /\ Next /\ Rests("vars")
  \/ part = "session" /\ SessionNext /\ Rests("sessionVars")
  \/ part = "inbox" /\ InboxNext /\ Rests("inboxVars")
  \/ part = "recovery" /\ RecoveryNext /\ Rests("recoveryVars")
  \/ part = "begun" /\ Begun!RecoveryNext /\ Rests("recoveryVars")
  \/ part = "latches" /\ EmergencyNext /\ Rests("emergencyVars")
  \/ part = "contended" /\ Contended!ArbitrationNext /\ Rests("arbitrationVars")
  \/ part = "netted" /\ Combined!ArbitrationNext /\ Rests("arbitrationVars")
  \/ part = "opposed stops" /\ OpposedStops!ProtectionNext /\ Rests("protectionVars")
  \/ part = "alike stops" /\ AlikeStops!ProtectionNext /\ Rests("protectionVars")
  \/ part = "failing stops" /\ FailingStops!ProtectionNext /\ Rests("protectionVars")
  \/ part = "fills" /\ FillsLedger!LedgerNext /\ Rests("ledgerVars")
  \/ part = "cash" /\ CashLedger!LedgerNext /\ Rests("ledgerVars")
  \/ part = "reserves" /\ ReservesLedger!LedgerNext /\ Rests("ledgerVars")
  \/ part = "margin" /\ MarginNext /\ Rests("marginVars")
  \/ part = "runner" /\ RunnerNext /\ Rests("runnerVars")
  \/ part = "whole books" /\ WholeBooksRunner!RunnerNext /\ Rests("runnerVars")
  \/ part = "alpha" /\ Alpha!Next /\ Rests("posVars")
  \/ part = "tuner" /\ Tuner!Next /\ Rests("rfxVars")
  \/ part = "naming feed" /\ BookFeedNext /\ Rests("bookFeedVars")
  \/ part = "numbered feed" /\ NumberedFeed!BookFeedNext /\ Rests("bookFeedVars")
  \/ part = "bars" /\ TwoUnitBars!Next /\ Rests("barVars")
  \/ part = "resting venue" /\ RestingVenue!Next /\ Rests("simVars")
  \/ part = "taking venue" /\ TakingVenue!Next /\ Rests("simVars")

SysSpec == SysInit /\ [][SysNext]_sysVars
-----------------------------------------------------------------------------
(* The properties of the instances.  Those of the extended parts are       *)
(* checked as they are.                                                    *)

\* A stop only tightens, keeps a gain it locked, and no position is held past
\* the cap (evaluate); the scalper trades with the parameters of its leg, which
\* stay within their ranges, and a shock holds until the spread came down
\* (process_book_update).
StrategiesHold ==
  /\ [](part = "alpha" => Alpha!TypeOK /\ Alpha!GainStaysLocked /\ Alpha!HoldIsCapped)
  /\ [](part = "tuner" => Tuner!TypeOK /\ Tuner!ScalperFollows /\ Tuner!StaysTuned)
  /\ Alpha!StopNeverLoosens
  /\ Tuner!ShockHolds

\* Every trade is in one bar, that of its interval, or late because its bar was
\* closed (BarBuilder).  Every lot of an order is filled, resting, canceled or
\* under way, the position is the sum of the fills, a resting order fills only
\* past its place in the queue, and what a book displays is taken once (SimVenue).
TradesAccounted ==
  /\ part = "bars" =>
       /\ TwoUnitBars!TypeOK /\ TwoUnitBars!EveryTradeOnce
       /\ TwoUnitBars!BarIsItsInterval /\ TwoUnitBars!LateIsLate
  /\ part = "resting venue" =>
       /\ RestingVenue!TypeOK /\ RestingVenue!LotsAccounted /\ RestingVenue!PositionIsFills
       /\ RestingVenue!PassiveEarned /\ RestingVenue!BudgetOnce
  /\ part = "taking venue" =>
       /\ TakingVenue!TypeOK /\ TakingVenue!LotsAccounted /\ TakingVenue!PositionIsFills
       /\ TakingVenue!PassiveEarned /\ TakingVenue!BudgetOnce

=============================================================================
