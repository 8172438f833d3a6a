----------------------------- MODULE LiveRunner -----------------------------
(***************************************************************************)
(* The paper trading loop of the API process (strategies/live_runner.py):  *)
(* the feed's thread turns books into evaluations of the strategy engine   *)
(* and executes its intents; the threads of the API pause, halt, flatten   *)
(* and trigger beside it.  The runner's positions, the position the engine *)
(* believes it holds, the flags of the command inbox and runner_state.json *)
(* are four copies of one fact that no step updates together.              *)
(*                                                                         *)
(* One symbol, one engine and one contract per position; prices are in     *)
(* half ticks, so that the middle of a book is a whole number.  The        *)
(* engine's decisions are any it could take (AlphaPosition models which).  *)
(***************************************************************************)
EXTENDS Controls, Integers, Sequences, Lots

CONSTANTS Roster,      \* strategy ids in the order of the runner's table
          Diagnosed,   \* ids the operator triggers diagnostics for
          Bids,        \* bids of the book, in half ticks
          Capital,     \* initial_equity
          TakerFee,    \* the fee of a taker; makers pay none
          OneSided,    \* bids of the books that may lack a side
          MaxTrades,   \* bound of executions and flattenings
          MaxRestarts, \* bound of restarts of the process
          Absent       \* no price, position or file
Unified == CHOOSE s \in Strategies : TRUE
Owners == {Roster[k] : k \in 1 .. Len(Roster)}
Opposite(side) == IF side = "BUY" THEN "SELL" ELSE "BUY"
SignOf(side) == IF side = "BUY" THEN 1 ELSE -1
Sides == {"BUY", "SELL"}
Position == [side : Sides, entry : Nat, upnl : Int]
Held == [Owners -> Position \union {Absent}]
Saved == [positions : Held, realized : Int, cash : Int]

ASSUME LiveRunnerAssumption ==
  /\ Roster \in Seq(Owners) /\ \A i, j \in 1 .. Len(Roster) : Roster[i] = Roster[j] => i = j
  /\ Strategies # {} /\ Strategies \subseteq Owners /\ Diagnosed \subseteq Owners
  /\ Capital \in Nat /\ TakerFee \in Nat /\ OneSided \subseteq Bids /\ Bids \subseteq Nat \ {0}
  /\ Absent \notin Int \union Position

VARIABLES
  runnerFlags, \* emergency_halted and the RUNNING strategies
  lastBook,    \* the last book of the feed
  mid,         \* the feature "mid", which a one-sided book leaves as it was
  positions,   \* the runner's positions
  engine,      \* the side each unified engine believes it holds
  feed,        \* "idle", or evaluating the book after the checks of the flags
  realized,    \* realized_pnl
  cash,        \* signed cash of all fills reported
  peak,        \* session_peak_equity
  tripped,     \* circuit_breaker_tripped
  cooling,     \* owners within entry_cooldown_s of their last entry
  disk,        \* runner_state.json
  trades, restarts
runnerVars == <<runnerFlags, lastBook, mid, positions, engine, feed, realized, cash, peak,
                tripped, cooling, disk, trades, restarts>>
FeedBooks == {[bid |-> p, ask |-> p + 2] : p \in Bids}
               \union {[bid |-> p, ask |-> Absent] : p \in OneSided}
               \union {[bid |-> Absent, ask |-> p + 2] : p \in OneSided}
EmptyBook == [bid |-> Absent, ask |-> Absent]
MidPrices == {p + 1 : p \in Bids}

\* The sum of a number over the owners; what they hold, cost and earn.
Summed(of) == SumTo([k \in 1 .. Len(Roster) |-> of[Roster[k]]], Len(Roster))
Margins(ps) == [o \in Owners |-> IF ps[o] = Absent THEN 0 ELSE ps[o].entry]
EntryCosts(ps) == [o \in Owners |-> IF ps[o] = Absent THEN 0 ELSE SignOf(ps[o].side) * ps[o].entry]
Profits(ps) == [o \in Owners |-> IF ps[o] = Absent THEN 0 ELSE ps[o].upnl]
AccountEquity == Capital + realized + Summed(Profits(positions))

RunnerTypeOK ==
  /\ runnerFlags \in Flags
  /\ lastBook \in FeedBooks \union {EmptyBook} /\ mid \in MidPrices \union {Absent}
  /\ positions \in Held /\ disk \in Saved \union {Absent}
  /\ engine \in Sides \union {"NONE"}
  /\ feed \in {"idle", "eval"}
  /\ realized \in Int /\ cash \in Int /\ peak \in Int
  /\ tripped \in BOOLEAN /\ cooling \subseteq Owners
  /\ trades \in Nat /\ restarts \in Nat

Nothing == [o \in Owners |-> Absent]
RunnerInit ==
  /\ runnerFlags = Fresh /\ lastBook = EmptyBook /\ mid = Absent
  /\ positions = Nothing /\ engine = "NONE" /\ feed = "idle"
  /\ realized = 0 /\ cash = 0 /\ peak = Capital
  /\ tripped = FALSE /\ cooling = {}
  /\ disk = Absent /\ trades = 0 /\ restarts = 0

-----------------------------------------------------------------------------
\* _save_persistent_state writes what the step leaves behind.
Save == disk' = [positions |-> positions', realized |-> realized', cash |-> cash']

\* _update_symbol_mark
MarkUpdated(ps, m) ==
  [o \in Owners |-> IF ps[o] = Absent THEN Absent
                    ELSE [ps[o] EXCEPT !.upnl = SignOf(ps[o].side) * (m - ps[o].entry)]]

\* A maker's price: the best price of its own side; away from the mark by
\* more than two percent it is clamped to the mark.
Clamped(price) == IF mid # Absent /\ 50 * Larger(price - mid, mid - price) > mid THEN mid ELSE price
Fillable(side) == (IF side = "BUY" THEN lastBook.bid ELSE lastBook.ask) # Absent
FillPrice(side) == Clamped(IF side = "BUY" THEN lastBook.bid ELSE lastBook.ask)

BelowLimit == 100 * AccountEquity <= 97 * Larger(peak, AccountEquity)
Affordable(price) == price <= Larger(0, 3 * AccountEquity - Summed(Margins(positions)))
Refused(o, price) ==
  BelowLimit \/ tripped \/ positions[o] # Absent \/ o \in cooling \/ ~Affordable(price)

\* _execute_intent of an entry: every refusal returns before the order.
ExecuteEnter(o, side) ==
  LET price == FillPrice(side) IN
  IF ~Fillable(side)
  THEN UNCHANGED <<positions, realized, cash, peak, tripped, cooling, disk, trades>>
  ELSE /\ peak' = Larger(peak, AccountEquity)
       /\ tripped' = (tripped \/ BelowLimit)
       /\ IF Refused(o, price)
          THEN UNCHANGED <<positions, realized, cash, cooling, disk, trades>>
          ELSE /\ trades < MaxTrades /\ trades' = trades + 1
               /\ cooling' = cooling \union {o}
               /\ positions' = [positions EXCEPT ![o] = [side |-> side, entry |-> price, upnl |-> 0]]
               /\ cash' = cash - SignOf(side) * price
               /\ UNCHANGED realized
               /\ Save

GrossOfLong(pos, price) == price - pos.entry
\* What a closed position earns at a price, before fees.
Gross(pos, price) == SignOf(pos.side) * (price - pos.entry)
\* _execute_intent of an exit: the position is popped whatever its side.
ExecuteExit(o, side) ==
  IF ~Fillable(side) \/ positions[o] = Absent
  THEN UNCHANGED <<positions, realized, cash, disk, trades>>
  ELSE /\ trades < MaxTrades /\ trades' = trades + 1
       /\ positions' = [positions EXCEPT ![o] = Absent]
       /\ realized' = realized + Gross(positions[o], FillPrice(side))
       /\ cash' = cash - SignOf(side) * FillPrice(side)
       /\ Save

\* process_book_update up to its checks of the halt and of the strategy.
ProcessBookUpdate ==
  \E b \in FeedBooks :
    /\ feed = "idle"
    /\ lastBook' = b
    /\ mid' = IF b.bid = Absent \/ b.ask = Absent THEN mid ELSE (b.bid + b.ask) \div 2
    /\ positions' = IF mid' = Absent THEN positions ELSE MarkUpdated(positions, mid')
    /\ feed' = IF runnerFlags.halted \/ Unified \notin runnerFlags.run THEN "idle" ELSE "eval"
    /\ UNCHANGED <<runnerFlags, engine, realized, cash, peak, tripped, cooling, disk, trades, restarts>>

\* on_event of the engine, which records its decision as done, and the
\* execution of its intent.
OnEvent ==
  /\ feed = "eval" /\ feed' = "idle"
  /\ \/ /\ UNCHANGED <<engine, positions, realized, cash, peak, tripped, cooling, disk, trades>>
     \/ /\ mid # Absent /\ engine = "NONE"
        /\ \E side \in Sides : engine' = side /\ ExecuteEnter(Unified, side)
     \/ /\ mid # Absent /\ engine # "NONE"
        /\ engine' = "NONE" /\ ExecuteExit(Unified, Opposite(engine))
        /\ UNCHANGED <<peak, tripped, cooling>>
  /\ UNCHANGED <<runnerFlags, lastBook, mid, restarts>>

\* manual_trigger_signal: an exit of what is held, or an entry.
ManualTrigger ==
  \E o \in Diagnosed, side \in Sides :
    /\ IF positions[o] = Absent
       THEN ExecuteEnter(o, side) /\ UNCHANGED engine
       ELSE /\ ExecuteExit(o, Opposite(positions[o].side))
            /\ engine' = IF o = Unified /\ positions'[o] = Absent THEN "NONE" ELSE engine
            /\ UNCHANGED <<peak, tripped, cooling>>
    /\ UNCHANGED <<runnerFlags, lastBook, mid, feed, restarts>>

\* flatten_position("all"): at the other side's best price, else at its mark,
\* with a taker's fee; nothing is saved.
FlattenPrice(pos) ==
  LET best == IF pos.side = "BUY" THEN lastBook.bid ELSE lastBook.ask IN
  IF best # Absent THEN best ELSE pos.entry + SignOf(pos.side) * pos.upnl
FlattenResults ==
  [o \in Owners |-> IF positions[o] = Absent THEN 0
                    ELSE Gross(positions[o], FlattenPrice(positions[o])) - TakerFee]
FlattenCash ==
  [o \in Owners |-> IF positions[o] = Absent THEN 0
                    ELSE SignOf(positions[o].side) * FlattenPrice(positions[o]) - TakerFee]
FlattenAll ==
  /\ trades' = IF positions = Nothing THEN trades ELSE trades + 1
  /\ trades' <= MaxTrades
  /\ realized' = realized + Summed(FlattenResults)
  /\ cash' = cash + Summed(FlattenCash)
  /\ engine' = IF positions[Unified] = Absent THEN engine ELSE "NONE"
  /\ positions' = Nothing
FlattenPosition == FlattenAll /\ UNCHANGED <<runnerFlags, lastBook, mid, feed, peak, tripped, cooling, disk, restarts>>

\* emergency_stop_all
EmergencyStop ==
  /\ runnerFlags' = Halt(runnerFlags)
  /\ FlattenAll
  /\ UNCHANGED <<lastBook, mid, feed, peak, tripped, cooling, disk, restarts>>

\* pause_trading, toggle_strategy, resume_trading, RESET_RISK_LATCH
ChangeFlags ==
  /\ \/ runnerFlags' = PauseAll(runnerFlags) /\ UNCHANGED tripped
     \/ \E running \in BOOLEAN : runnerFlags' = Toggle(runnerFlags, Unified, running) /\ UNCHANGED tripped
     \/ runnerFlags' = ResumeAll(runnerFlags) /\ tripped' = FALSE
     \/ runnerFlags' = ResetLatch(runnerFlags) /\ UNCHANGED tripped
  /\ UNCHANGED <<lastBook, mid, positions, engine, feed, realized, cash, peak, cooling, disk, trades, restarts>>

\* update_capital_config of ARM_LIVE, with the capital there was.
ArmLive ==
  /\ peak' = Capital /\ tripped' = FALSE
  /\ UNCHANGED <<runnerFlags, lastBook, mid, positions, engine, feed, realized, cash, cooling, disk, trades, restarts>>

\* apply_ai_strategy with its default reset_capital: a new account, whose
\* fills start over, in the place of one that may hold positions.
ResetCapital ==
  /\ positions' = Nothing /\ engine' = "NONE" /\ cooling' = {}
  /\ realized' = 0 /\ cash' = 0 /\ peak' = Capital /\ tripped' = FALSE
  /\ Save
  /\ UNCHANGED <<runnerFlags, lastBook, mid, feed, trades, restarts>>

CooldownOver ==
  /\ cooling # {} /\ cooling' = {}
  /\ UNCHANGED <<runnerFlags, lastBook, mid, positions, engine, feed, realized, cash, peak, tripped, disk, trades, restarts>>

\* A new process: the file gives positions, results and fills back, or
\* nothing when it does not parse.
StartedWith(file) ==
  /\ runnerFlags' = Fresh /\ lastBook' = EmptyBook /\ mid' = Absent
  /\ engine' = "NONE" /\ feed' = "idle"
  /\ positions' = IF file = Absent THEN Nothing ELSE file.positions
  /\ realized' = IF file = Absent THEN 0 ELSE file.realized
  /\ cash' = IF file = Absent THEN 0 ELSE file.cash
  /\ peak' = Capital /\ tripped' = FALSE /\ cooling' = {}
  /\ restarts < MaxRestarts /\ restarts' = restarts + 1
  /\ UNCHANGED trades
Restart == StartedWith(disk) /\ UNCHANGED disk
\* The file is opened for writing, and so emptied, before it is written.
CrashWhileSaving == feed = "eval" /\ StartedWith(Absent) /\ disk' = Absent

RunnerNext ==
  \/ ProcessBookUpdate \/ OnEvent \/ ManualTrigger \/ FlattenPosition \/ EmergencyStop
  \/ ChangeFlags \/ ArmLive \/ ResetCapital \/ CooldownOver \/ Restart \/ CrashWhileSaving
RunnerSpec == RunnerInit /\ [][RunnerNext]_runnerVars

-----------------------------------------------------------------------------
Opens(o) == positions[o] = Absent /\ positions'[o] # Absent /\ restarts' = restarts

\* The runner holds no position for the engine that the engine does not manage
\* with its own stops: "Software ATR/trailing exits ... run in every mode".
ExitsManaged == positions[Unified] # Absent => engine = positions[Unified].side

\* What the runner reports as realized is what its fills add up to, and so it
\* is in the file.
FillsExplain(ps, result, fills) == result = fills + Summed(EntryCosts(ps))
FillsExplainPnl ==
  /\ FillsExplain(positions, realized, cash)
  /\ disk # Absent => FillsExplain(disk.positions, disk.realized, disk.cash)

\* Once the breaker tripped, nothing opens until the operator resumes or arms.
BreakerHolds == tripped => \A o \in Owners : ~Opens(o)

\* The margins of what is held never exceed what the account had when the last
\* of it was opened.
MarginCovered ==
  (\E o \in Owners : Opens(o)) => 3 * AccountEquity >= Summed(Margins(positions'))

\* The engine, which decides nothing before the first mid, can trade on both sides.
BookWhole == mid = Absent \/ Absent \notin {lastBook.bid, lastBook.ask}

\* Only a restart, a book that lacks a side or an entry that the engine did not
\* decide parts what the runner holds from what the engine manages.
StaysManaged ==
  /\ ExitsManaged /\ restarts' = restarts /\ BookWhole
  /\ Opens(Unified) => engine' # engine
  => ExitsManaged'

\* As long as they agree every position is closed on its other side, at the
\* price the fills show, whoever closes it; a restart takes up what was saved.
StaysExplained == FillsExplainPnl /\ ExitsManaged => FillsExplainPnl'

\* The copies of a position agree as far as the code keeps them, and nothing is
\* opened that the breaker or the equity forbids (LiveStrategyRunner).
RunnerExplained ==
  /\ []RunnerTypeOK
  /\ [][BreakerHolds /\ MarginCovered /\ StaysManaged /\ StaysExplained]_runnerVars

=============================================================================
