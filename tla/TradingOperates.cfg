SPECIFICATION SysSpec
CONSTANTS
  Parts = {"inbox", "runner", "whole books", "alpha", "tuner"}
  Nil = Nil
  Ticks = {1, 2, 3}
  Contract = "monotonic"
  NamesPrior = TRUE
  Restarts = FALSE
  LastVersion = 3
  MaxSyncs = 2
  NoCommand = NoCommand
  PerTrade = 50
  DailyLoss = 100
  Drawdown = 200
  MaxGross = 500
  MaxSymbol = 300
  MaxDepth = 500
  MaxOrderUsdt = 24
  MaxTotalUsdt = 45
  MaxLossUsdt = 9
  MinLots = 2
  MaxLots = 9
  MinNotional = 7
  Equities <- FewEquities
  Baselines <- FewBaselines
  Flows <- FewFlows
  EntryPrices <- FewPrices
  Stops <- FewStops
  Costs = {0, 1}
  Pendings <- FewPendings
  Depths <- DeepBook
  Wants <- FewWants
  Budgets <- FewBudgets
  Limit = 2
  Window = 2
  ReceiveWindow = 1
  MaxSeconds = 3
  MaxSocket = 3
  MaxEpoch = 2
  Strategies = {"unified"}
  Threads = {"t1", "t2"}
  CommandIds = {"i1"}
  Bodies <- KillAndResume
  Tokens = {"k1"}
  MaxApiCrashes = 1
  MaxEffects = 3
  Orders = {"o1"}
  KnownOrders = {"o1"}
  Rows = {}
  Delta <- OneBuy
  Fee = 0
  FirstWallet = 5
  Opening = FALSE
  Skew = 2
  Overlap = 2
  Timeout = 2
  Capacity = 3
  MaxClock = 4
  MaxRuns = 2
  MaxCrash = 1
  HeldLots = 3
  EntryLots = 1
  LeastLots = 2
  FirstEquity = 9
  MaxMoves = 1
  LossLimit = 2
  IntentBodies <- Asking
  MaxIntents = 3
  MaxBatch = 2
  MaxRisk = 1
  Group = {"g1", "g2"}
  Side <- OneEachWay
  UnseenLots = {0, 1}
  Budget = 2
  Supported = {TRUE}
  MaxExec = 3
  MaxTicks = 3
  MaxStop = 2
  MaxHeld = 2
  MaxSize = 3
  MaxPending = 2
  Leverage = 2
  MarkNow = 3
  Tiers <- TwoTiers
  FeeBuffer = 1
  Facts <- AllFacts
  OrderStates <- Reserving
  Batches <- RevisedTogether
  Prices = {108000, 144000}
  Rates = {2}
  MarkAge = 0
  MaxNow = 1
  Roster <- UnifiedAndLegacy
  Diagnosed = {"unified", "legacy"}
  Bids = {100, 106}
  Capital = 68
  TakerFee = 1
  OneSided = {100}
  MaxTrades = 2
  MaxRestarts = 1
  Absent = Absent
  Missing = Nil
PROPERTIES ThreadsAgree  StrategiesHold
CHECK_DEADLOCK FALSE
