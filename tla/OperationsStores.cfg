SPECIFICATION SysSpec
CONSTANTS
  Parts = {"long engine", "timed engine", "journal", "launcher"}
  Procs = {a, b, c}
  MaxLosses = 1
  Reuse = FALSE
  None = None
  MaxAvail = 1
  Ranks = {10, 50}
  Sources = {0, 1}
  MaxEntries = 3
  NoSnapshot = NoSnapshot
  MaxTime = 3
  MaxBoots = 2
  MaxAdjustments = 2
  NoClock = NoClock
  Models = {m1, m2}
  Strategies = {"default"}
  Envs = {"DEMO", "LIVE"}
  Synthetic = {m2}
  Retrains = TRUE
  MaxHistory = 2
  NoModel = NoModel
  MaxFrames = 4
  MaxCrashes = 2
  ChunkTarget = 2
  Reducers = {2, 6, 9}
  Producers = {4, 6}
  Delay = 1
  MaxEvents = 4
  Plans <- Decided
  MaxInputs = 2
  MaxRaw = 2
  MaxDeaths = 2
  MaxCheckpoints = 1
  Counts = {9, 11}
  Gaps = {0, 1}
  Missing = 0
  Horizons = {1, 2}
  Uncertainties = {0, 1}
  Latency = 1
  Staleness = 1
  FoldCount = 3
INVARIANTS HistoryWhole
PROPERTIES ImplementsLog JournalKept OpenedIsOwned
CHECK_DEADLOCK FALSE
