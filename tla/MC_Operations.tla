--------------------------- MODULE MC_Operations ----------------------------
(***************************************************************************)
(* Small instances of the parts around trading for TLC: the engine and its *)
(* stores, clocks, research and training, and the launcher.  A behaviour   *)
(* lets one part move, chosen at the start, while the others rest where    *)
(* they begin; so one run checks several parts, and their states add up    *)
(* instead of multiplying.                                                 *)
(*                                                                         *)
(* The launcher, the scheduler, the clock, the registry, the journal, the   *)
(* engine and the folds are extended and take their constants from the     *)
(* run; the other parts are instances, several on the same variables where *)
(* the bounds differ.                                                      *)
(***************************************************************************)
EXTENDS Supervisor, Clock, Registry, RawJournal, EngineStore, WalkForward

CONSTANT Parts     \* the parts of a run

VARIABLE part         \* the part that moves
VARIABLES
  cfManifest, cfTodo, cfSt, cfLog,
  bakAccount, bakMaking, bakBundles, bakSynced, bakPromised, bakTouched, bakWritten,
  bakRestoring, bakRestored, bakBooted, bakFaults,
  dataFrames, dataSynced, dataEvents, dataJob, dataStep, dataReport, dataArtifacts,
  dataManifests, dataPromised, dataDamaged,
  jobJobs, jobRows, jobSaving, jobAlive, jobWorks, jobUp, jobCrashes,
  btVenue, btTrace, btCash, btFunding, btCurve, btSteps, btEnded,
  drSeen, drTotal, drMissing, drJobs, drSignal, drPresent, drDrifts, drDay, drUpdates

-----------------------------------------------------------------------------
(* Datasets: uploads of rows [start, bar], where None does not parse.      *)

RowSet == [start : {0, 1}, bar : {1, 2}] \union {[start |-> 0, bar |-> None]}
UploadsToThree == UNION {[1 .. n -> RowSet] : n \in 0 .. 3}
\* Two uploads that hold the same bars.
SameBars == {<<[start |-> 0, bar |-> 1]>>, <<[start |-> 0, bar |-> 1], [start |-> 0, bar |-> 1]>>}
\* Mappings that differ in the label alone make two manifests of one artifact.
Mapping(source) == [delay |-> 0, source |-> source]
-----------------------------------------------------------------------------
(* The parts that are instances.                                           *)

\* What producers decide: a request for a timer on the first fact, or two
\* facts on the second.
Decided == [Producers -> {<<>>, <<<<"Arm">>>>, <<<<>>, <<"Disarm", "Arm">>>>}]

\* An engine with timers across a restart.
TimedEngine == INSTANCE EngineStore WITH
  Producers <- {4}, Plans <- [{4} -> {<<>>, <<<<"Arm">>>>}], MaxEvents <- 2, MaxInputs <- 3,
  MaxRaw <- 1, MaxDeaths <- 1

\* A branch of a recorded run.
Branch == INSTANCE Counterfactual WITH
  manifest <- cfManifest, todo <- cfTodo, st <- cfSt, log <- cfLog, Reducers <- {2, 6},
  Producers <- {4}, Delay <- 1, MaxEvents <- 4, Gaps <- {0, 1, 2}, MaxInputs <- 3,
  MaxCycles <- 6

\* Backups in the clear, or encrypted ones of private data.
ClearBackup == INSTANCE Backup WITH
  account <- bakAccount, making <- bakMaking, bundles <- bakBundles, synced <- bakSynced,
  promised <- bakPromised, touched <- bakTouched, written <- bakWritten,
  restoring <- bakRestoring, restored <- bakRestored, booted <- bakBooted,
  faults <- bakFaults, Names <- {"n1", "n2"}, Dests <- {"d1"}, Keys <- {}, MaxEvents <- 2,
  MaxFrames <- 1, Privacies <- {FALSE}, MaxFaults <- 1, Lossy <- TRUE, Modes <- {}
PrivateBackup == INSTANCE Backup WITH
  account <- bakAccount, making <- bakMaking, bundles <- bakBundles, synced <- bakSynced,
  promised <- bakPromised, touched <- bakTouched, written <- bakWritten,
  restoring <- bakRestoring, restored <- bakRestored, booted <- bakBooted,
  faults <- bakFaults, Names <- {"n1"}, Dests <- {"d1"}, Keys <- {"key"}, MaxEvents <- 2,
  MaxFrames <- 1, Privacies <- {FALSE, TRUE}, MaxFaults <- 1, Lossy <- FALSE,
  Modes <- {"RECOVERY"}

\* Imported bars, publishers that race and stop, or exports.
Uploading == INSTANCE Datasets WITH
  frames <- dataFrames, synced <- dataSynced, events <- dataEvents, job <- dataJob,
  step <- dataStep, report <- dataReport, artifacts <- dataArtifacts,
  manifests <- dataManifests, promised <- dataPromised, damaged <- dataDamaged,
  Publishers <- {"p1"}, Uploads <- UploadsToThree, Mappings <- {Mapping("a")}, Bad <- None,
  Receipts <- {}, MaxFrames <- 0, EventKinds <- {}, Hours <- {}, MaxEvents <- 0,
  Damages <- 0, MayStop <- FALSE, MaxPromised <- 1, NewDirectory <- TRUE
Racing == INSTANCE Datasets WITH
  frames <- dataFrames, synced <- dataSynced, events <- dataEvents, job <- dataJob,
  step <- dataStep, report <- dataReport, artifacts <- dataArtifacts,
  manifests <- dataManifests, promised <- dataPromised, damaged <- dataDamaged,
  Publishers <- {"p1", "p2"}, Uploads <- SameBars, Mappings <- {Mapping("a"), Mapping("b")},
  Bad <- None, Receipts <- {}, MaxFrames <- 0, EventKinds <- {}, Hours <- {},
  MaxEvents <- 0, Damages <- 1, MayStop <- TRUE, MaxPromised <- 2, NewDirectory <- FALSE
Exporting == INSTANCE Datasets WITH
  frames <- dataFrames, synced <- dataSynced, events <- dataEvents, job <- dataJob,
  step <- dataStep, report <- dataReport, artifacts <- dataArtifacts,
  manifests <- dataManifests, promised <- dataPromised, damaged <- dataDamaged,
  Publishers <- {"p1"}, Uploads <- {}, Mappings <- {}, Bad <- None, Receipts <- {1, 2},
  MaxFrames <- 1, EventKinds <- {"k1", "k2"}, Hours <- {1, 2}, MaxEvents <- 2, Damages <- 0,
  MayStop <- TRUE, MaxPromised <- 1, NewDirectory <- FALSE

\* Two research jobs.
Jobs == INSTANCE ResearchJobs WITH
  jobs <- jobJobs, rows <- jobRows, saving <- jobSaving, alive <- jobAlive,
  works <- jobWorks, up <- jobUp, crashes <- jobCrashes, Ids <- {"j1", "j2"},
  Pids <- {"p1"}, MaxCrashes <- 1

\* Labels where decisions are few and quotes are missing.
Labels == INSTANCE WalkForward WITH
  Counts <- {4, 5}, Gaps <- {0, 1, 2}, Missing <- 3, Horizons <- {1, 2, 3},
  Uncertainties <- {0}, FoldCount <- 1

\* A backtest that is not liquidated.
Flat == INSTANCE Backtest WITH
  venue <- btVenue, trace <- btTrace, cash <- btCash, funding <- btFunding,
  curve <- btCurve, steps <- btSteps, ended <- btEnded, Prices <- {48, 96}, Lots <- {1, 2},
  Delay <- 1, Liquidates <- FALSE, ForcedCloses <- {FALSE}, Fundings <- {0, 1},
  MaxEvents <- 5

\* The drift monitor.
Monitor == INSTANCE Drift WITH
  seen <- drSeen, total <- drTotal, missing <- drMissing, jobs <- drJobs,
  signal <- drSignal, present <- drPresent, drifts <- drDrifts, day <- drDay,
  updates <- drUpdates, Features <- <<"f1", "f2">>, Window <- 2, Strategies <- {"s1", "s2"},
  Days <- 2, MaxUpdates <- 4

ASSUME OperationsAssumption ==
  /\ TimedEngine!CycleAssumption /\ TimedEngine!EngineAssumption /\ Branch!CycleAssumption
  /\ Jobs!Apart
  /\ Labels!WalkForwardAssumption
  /\ Flat!BacktestAssumption
  /\ Monitor!DriftAssumption
-----------------------------------------------------------------------------
(* Behaviours.                                                             *)

cfVars ==
  <<cfManifest, cfTodo, cfSt, cfLog>>
bakVars ==
  <<bakAccount, bakMaking, bakBundles, bakSynced, bakPromised, bakTouched, bakWritten,
    bakRestoring, bakRestored, bakBooted, bakFaults>>
dataVars ==
  <<dataFrames, dataSynced, dataEvents, dataJob, dataStep, dataReport, dataArtifacts,
    dataManifests, dataPromised, dataDamaged>>
jobVars ==
  <<jobJobs, jobRows, jobSaving, jobAlive, jobWorks, jobUp, jobCrashes>>
btVars ==
  <<btVenue, btTrace, btCash, btFunding, btCurve, btSteps, btEnded>>
drVars ==
  <<drSeen, drTotal, drMissing, drJobs, drSignal, drPresent, drDrifts, drDay, drUpdates>>

sysVars ==
  <<part, vars, schedulerVars, clockVars, registryVars, journalVars, engineVars, cfVars, bakVars,
    dataVars, jobVars, walkForwardVars, btVars, drVars>>

SysInit ==
  /\ part \in Parts
  /\ Init
  /\ SchedulerInit
  /\ ClockInit
  /\ RegistryInit
  /\ JournalInit
  /\ EngineInit
  /\ Branch!Init /\ (part # "branch" => cfManifest = <<Branch!Recorded("Wake", 0)>>)
  /\ IF part = "private backup" THEN PrivateBackup!Init ELSE ClearBackup!Init
  /\ IF part = "racing" THEN Racing!Init ELSE Uploading!Init
  /\ Jobs!Init
  /\ CASE part = "labels" -> Labels!WalkForwardInit
       [] part = "folds" -> WalkForwardInit
       [] OTHER -> /\ times = <<>> /\ quotes = {} /\ spec = [horizon |-> 1, uncertainty |-> 0]
                   /\ rows = <<>> /\ folds = <<>> /\ model = Unfitted
  /\ Flat!Init
  /\ Monitor!Init

\* Everything but the group of variables mine.
Rests(mine) ==
  /\ UNCHANGED part
  /\ mine # "vars" => UNCHANGED vars
  /\ mine # "schedulerVars" => UNCHANGED schedulerVars
  /\ mine # "clockVars" => UNCHANGED clockVars
  /\ mine # "registryVars" => UNCHANGED registryVars
  /\ mine # "journalVars" => UNCHANGED journalVars
  /\ mine # "engineVars" => UNCHANGED engineVars
  /\ mine # "cfVars" => UNCHANGED cfVars
  /\ mine # "bakVars" => UNCHANGED bakVars
  /\ mine # "dataVars" => UNCHANGED dataVars
  /\ mine # "jobVars" => UNCHANGED jobVars
  /\ mine # "walkForwardVars" => UNCHANGED walkForwardVars
  /\ mine # "btVars" => UNCHANGED btVars
  /\ mine # "drVars" => UNCHANGED drVars

SysNext ==
  \/ part = "launcher" /\ Next /\ Rests("vars")
  \/ part = "scheduler" /\ SchedulerNext /\ Rests("schedulerVars")
  \/ part = "clock" /\ ClockNext /\ Rests("clockVars")
  \/ part = "registry" /\ RegistryNext /\ Rests("registryVars")
  \/ part = "journal" /\ JournalNext /\ Rests("journalVars")
  \/ part = "long engine" /\ EngineNext /\ Rests("engineVars")
  \/ part = "timed engine" /\ TimedEngine!EngineNext /\ Rests("engineVars")
  \/ part = "branch" /\ Branch!Next /\ Rests("cfVars")
  \/ part = "clear backup" /\ ClearBackup!Next /\ Rests("bakVars")
  \/ part = "private backup" /\ PrivateBackup!Next /\ Rests("bakVars")
  \/ part = "uploads" /\ Uploading!Next /\ Rests("dataVars")
  \/ part = "racing" /\ Racing!Next /\ Rests("dataVars")
  \/ part = "exports" /\ Exporting!Next /\ Rests("dataVars")
  \/ part = "jobs" /\ Jobs!Next /\ Rests("jobVars")
  \/ part = "labels" /\ Labels!WalkForwardNext /\ Rests("walkForwardVars")
  \/ part = "folds" /\ WalkForwardNext /\ Rests("walkForwardVars")
  \/ part = "backtest" /\ Flat!Next /\ Rests("btVars")
  \/ part = "drift" /\ Monitor!Next /\ Rests("drVars")

SysSpec == SysInit /\ [][SysNext]_sysVars
-----------------------------------------------------------------------------
(* The properties of the instances.  Those of the extended parts are       *)
(* checked as they are.                                                    *)

\* A bundle that was promised validates with its key, holds a whole prefix of
\* the account, is restored as it was published, and nothing private is in the
\* clear (backup); a dataset that was promised is readable, its bars are the
\* upload, its trades durable frames, its partitions unbroken (Importer,
\* Recorder).  A directory that is new can be lost with what it holds, so the
\* uploads to one are only compared with their bars.
PublishedIsReadable ==
  /\ part = "clear backup" =>
       /\ ClearBackup!TypeOK /\ ClearBackup!PromisedRestores
       /\ ClearBackup!WholePrefix /\ ClearBackup!RestoredAsPublished
  /\ part = "private backup" => PrivateBackup!TypeOK /\ PrivateBackup!NothingPrivateInTheClear
  /\ part = "uploads" => Uploading!TypeOK /\ Uploading!BarsAreTheUpload
  /\ part = "racing" => Racing!TypeOK /\ Racing!PromisedSurvives /\ Racing!NeverDangling
  /\ part = "exports" =>
       /\ Exporting!TypeOK /\ Exporting!PromisedSurvives /\ Exporting!NeverDangling
       /\ Exporting!FromDurableFrames /\ Exporting!PartitionWhole

\* Once every call returned a restart shows what the last answers said, and no
\* job without a process (JobManager); a strategy has a training job for the
\* days it drifted on, and the answer names a drift when there is one
\* (DriftMonitor).
TrainingJobs ==
  /\ [](part = "jobs" => Jobs!TypeOK /\ Jobs!RowsFollow)
  /\ [](part = "drift" => Monitor!JobPerDriftedDay /\ Monitor!SignalIsAny)
  /\ Jobs!NoDanglingJobs

\* Lots, realized results and the curve of a backtest are those of the fills
\* and the money that changed hands, and its drawdown is the greatest fall
\* (Backtest.run, BacktestMetrics.calculate); a branch of a recorded run decides
\* at a timer on what was available by then, and ends where the record does
\* (Replay.branch).
ReplaysExplained ==
  /\ part = "backtest" =>
       /\ Flat!TraceIsPosition /\ Flat!RealizedIsFlows
       /\ Flat!CurveEndsAtBalance /\ Flat!DrawdownIsGreatest
  /\ part = "branch" => Branch!TimerSeesItsInstant /\ Branch!EndsAtHorizon
=============================================================================
