----------------------------- MODULE Supervisor -----------------------------
(***************************************************************************)
(* Launchers of one account on one host (launcher/app.py, supervisor/):    *)
(* each looks for a running instance, takes the lock of the account        *)
(* directory, advances its epoch, publishes itself and spawns the API,     *)
(* whose process runs the trading loop; it stops in the opposite order.    *)
(* A process may end at any step.  The system then releases its lock, but  *)
(* nothing ends its child or removes its files.                            *)
(***************************************************************************)
EXTENDS Naturals, FiniteSets

CONSTANTS Procs,     \* processes of launchers, named by their pids
          MaxLosses, \* bound of losses of power
          Reuse,     \* whether the system gives the pid of a dead process again
          None
ASSUME NoneIsNoProc == None \notin Procs /\ None \notin [pid : Procs, epoch : Nat]

VARIABLES
  at,        \* the step each launcher is at
  lock,      \* the holder of .account.lock
  epoch,     \* epoch.json, 0 when it is absent or does not parse
  granted,   \* the epoch each launcher was granted
  top,       \* the highest epoch granted so far
  instance,  \* active_instance.json
  api,       \* launchers whose API process is alive
  losses
vars == <<at, lock, epoch, granted, top, instance, api, losses>>

Steps == {"off", "locking", "advancing", "publishing", "spawning", "running",
          "unlinking", "unlocking", "opened", "dead", "other"}
Alive(p) == at[p] \notin {"off", "dead"}

TypeOK ==
  /\ at \in [Procs -> Steps]
  /\ lock \in Procs \union {None}
  /\ epoch \in Nat /\ top \in Nat /\ granted \in [Procs -> Nat]
  /\ instance = None \/ (instance.pid \in Procs /\ instance.epoch \in Nat)
  /\ api \subseteq Procs /\ losses \in 0 .. MaxLosses

Init ==
  /\ at = [p \in Procs |-> "off"] /\ lock = None
  /\ epoch = 0 /\ granted = [p \in Procs |-> 0] /\ top = 0
  /\ instance = None /\ api = {} /\ losses = 0

Goes(p, from, to) == at[p] = from /\ at' = [at EXCEPT ![p] = to]
-----------------------------------------------------------------------------
\* check_existing_instance: the file names a pid that is alive.
NamedInstance == instance # None
ExistingInstance == instance # None /\ Alive(instance.pid)
Check(p) ==
  /\ Goes(p, "off", IF ExistingInstance THEN "opened" ELSE "locking")
  /\ UNCHANGED <<lock, epoch, granted, top, instance, api, losses>>

\* The lock of the system is taken without waiting.
Acquire(p) ==
  /\ Goes(p, "locking", IF lock = None THEN "advancing" ELSE "opened")
  /\ lock' = IF lock = None THEN p ELSE lock
  /\ UNCHANGED <<epoch, granted, top, instance, api, losses>>

\* _advance_epoch: a file that does not parse counts as none.
NextEpochOfInstance == IF instance = None THEN 1 ELSE instance.epoch + 1
NextEpoch == epoch + 1
AdvanceEpoch(p) ==
  /\ Goes(p, "advancing", "publishing")
  /\ epoch' = NextEpoch /\ granted' = [granted EXCEPT ![p] = NextEpoch]
  /\ top' = IF NextEpoch > top THEN NextEpoch ELSE top
  /\ UNCHANGED <<lock, instance, api, losses>>

Publish(p) ==
  /\ Goes(p, "publishing", "spawning")
  /\ instance' = [pid |-> p, epoch |-> granted[p]]
  /\ UNCHANGED <<lock, epoch, granted, top, api, losses>>
SpawnApi(p) ==
  /\ Goes(p, "spawning", "running") /\ api' = api \union {p}
  /\ UNCHANGED <<lock, epoch, granted, top, instance, losses>>

\* The lock given back before the file is removed.
StopChildrenUnlocked(p) ==
  /\ Goes(p, "running", "unlinking") /\ api' = api \ {p} /\ lock' = None
  /\ UNCHANGED <<epoch, granted, top, instance, losses>>

\* stop: children first, then the file, then the lock.
StopChildren(p) ==
  /\ Goes(p, "running", "unlinking") /\ api' = api \ {p}
  /\ UNCHANGED <<lock, epoch, granted, top, instance, losses>>
Unlink(p) ==
  /\ Goes(p, "unlinking", "unlocking") /\ instance' = None
  /\ UNCHANGED <<lock, epoch, granted, top, api, losses>>
Release(p) ==
  /\ Goes(p, "unlocking", "dead") /\ lock' = None
  /\ UNCHANGED <<epoch, granted, top, instance, api, losses>>
\* A launcher that found another ends; any launcher may crash; an API process
\* whose launcher is gone may end at some time.
Ends(p) ==
  /\ Alive(p) /\ at' = [at EXCEPT ![p] = "dead"]
  /\ lock' = IF lock = p THEN None ELSE lock
  /\ UNCHANGED <<epoch, granted, top, instance, api, losses>>
ApiEnds(p) ==
  /\ p \in api /\ api' = api \ {p}
  /\ UNCHANGED <<at, lock, epoch, granted, top, instance, losses>>
PidReused(p) ==
  /\ Reuse /\ Goes(p, "dead", "other")
  /\ UNCHANGED <<lock, epoch, granted, top, instance, api, losses>>

\* Nothing is synced: the file renamed last may come back empty.
PowerLoss ==
  /\ losses < MaxLosses /\ losses' = losses + 1
  /\ at' = [p \in Procs |-> IF Alive(p) THEN "dead" ELSE at[p]]
  /\ lock' = None /\ api' = {}
  /\ epoch' \in {epoch, 0} /\ instance' \in {instance, None}
  /\ UNCHANGED <<granted, top>>

Next ==
  \/ \E p \in Procs :
       \/ Check(p) \/ Acquire(p) \/ AdvanceEpoch(p) \/ Publish(p) \/ SpawnApi(p)
       \/ StopChildren(p) \/ Unlink(p) \/ Release(p)
       \/ Ends(p) \/ ApiEnds(p) \/ PidReused(p)
  \/ PowerLoss
Spec == Init /\ [][Next]_vars

-----------------------------------------------------------------------------
\* The file of a running launcher names it, so that a second click finds it;
\* no launcher that stops takes it away.
RunningIsFound == \A p \in Procs : at[p] = "running" => instance # None /\ instance.pid = p

\* A launcher that opens the dashboard of another does so while one holds the account.
OpenedIsOwned == [][\A p \in Procs : at[p] # "opened" /\ at'[p] = "opened" => lock # None]_vars

\* Every owner has a higher epoch than all owners before it.
EpochsIncrease == [][\A p \in Procs : granted'[p] # granted[p] => granted'[p] > top]_vars

\* At most one process runs the trading loop of the account.
OneWriter == Cardinality(api) <= 1
=============================================================================
