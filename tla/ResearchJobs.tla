---------------------------- MODULE ResearchJobs ----------------------------
(***************************************************************************)
(* The records of research jobs (api/jobs.py): what the threads of the API *)
(* and the workers write to the records in memory, the rows that follow    *)
(* them, and the reconciliation of the rows with the live processes when   *)
(* the API starts again.  The id of a job is its type, the hash of its     *)
(* specification and the second of its creation.  Nothing in src runs the  *)
(* jobs: workers are processes that report what they did.                  *)
(***************************************************************************)
EXTENDS Naturals, FiniteSets

CONSTANTS Ids,        \* job ids
          Pids,       \* process ids of the system
          MaxCrashes, \* bound of restarts of the API
          None
Apart == None \notin Pids

VARIABLES
  jobs,     \* self.jobs
  rows,     \* research_jobs
  saving,   \* ids changed in memory and not yet persisted
  alive,    \* pids of running processes
  works,    \* the job each pid was started for, by whoever has that pid now
  up, crashes
vars == <<jobs, rows, saving, alive, works, up, crashes>>

States == {"QUEUED", "RUNNING", "CANCEL_REQUESTED", "SUCCEEDED", "FAILED", "INTERRUPTED"}
Terminal == {"SUCCEEDED", "FAILED", "INTERRUPTED"}
Records == [state : States, pid : Pids \union {None}]
Table == [Ids -> Records \union {None}]
NoJobs == [i \in Ids |-> None]
Known(i) == jobs[i] # None

TypeOK ==
  /\ jobs \in Table /\ rows \in Table
  /\ saving \subseteq Ids /\ alive \subseteq Pids
  /\ works \in [Pids -> Ids \union {None}]
  /\ up \in BOOLEAN /\ crashes \in 0 .. MaxCrashes

Init ==
  /\ jobs = NoJobs /\ rows = NoJobs /\ saving = {}
  /\ alive = {} /\ works = [p \in Pids |-> None]
  /\ up = TRUE /\ crashes = 0

-----------------------------------------------------------------------------
\* A call changes the record in memory; its row follows in a step of its own.
Change(i, r) ==
  /\ up
  /\ jobs' = [jobs EXCEPT ![i] = r]
  /\ saving' = saving \union {i}
  /\ UNCHANGED <<rows, alive, works, up, crashes>>

Persist ==
  \E i \in saving :
    /\ rows' = [rows EXCEPT ![i] = jobs[i]]
    /\ saving' = saving \ {i}
    /\ UNCHANGED <<jobs, alive, works, up, crashes>>

CreateJob == \E i \in Ids : Change(i, [state |-> "QUEUED", pid |-> None])

UpdateProgress ==
  \E p \in alive, named \in BOOLEAN :
    /\ works[p] # None /\ Known(works[p])
    /\ LET r == jobs[works[p]] IN
       Change(works[p], [state |-> IF r.state = "QUEUED" THEN "RUNNING" ELSE r.state,
                         pid |-> IF named THEN p ELSE r.pid])

Completed(r, outcome) == [r EXCEPT !.state = outcome]
CompleteJob ==
  \E p \in alive, outcome \in {"SUCCEEDED", "FAILED"} :
    /\ works[p] # None /\ Known(works[p])
    /\ Change(works[p], Completed(jobs[works[p]], outcome))

Cancels(r) == r.state \notin Terminal
CancelJob ==
  \E i \in Ids : Known(i) /\ Cancels(jobs[i]) /\ Change(i, [jobs[i] EXCEPT !.state = "CANCEL_REQUESTED"])

\* Processes of the system start, for a job or for something else, and end.
ProcessStarts ==
  \E p \in Pids \ alive, i \in Ids \union {None} :
    /\ i # None => up /\ Known(i) /\ jobs[i].state = "QUEUED" /\ ~\E q \in alive : works[q] = i
    /\ alive' = alive \union {p} /\ works' = [works EXCEPT ![p] = i]
    /\ UNCHANGED <<jobs, rows, saving, up, crashes>>
ProcessEnds ==
  \E p \in alive :
    /\ alive' = alive \ {p} /\ works' = [works EXCEPT ![p] = None]
    /\ UNCHANGED <<jobs, rows, saving, up, crashes>>

Crash ==
  /\ up /\ crashes < MaxCrashes
  /\ up' = FALSE /\ crashes' = crashes + 1
  /\ jobs' = NoJobs /\ saving' = {}
  /\ UNCHANGED <<rows, alive, works>>

\* _load_from_db and reconcile_on_startup.
DanglingRunning(r) == r.state = "RUNNING" /\ (r.pid = None \/ r.pid \notin alive)
Dangling(r) ==
  /\ r.state \in {"RUNNING", "CANCEL_REQUESTED"}
  /\ r.pid = None \/ r.pid \notin alive
Reconciled(r) == IF r # None /\ Dangling(r) THEN [r EXCEPT !.state = "INTERRUPTED"] ELSE r
Restart ==
  /\ ~up /\ up' = TRUE
  /\ jobs' = [i \in Ids |-> Reconciled(rows[i])]
  /\ rows' = jobs'
  /\ UNCHANGED <<saving, alive, works, crashes>>

Next ==
  \/ CreateJob \/ UpdateProgress \/ CompleteJob \/ CancelJob \/ Persist
  \/ ProcessStarts \/ ProcessEnds \/ Crash \/ Restart
Spec == Init /\ [][Next]_vars

-----------------------------------------------------------------------------
\* Once every call returned, the rows are the records: a restart shows what the
\* last answers said.
RowsFollow == up /\ saving = {} => rows = jobs

\* After a restart no job is running, or asked to stop, without a live process.
NoDanglingJobs ==
  [][~up /\ up' => \A i \in Ids :
       jobs'[i] # None /\ jobs'[i].state \in {"RUNNING", "CANCEL_REQUESTED"} => jobs'[i].pid \in alive]_vars

=============================================================================
