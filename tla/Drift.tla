-------------------------------- MODULE Drift --------------------------------
(***************************************************************************)
(* research/drift.py, DriftMonitor: observations per feature, the stability*)
(* index over them, and the training jobs it asks for.                     *)
(*                                                                         *)
(* The reference has two bins of one half each.  Its index exceeds 0.20    *)
(* exactly when the smaller bin holds at most a quarter, up to ten         *)
(* observations; MaxUpdates stays below.  Days follow one another.         *)
(***************************************************************************)
EXTENDS Integers, Sequences, FiniteSets, SequencesExt

CONSTANTS Features,    \* in the order of the reference
          Window,      \* window_size
          Strategies, Days, MaxUpdates

DriftAssumption ==
  /\ Features \in Seq(STRING) /\ Window \in Nat \ {0} /\ Days \in Nat \ {0}
  /\ MaxUpdates \in 0 .. 10

VARIABLES seen,      \* observations, by bin
          total, missing,
          jobs,      \* candidate_jobs
          signal,    \* what the last update returned
          present,   \* the features it was given
          drifts,    \* keys with a signal of drift
          day, updates

vars == <<seen, total, missing, jobs, signal, present, drifts, day, updates>>

Bin == {"low", "high"}
Feature == ToSet(Features)
Quiet == [drifted |-> FALSE, feature |-> "", queued |-> FALSE]

Init ==
  /\ seen = [f \in Feature |-> [b \in Bin |-> 0]]
  /\ total = [f \in Feature |-> 0] /\ missing = [f \in Feature |-> 0]
  /\ jobs = {} /\ signal = Quiet /\ present = {} /\ drifts = {}
  /\ day = 1 /\ updates = 0

Count(bins) == bins["low"] + bins["high"]

\* compute_psi above alert_threshold.
Exceeds(bins) ==
  LET least == IF bins["low"] < bins["high"] THEN bins["low"] ELSE bins["high"]
  IN  4 * least <= Count(bins)

Full(bins) == Count(bins) >= Window

\* queue_candidate_job answers TRUE.
Queues(all, key) == key \notin all

\* One feature of update; nothing is done after the one that drifted.
UpdateFeature(m, f, values, key) ==
  IF m.signal.drifted THEN m
  ELSE IF f \notin DOMAIN values
    THEN [m EXCEPT !.total[f] = @ + 1, !.missing[f] = @ + 1]
  ELSE LET bins   == [m.seen[f] EXCEPT ![values[f]] = @ + 1]
           shifted == Full(bins) /\ Exceeds(bins)
       IN  [m EXCEPT !.total[f] = @ + 1, !.seen[f] = bins,
              !.signal = IF ~Full(bins) THEN @
                         ELSE [drifted |-> shifted, feature |-> f,
                               queued |-> shifted /\ Queues(m.jobs, key)],
              !.jobs = IF shifted /\ Queues(m.jobs, key) THEN @ \union {key} ELSE @]

Folded(m, values, key) ==
  FoldLeft(LAMBDA n, f : UpdateFeature(n, f, values, key), m, Features)

Monitor == [seen |-> seen, total |-> total, missing |-> missing, jobs |-> jobs,
            signal |-> Quiet]

Update(values, strategy) ==
  LET key == <<strategy, day>>
      m   == Folded(Monitor, values, key)
  IN  /\ updates < MaxUpdates /\ updates' = updates + 1
      /\ seen' = m.seen /\ total' = m.total /\ missing' = m.missing
      /\ jobs' = m.jobs /\ signal' = m.signal
      /\ present' = DOMAIN values
      /\ drifts' = IF m.signal.drifted THEN drifts \union {key} ELSE drifts
      /\ UNCHANGED day

NextDay ==
  /\ day < Days /\ day' = day + 1
  /\ UNCHANGED <<seen, total, missing, jobs, signal, present, drifts, updates>>

Next ==
  \/ \E given \in SUBSET Feature : \E values \in [given -> Bin], strategy \in Strategies :
       Update(values, strategy)
  \/ NextDay

Spec == Init /\ [][Next]_vars
----------------------------------------------------------------------------
(* Properties.                                                             *)

\* A strategy has a training job for exactly the days it drifted on, whoever
\* drifted before it (DriftMonitor.queue_candidate_job).
JobPerDriftedDay == jobs = drifts

\* The answer names a drift exactly when a feature it was given is over its
\* window and has drifted, however many others have not (DriftMonitor.update).
SignalIsAny ==
  updates > 0 => (signal.drifted <=> \E f \in present : Full(seen[f]) /\ Exceeds(seen[f]))

=============================================================================
