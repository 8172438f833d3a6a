----------------------------- MODULE EngineStore -----------------------------
(***************************************************************************)
(* core/engine.py over persistence/event_store.py: candidates, commits,    *)
(* the latch, timers, checkpoints, restore and resume, with a crash        *)
(* between any two steps.                                                  *)
(*                                                                         *)
(* The raw journal is its number of frames written and its durable         *)
(* watermark (module RawJournal has the files).                            *)
(***************************************************************************)
EXTENDS Cycle

CONSTANTS Plans,        \* what the producers may decide in a cycle
          MaxInputs,    \* inputs committed
          MaxRaw,       \* raw frames written
          MaxDeaths, MaxCheckpoints

\* A producer decides on facts; that a timer fires is none of them.
ASSUME EngineAssumption ==
  /\ Plans \subseteq [Producers -> Seq(Seq(EventType \ {"Wake"}))]
  /\ {MaxInputs, MaxRaw, MaxDeaths, MaxCheckpoints} \subseteq Nat

VARIABLES eng,      \* the engine of the running process
          log,      \* events table
          ver,      \* projection_watermarks: state_version
          water,    \* store_metadata: raw_watermark
          cks,      \* checkpoint_manifest
          raw,      \* raw journal
          deaths

store == <<log, ver, water, cks>>
engineVars == <<eng, store, raw, deaths>>

Mode == {"DOWN", "DEMO", "RECOVERY"}
Candidate == [base : Nat, recs : Seq(EventRecord), st : EngineState]
Down == [mode |-> "DOWN", ready |-> FALSE, restored |-> FALSE, latched |-> FALSE,
         st |-> Initial, pending |-> <<>>]

EngineTypeOK ==
  /\ eng \in [mode : Mode, ready : BOOLEAN, restored : BOOLEAN, latched : BOOLEAN,
              st : EngineState, pending : Seq(Candidate)]
  /\ Len(eng.pending) <= 1
  /\ log \in Seq(EventRecord) /\ ver \in Nat /\ water \in Nat
  /\ \A ck \in cks : ck \in [st : EngineState, water : Nat]
  /\ raw \in [written : Nat, synced : Nat] /\ raw.synced <= raw.written
  /\ deaths \in Nat

EngineInit ==
  /\ eng = Down
  /\ log = <<>> /\ ver = 0 /\ water = 0 /\ cks = {}
  /\ raw = [written |-> 0, synced |-> 0]
  /\ deaths = 0

StoreSeq == Len(log)
MayProcess == eng.mode = "DEMO" /\ eng.ready /\ ~eng.latched /\ eng.pending = <<>>
----------------------------------------------------------------------------
(* The raw journal, as the engine sees it.                                 *)

AppendFrame ==
  /\ raw.written < MaxRaw
  /\ raw' = [raw EXCEPT !.written = @ + 1]
  /\ UNCHANGED <<eng, store, deaths>>

SyncJournal ==
  /\ raw.synced < raw.written
  /\ raw' = [raw EXCEPT !.synced = raw.written]
  /\ UNCHANGED <<eng, store, deaths>>
----------------------------------------------------------------------------
(* Candidates.                                                             *)

Input(type, frame, timer, avail) ==
  [seq |-> eng.st.seq + 1, type |-> type, src |-> 0, parent |-> 0, raw |-> frame,
   timer |-> timer, avail |-> avail]

Process(root, plan) ==
  LET c == Decide(eng.st, root, plan) IN
  /\ MayProcess /\ Valid(eng.st, root) /\ Len(c.hist) <= MaxEvents
  /\ eng.st.ver < MaxInputs
  /\ eng' = [eng EXCEPT !.pending = <<[base |-> eng.st.ver, recs |-> c.hist, st |-> c.st]>>]
  /\ UNCHANGED <<store, raw, deaths>>

ProcessTrade ==
  \E frame \in 1 .. raw.written : \E plan \in Plans :
    Process(Input("Trade", frame, 0, eng.st.avail + 1), plan)

ProcessDisarm ==
  \E plan \in Plans : Process(Input("Disarm", 0, 0, eng.st.avail), plan)

\* next_timer_input, on time or late.
ProcessTimer ==
  /\ eng.st.timers # {}
  /\ LET t == NextTimer(eng.st) IN
     \E plan \in Plans : \E late \in {0, 1} :
       Process(Input("Wake", 0, t.ord,
                     late + (IF t.due > eng.st.avail THEN t.due ELSE eng.st.avail)), plan)

Discard ==
  /\ eng.pending # <<>>
  /\ eng' = [eng EXCEPT !.pending = <<>>]
  /\ UNCHANGED <<store, raw, deaths>>
----------------------------------------------------------------------------
(* Commit.                                                                 *)

\* What EventStore.commit checks inside its transaction.
StoreAccepts(c) ==
  /\ c.base = ver /\ raw.synced >= water
  /\ \A k \in DOMAIN c.recs :
       c.recs[k].seq = StoreSeq + k /\ c.recs[k].raw <= raw.synced

AppendEvents(c) ==
  /\ log' = log \o c.recs /\ ver' = ver + 1 /\ water' = raw.synced
  /\ UNCHANGED cks

Commit ==
  /\ eng.pending # <<>> /\ StoreAccepts(eng.pending[1])
  /\ AppendEvents(eng.pending[1])
  /\ eng' = [eng EXCEPT !.st = eng.pending[1].st, !.pending = <<>>]
  /\ UNCHANGED <<raw, deaths>>

\* (faulty) the candidate is published although its commit failed.
CommitFailsPublished ==
  /\ eng.pending # <<>>
  /\ eng' = [eng EXCEPT !.st = eng.pending[1].st, !.pending = <<>>]
  /\ UNCHANGED <<store, raw, deaths>>

\* The store refuses or fails: the transaction is rolled back, the engine
\* drops the candidate and latches.
CommitFails ==
  /\ eng.pending # <<>>
  /\ eng' = [eng EXCEPT !.pending = <<>>, !.latched = TRUE]
  /\ UNCHANGED <<store, raw, deaths>>

\* A crash loses any part of what was not synced.  The journal keeps what it
\* finds complete when it is opened again, but does not call it durable.
LoseTail ==
  \E kept \in raw.synced .. raw.written : raw' = [raw EXCEPT !.written = kept]

Die ==
  /\ eng.mode # "DOWN" /\ deaths < MaxDeaths
  /\ eng' = Down /\ LoseTail /\ deaths' = deaths + 1
  /\ UNCHANGED store

\* The process dies after SQLite committed and before the receipt.
DieInCommit ==
  /\ eng.pending # <<>> /\ StoreAccepts(eng.pending[1]) /\ deaths < MaxDeaths
  /\ AppendEvents(eng.pending[1])
  /\ eng' = Down /\ LoseTail /\ deaths' = deaths + 1
----------------------------------------------------------------------------
(* Opening, checkpoints, recovery.                                         *)

Open(mode) ==
  /\ eng.mode = "DOWN"
  /\ eng' = [Down EXCEPT !.mode = mode, !.ready = (ver = 0 /\ StoreSeq = 0)]
  /\ UNCHANGED <<store, raw, deaths>>

\* (faulty) the state of the pending candidate is saved.
CheckpointCandidate ==
  /\ eng.pending # <<>> /\ eng.ready /\ ~eng.latched /\ Cardinality(cks) < MaxCheckpoints
  /\ cks' = cks \cup {[st |-> eng.pending[1].st, water |-> raw.synced]}
  /\ UNCHANGED <<eng, log, ver, water, raw, deaths>>

\* The watermark of a checkpoint is the one of the last commit, or the
\* journal's before the first.
Checkpoint ==
  /\ eng.mode # "DOWN" /\ eng.pending = <<>> /\ eng.ready /\ ~eng.latched
  /\ raw.synced >= water
  /\ ver = eng.st.ver /\ StoreSeq = eng.st.seq
  /\ Cardinality(cks) < MaxCheckpoints
  /\ cks' = cks \cup {[st |-> eng.st, water |-> IF ver = 0 THEN raw.synced ELSE water]}
  /\ UNCHANGED <<eng, log, ver, water, raw, deaths>>

TailOf(ck) == SubSeq(log, ck.st.seq + 1, Len(log))

Restore(ck) ==
  /\ eng.mode = "RECOVERY" /\ eng.pending = <<>>
  /\ raw.synced >= ck.water /\ raw.synced >= water
  /\ \A k \in DOMAIN TailOf(ck) : TailOf(ck)[k].raw <= raw.synced
  /\ Accepted(ck.st, TailOf(ck))
  /\ LET st == Replay(ck.st, TailOf(ck)) IN
     /\ st.ver = ver /\ st.seq = StoreSeq
     /\ eng' = [eng EXCEPT !.st = st, !.ready = TRUE, !.latched = FALSE, !.restored = TRUE]
  /\ UNCHANGED <<store, raw, deaths>>

\* A recovery that is refused takes back what an earlier one granted.
RestoreFails ==
  /\ eng.mode = "RECOVERY" /\ eng.pending = <<>>
  /\ eng' = [eng EXCEPT !.ready = FALSE, !.restored = FALSE]
  /\ UNCHANGED <<store, raw, deaths>>

ResumeOffline ==
  /\ eng.mode = "RECOVERY" /\ eng.restored /\ ~eng.latched
  /\ eng' = [eng EXCEPT !.mode = "DEMO"]
  /\ UNCHANGED <<store, raw, deaths>>

EngineNext ==
  \/ AppendFrame \/ SyncJournal
  \/ ProcessTrade \/ ProcessDisarm \/ ProcessTimer \/ Discard
  \/ Commit \/ CommitFails \/ Die \/ DieInCommit
  \/ \E mode \in {"DEMO", "RECOVERY"} : Open(mode)
  \/ Checkpoint \/ \E ck \in cks : Restore(ck)
  \/ RestoreFails \/ ResumeOffline

EngineSpec == EngineInit /\ [][EngineNext]_engineVars
----------------------------------------------------------------------------
(* Properties.                                                             *)

Usable == eng.mode # "DOWN" /\ eng.ready /\ ~eng.latched

\* The durable log grows by whole cycles, and the state a usable engine shows
\* is the replay of the log from the beginning, whatever crashes, failed
\* commits, checkpoints and recoveries came before (Engine.commit, restore).
Atomic == INSTANCE AtomicLog WITH
  StateOf   <- LAMBDA h : Replay(Initial, h),
  IsCycle   <- LAMBDA h : h # <<>> /\ WellFormed(h),
  history   <- log,
  published <- IF Usable THEN <<eng.st>> ELSE <<>>

ImplementsLog == Atomic!LogSpec

\* A checkpoint is the state after a prefix of the log, never one with work
\* that was not committed (Engine.checkpoint).
CheckpointIsPrefix ==
  \A ck \in cks : /\ ck.st.seq <= Len(log)
                  /\ ck.st = Replay(Initial, SubSeq(log, 1, ck.st.seq))

\* Recovery never refuses what was committed: from every checkpoint the tail is
\* accepted, ends at the watermark of the store, and the journal covers what
\* the checkpoint and the store refer to (Engine.restore, _stored_children).
NeverUnrecoverable ==
  \A ck \in cks :
    /\ Accepted(ck.st, TailOf(ck))
    /\ Replay(ck.st, TailOf(ck)).ver = ver
    /\ raw.synced >= ck.water

\* What the log refers to in the raw journal outlives every crash
\* (EventStore.commit, _require_watermark).
ReferencesDurable ==
  \A k \in DOMAIN log : log[k].raw <= water /\ water <= raw.synced

\* A timer fires at most once, also across restarts, and only after a fact
\* that scheduled it (Engine._consume_timer).
FiredOnce ==
  \A j, k \in DOMAIN log :
    log[j].type = "Wake" /\ log[k].type = "Wake" /\ log[j].timer = log[k].timer => j = k

\* Every reducer gets every committed fact exactly once, whether it catches
\* up at birth or comes by at its stage (Engine._run_cycle).
ReducedOnce ==
  Usable =>
    \A stage \in Reducers : \A seq \in 1 .. eng.st.seq :
      Cardinality({k \in DOMAIN eng.st.trace : eng.st.trace[k] = <<stage, seq>>}) = 1

\* The history stays whole: a checkpoint is the state after a prefix of the log,
\* from every one recovery accepts the tail, ends at the watermark and finds
\* the frames referred to; every reducer got every committed fact once, and a
\* timer fires once, also across restarts (Engine, EventStore).
HistoryWhole ==
  /\ EngineTypeOK /\ CheckpointIsPrefix /\ NeverUnrecoverable /\ ReferencesDurable
  /\ FiredOnce /\ ReducedOnce
============================================================================
