-------------------------------- MODULE Cycle --------------------------------
(***************************************************************************)
(* core/engine.py, Engine._run_cycle: what one external input and the      *)
(* facts derived from it do to the causal state.  The same stage schedule  *)
(* serves normal processing, where producers decide, and recovery, where   *)
(* the recorded emissions take the place of the decisions.                 *)
(*                                                                         *)
(* There is one reducer per stage of Reducers and one producer per stage   *)
(* of Producers.  The state keeps the order in which facts were begun and  *)
(* reduced (the hash chains, and whatever a reducer accumulates).          *)
(***************************************************************************)
EXTENDS Integers, Sequences, FiniteSets, Lots

CONSTANTS Reducers,    \* stages that have a fact reducer
          Producers,   \* stages that have a decision producer
          Delay,       \* delay of a timer request
          MaxEvents    \* max_events_per_transition

\* The stages, in order.
Stage == 1 .. 9

ASSUME CycleAssumption ==
  /\ Reducers \subseteq Stage /\ Producers \subseteq Stage
  /\ Delay \in Nat /\ MaxEvents \in Nat \ {0}

\* Trade refers to a raw frame, Wake is a fired timer, Arm asks for a timer
\* and Disarm cancels the next one.
EventType == {"Trade", "Wake", "Arm", "Disarm"}

\* src is the producing stage and parent the sequence of the cause; both are
\* 0 for the input of the cycle.  raw and timer are 0 where there is none.
EventRecord ==
  [seq : Nat, type : EventType, src : Nat, parent : Nat, raw : Nat,
   timer : Nat, avail : Nat]

Timer == [due : Nat, ord : Nat]

EngineState ==
  [seq : Nat, ver : Nat, avail : Nat, nextOrd : Nat, timers : SUBSET Timer,
   trace : Seq(Nat \X Nat)]

Initial == [seq |-> 0, ver |-> 0, avail |-> 0, nextOrd |-> 1, timers |-> {}, trace |-> <<>>]

\* state.timers[0]: the order of ScheduledTimer.
DueBefore(a, b) == a.due < b.due \/ (a.due = b.due /\ a.ord <= b.ord)
NextTimer(st) == CHOOSE t \in st.timers : \A u \in st.timers : DueBefore(t, u)
----------------------------------------------------------------------------
(* Beginning and reducing a fact.                                          *)

Fires(r, t) == t.ord = r.timer

Valid(st, r) ==
  /\ r.seq = st.seq + 1 /\ r.avail >= st.avail
  /\ r.type = "Wake" => \E t \in st.timers : Fires(r, t) /\ t.due <= r.avail

ConsumeTimer(st, r) ==
  IF r.src = 0 /\ r.type = "Wake" THEN {t \in st.timers : ~Fires(r, t)} ELSE st.timers

BeginFact(st, r) ==
  [st EXCEPT !.timers = ConsumeTimer(st, r),
             !.seq = r.seq, !.avail = r.avail,
             !.ver = IF r.src = 0 THEN st.ver + 1 ELSE st.ver,
             !.trace = Append(st.trace, <<0, r.seq>>)]

\* The reducer of `stage`; the first one owns the timers.
ApplyReducer(st, r, stage) ==
  LET s == [st EXCEPT !.trace = Append(st.trace, <<stage, r.seq>>)] IN
  IF \E other \in Reducers : other < stage THEN s
  ELSE IF r.type = "Arm"
    THEN [s EXCEPT !.timers = @ \cup {[due |-> r.avail + Delay, ord |-> st.nextOrd]},
                   !.nextOrd = @ + 1]
  ELSE IF r.type = "Disarm" /\ st.timers # {}
    THEN [s EXCEPT !.timers = @ \ {NextTimer(st)}]
  ELSE s
----------------------------------------------------------------------------
(* The schedule.  A cycle in progress is its state and its history.        *)

Progress == [st : EngineState, hist : Seq(EventRecord)]

\* The reducers up to a stage, in order, of one fact.
CatchUp(st, r, stage) ==
  InTurn([s \in Stage |-> [x \in EngineState |-> IF s \in Reducers THEN ApplyReducer(x, r, s) ELSE x]],
          st, stage)

\* The reducer of a stage, of every fact born at an earlier one.
Reduce(st, hist, stage) ==
  InTurn([k \in DOMAIN hist |->
             [x \in EngineState |-> IF hist[k].src < stage THEN ApplyReducer(x, hist[k], stage) ELSE x]],
          st, Len(hist))

Child(c, parent, producer, type) ==
  [seq |-> c.st.seq + 1, type |-> type, src |-> producer, parent |-> parent.seq,
   raw |-> 0, timer |-> 0, avail |-> parent.avail]

\* A child catches up with the reducers of its own stage and the earlier ones.
Emit(c, parent, producer, type) ==
  LET child == Child(c, parent, producer, type)
  IN  [st |-> CatchUp(BeginFact(c.st, child), child, producer), hist |-> Append(c.hist, child)]

EmitAll(c, parent, producer, types) ==
  InTurn([j \in DOMAIN types |-> [x \in Progress |-> Emit(x, parent, producer, types[j])]], c, Len(types))

\* The emissions recorded for the slot of producer p and cause r.
EmittedIn(recorded, p, r) ==
  InTurn([k \in DOMAIN recorded |->
             [types \in Seq(EventType) |->
                IF recorded[k].src = p /\ recorded[k].parent = r.seq THEN Append(types, recorded[k].type) ELSE types]],
          <<>>, Len(recorded))

\* The event types producer p emits for the k-th fact: live, those the producer
\* decides on; in recovery, those the log holds.
Planned(plan, p, k) == IF k \in DOMAIN plan[p] THEN plan[p][k] ELSE <<>>
Drafts(live, source, p, k, r) == IF live THEN Planned(source, p, k) ELSE EmittedIn(source, p, r)

Produce(c, stage, live, source) ==
  InTurn([k \in DOMAIN c.hist |->
             [x \in Progress |->
                IF c.hist[k].src < stage
                THEN EmitAll(x, c.hist[k], stage, Drafts(live, source, stage, k, c.hist[k])) ELSE x]],
          c, Len(c.hist))

RunStage(c, stage, live, source) ==
  LET reduced == IF stage \in Reducers THEN [c EXCEPT !.st = Reduce(c.st, c.hist, stage)] ELSE c
  IN  IF stage \in Producers THEN Produce(reduced, stage, live, source) ELSE reduced

RunCycle(st, root, live, source) ==
  InTurn([k \in Stage |-> [c \in Progress |-> RunStage(c, k, live, source)]],
          [st |-> BeginFact(st, root), hist |-> <<root>>], 9)

\* Normal processing: plan[p][k] are the drafts of producer p for the k-th fact.
Decide(st, root, plan) == RunCycle(st, root, TRUE, plan)
----------------------------------------------------------------------------
(* Recovery.                                                               *)

Recover(st, recorded) == RunCycle(st, recorded[1], FALSE, recorded)

\* _stored_children: causes are known, stages increase from cause to effect,
\* and emissions are in the order of stage, cause and sibling.
WellFormed(recorded) ==
  /\ recorded[1].src = 0
  /\ \A k \in 2 .. Len(recorded) :
       /\ recorded[k].src \in Producers
       /\ \E j \in 1 .. k - 1 : recorded[j].seq = recorded[k].parent
                                /\ recorded[j].src < recorded[k].src
  /\ \A k \in 2 .. Len(recorded) - 1 :
       \/ recorded[k].src < recorded[k + 1].src
       \/ recorded[k].src = recorded[k + 1].src /\ recorded[k].parent <= recorded[k + 1].parent

\* The cycle that begins at an input: what follows up to the next input.
EndsAt(log, k, n) ==
  /\ n \in k .. Len(log) /\ \A i \in k + 1 .. n : log[i].src # 0
  /\ n = Len(log) \/ log[n + 1].src = 0
CycleAt(log, k) == SubSeq(log, k, CHOOSE n \in k .. Len(log) : EndsAt(log, k, n))

Replay(st, log) ==
  InTurn([k \in DOMAIN log |->
             [x \in EngineState |-> IF log[k].src = 0 THEN Recover(x, CycleAt(log, k)).st ELSE x]],
          st, Len(log))

\* Engine.restore accepts the tail: it begins at an input, each cycle is valid
\* in the state the ones before it leave, and recovery reproduces it.
Accepted(st, log) ==
  /\ log # <<>> => log[1].src = 0
  /\ \A k \in DOMAIN log : log[k].src = 0 =>
       \E before \in {Replay(st, SubSeq(log, 1, k - 1))}, recorded \in {CycleAt(log, k)} :
         /\ WellFormed(recorded) /\ Valid(before, recorded[1])
         /\ Recover(before, recorded).hist = recorded
============================================================================
