---------------------------- MODULE Counterfactual ----------------------------
(***************************************************************************)
(* core/engine.py, Replay.branch: a fresh run of the engine over market    *)
(* facts of a recorded run, with the timers its own decisions schedule.    *)
(* The engine is module Cycle's.                                           *)
(***************************************************************************)
EXTENDS Cycle, SequencesExt

CONSTANTS Gaps,       \* time between recorded inputs
          MaxInputs,  \* recorded inputs
          MaxCycles   \* cycles of the branch

VARIABLES manifest,  \* inputs of the recorded run
          todo,      \* selected facts still to come
          st,        \* state of the branch
          log        \* its inputs, in order

vars == <<manifest, todo, st, log>>

\* A recorded run holds market facts, commands and timers that fired.
Recorded(type, avail) == [type |-> type, avail |-> avail]

\* _BRANCH_MARKET.
BranchMarket(type) == type = "Trade"

Init ==
  /\ \E n \in 1 .. MaxInputs :
       \E types \in [1 .. n -> {"Trade", "Disarm", "Wake"}], gaps \in [1 .. n -> Gaps] :
         manifest = [k \in 1 .. n |->
                       Recorded(types[k], FoldLeft(LAMBDA a, j : a + gaps[j], 0, [j \in 1 .. k |-> j]))]
  /\ todo = SelectSeq(manifest, LAMBDA r : BranchMarket(r.type))
  /\ st = Initial /\ log = <<>>

Run(type, timer, avail, plan) ==
  LET root == [seq |-> st.seq + 1, type |-> type, src |-> 0, parent |-> 0,
               raw |-> 0, timer |-> timer, avail |-> avail]
  IN  /\ Valid(st, root) /\ Len(log) < MaxCycles
      /\ st' = Decide(st, root, plan).st
      /\ log' = Append(log, root)

\* Any decisions of any producer.
Decisions == [Producers -> {<<>>, <<<<"Arm">>>>}]

\* next_timer_input without a time of its own.
Fired(t) == IF t.due > st.avail THEN t.due ELSE st.avail

\* The last selected fact ends the branch.
Horizon == LET facts == SelectSeq(manifest, LAMBDA r : BranchMarket(r.type))
           IN  facts[Len(facts)].avail

\* A timer fires before a fact only when it is due before it; after the last
\* fact, what is due by then.
Drains(due) == IF todo # <<>> THEN due < todo[1].avail ELSE due <= Horizon

Drain ==
  /\ st.timers # {} /\ Drains(NextTimer(st).due)
  /\ \E plan \in Decisions : Run("Wake", NextTimer(st).ord, Fired(NextTimer(st)), plan)
  /\ UNCHANGED <<manifest, todo>>

Feed ==
  /\ todo # <<>> /\ ~(st.timers # {} /\ Drains(NextTimer(st).due))
  /\ \E plan \in Decisions : Run(todo[1].type, 0, todo[1].avail, plan)
  /\ todo' = Tail(todo)
  /\ UNCHANGED manifest

Next == Drain \/ Feed

Spec == Init /\ [][Next]_vars
----------------------------------------------------------------------------
(* Properties.                                                             *)

Trades(inputs) == SelectSeq(inputs, LAMBDA r : r.type = "Trade")

\* A decision at a timer sees every market fact available by then and none
\* available later, also at one instant (Replay.branch).
TimerSeesItsInstant ==
  \A k \in DOMAIN log :
    log[k].type = "Wake" =>
      Len(Trades(SubSeq(log, 1, k))) =
        Len(SelectSeq(Trades(manifest), LAMBDA f : f.avail <= log[k].avail))

Ended == todo = <<>> /\ ~(st.timers # {} /\ Drains(NextTimer(st).due))

\* A branch that ends was fed the market facts of the record and nothing else
\* that is in it, and no timer is due by its last fact (Replay.branch).
EndsAtHorizon ==
  Ended =>
    LET fed == SelectSeq(log, LAMBDA r : r.type # "Wake") IN
    /\ [k \in DOMAIN fed |-> Recorded(fed[k].type, fed[k].avail)] = Trades(manifest)
    /\ \A t \in st.timers : t.due > Trades(manifest)[Len(Trades(manifest))].avail
=============================================================================
