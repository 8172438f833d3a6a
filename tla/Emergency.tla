----------------------------- MODULE Emergency ------------------------------
(***************************************************************************)
(* Latches, the flatten workflow and the decisions of the risk producer    *)
(* (risk/emergency.py, reducers.py).  The workflow counts down the lots it *)
(* started with by the fills it is told of; the position itself also moves *)
(* by entry orders that fill before their cancel arrives.                  *)
(*                                                                         *)
(* Bounds: Lots of the position, Entry lots still working, MaxMoves of the *)
(* equity.                                                                 *)
(***************************************************************************)
EXTENDS Integers

CONSTANTS HeldLots, EntryLots, LeastLots, FirstEquity, MaxMoves, LossLimit

ASSUME EmergencyAssumption == {HeldLots, EntryLots, LeastLots, FirstEquity, MaxMoves, LossLimit} \subseteq Nat

NoFlatten == [status |-> "NONE", start |-> 0, remaining |-> 0]
Completed == {"SUCCEEDED", "FAILED", "EXPIRED", "FLATTEN_BLOCKED"}
Status == Completed \cup {"NONE", "RUNNING", "PARTIAL"}

\* A latch is one entry of risk_latches under its latch_id.
Latches == {"kill", "soft", "pause", "reconciliation"}

VARIABLES
  latch,     \* latch[l]: active
  flat,      \* the flatten workflow
  position,  \* lots held
  working,   \* lots of entry orders whose cancel has not arrived
  exited,    \* lots the workflow's exits filled
  told,      \* lots of them the workflow was told of
  equity, opening, moves,   \* equity, also at the start of the session
  verdict    \* the last decision on an entry

book == <<position, working, exited>>
money == <<equity, opening, moves>>
emergencyVars == <<latch, flat, book, told, money, verdict>>

AtLeast(a, b) == IF a > b THEN a ELSE b

EmergencyInit ==
  /\ latch = [l \in Latches |-> FALSE] /\ flat = NoFlatten
  /\ position \in 0..HeldLots /\ working \in 0..EntryLots /\ exited = 0 /\ told = 0
  /\ equity = FirstEquity /\ opening = FirstEquity /\ moves = 0 /\ verdict = "NONE"
----------------------------------------------------------------------------
\* kill, soft_breaker, pause_strategy and what undoes them.
ChangeLatch(l, active) ==
  /\ latch[l] # active /\ latch' = [latch EXCEPT ![l] = active]
  /\ UNCHANGED <<flat, book, told, money, verdict>>

Flatten(trusted) ==
  /\ flat = NoFlatten
  /\ latch' = [latch EXCEPT !["kill"] = TRUE]
  /\ flat' = [status |-> IF ~trusted THEN "FLATTEN_BLOCKED"
                           ELSE IF position = 0 THEN "SUCCEEDED" ELSE "RUNNING",
              start |-> position, remaining |-> position]
  /\ UNCHANGED <<book, told, money, verdict>>

\* (faulty) dust below the minimum counts as flat.
UpdateFlattenDust(filled) ==
  LET rest == AtLeast(0, flat.remaining - filled) IN
  [flat EXCEPT !.remaining = rest, !.status = IF rest < LeastLots THEN "SUCCEEDED" ELSE @]

UpdateFlatten(filled) ==
  LET rest == AtLeast(0, flat.remaining - filled) IN
  [flat EXCEPT !.remaining = rest,
               !.status = IF rest = 0 THEN "SUCCEEDED"
                            ELSE IF rest < LeastLots THEN "PARTIAL" ELSE @]

\* Reports of exit fills arrive late and together.
TellFills ==
  /\ told < exited /\ flat # NoFlatten
  /\ \E n \in 1..(exited - told) :
       told' = told + n /\ flat' = UpdateFlatten(n)
  /\ UNCHANGED <<latch, book, money, verdict>>

TimeoutFlatten ==
  /\ flat # NoFlatten
  /\ flat' = [flat EXCEPT !.status = "EXPIRED"]
  /\ UNCHANGED <<latch, book, told, money, verdict>>

\* Reduce-only exits of the workflow, and entries that were still working.
ExitFills ==
  /\ flat # NoFlatten /\ position > 0
  /\ position' = position - 1 /\ exited' = exited + 1
  /\ UNCHANGED <<latch, flat, working, told, money, verdict>>

EntryFills ==
  /\ working > 0 /\ working' = working - 1 /\ position' = position + 1
  /\ UNCHANGED <<latch, flat, exited, told, money, verdict>>
----------------------------------------------------------------------------
(* risk_producer: what it assumes of the account.                          *)

MarkMoves ==
  /\ moves < MaxMoves /\ moves' = moves + 1
  /\ \E e \in {equity - LossLimit, equity + LossLimit} : e >= 0 /\ equity' = e
  /\ UNCHANGED <<latch, flat, book, told, opening, verdict>>

NewSession ==
  /\ opening # equity /\ opening' = equity
  /\ UNCHANGED <<latch, flat, book, told, equity, moves, verdict>>

\* No reducer writes daily-state-v1, so the baseline is the present equity;
\* the instrument is never filled in, so no entry gets further than that.
Baseline == equity

DecideEntry ==
  /\ verdict' = IF \E l \in Latches : latch[l] THEN "LATCH_ACTIVE"
                  ELSE IF Baseline <= 0 THEN "BASELINE_EQUITY_ZERO_OR_NEGATIVE"
                  ELSE IF Baseline - equity > LossLimit THEN "DAILY_LOSS_LIMIT_EXCEEDED"
                  ELSE "INSTRUMENT_UNAVAILABLE"
  /\ UNCHANGED <<latch, flat, book, told, money>>

EmergencyNext ==
  \/ \E l \in Latches, active \in BOOLEAN : ChangeLatch(l, active)
  \/ \E trusted \in BOOLEAN : Flatten(trusted)
  \/ TellFills
  \/ TimeoutFlatten
  \/ ExitFills
  \/ EntryFills
  \/ MarkMoves
  \/ NewSession
  \/ DecideEntry

EmergencySpec == EmergencyInit /\ [][EmergencyNext]_emergencyVars
----------------------------------------------------------------------------
EmergencyTypeOK ==
  /\ latch \in [Latches -> BOOLEAN]
  /\ flat \in [status : Status, start : Nat, remaining : Nat] /\ flat.remaining <= flat.start
  /\ position \in Nat /\ working \in 0..EntryLots /\ told <= exited /\ equity \in Nat

\* Whatever order fills and timeouts are told in, a flatten says it succeeded
\* only once its exits really filled every lot it started with.
NoFalseFlat == flat.status = "SUCCEEDED" => exited >= flat.start

\* The lots it reports as remaining are never fewer than those still held of
\* the position it started with.
ResidualVisible == flat.remaining >= flat.start - exited

\* What a flatten says of itself is true of the lots (FlattenWorkflow).
FlattenTold == EmergencyTypeOK /\ NoFalseFlat /\ ResidualVisible

============================================================================
