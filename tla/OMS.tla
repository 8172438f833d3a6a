-------------------------------- MODULE OMS --------------------------------
(***************************************************************************)
(* One order of the account writer: the independent lifecycle, pending     *)
(* action, knowledge and economic evidence of execution/order_state.py and *)
(* the facts execution/oms.py applies to it.  Every operator is pure: it   *)
(* maps the record of an order, with its submit and cancel commands, to    *)
(* the record the same fact leaves.                                        *)
(*                                                                         *)
(* A fact changes one order first; Project is the recomputation that       *)
(* OMS.apply runs over every order after any fact.                         *)
(***************************************************************************)
EXTENDS Integers, Sequences, Lots

Lifecycle == {"CREATED", "OPEN", "PARTIALLY_FILLED", "FILLED",
              "CANCELED", "REJECTED", "EXPIRED"}
PendingAction == {"NONE", "SUBMIT", "CANCEL"}
Knowledge == {"CONFIRMED", "UNCERTAIN", "RECONCILING"}
TERMINAL == {"FILLED", "CANCELED", "REJECTED", "EXPIRED"}

\* The outbox statuses of a command, and the ones whose outcome is open.
CommandStatus == {"PENDING", "UNKNOWN", "SENT", "REJECTED", "RESOLVED",
                  "EXPIRED", "CANCELED", "BLOCKED"}
Unresolved == {"PENDING", "UNKNOWN", "SENT"}

\* The statuses that release an order because its command was never sent.
WrittenOff == {"EXPIRED", "CANCELED", "BLOCKED"}

\* A transport answer, and the reason a permit is given back unsent.
TransportResult == {"ACCEPTED", "VENUE_REJECTED", "AMBIGUOUS"}
AbortReason == {"EXPIRED", "CANCELED", "DISPATCH_INVALIDATED"}

\* life, pend, know, rep, acc: the fields of OrderState.  started is
\* transport_started, venue says whether the venue order id is known, sub is
\* the status of the submit command and can[k] that of the k-th cancel.
OrderState ==
  [life : Lifecycle, pend : PendingAction, know : Knowledge,
   rep : Nat, acc : Nat, started : BOOLEAN, venue : BOOLEAN,
   sub : CommandStatus, can : Seq(CommandStatus)]

\* OrderState and its PENDING submit command as OMS.approve creates them.
NewOrder ==
  [life |-> "CREATED", pend |-> "SUBMIT", know |-> "CONFIRMED",
   rep |-> 0, acc |-> 0, started |-> FALSE, venue |-> FALSE,
   sub |-> "PENDING", can |-> <<>>]
----------------------------------------------------------------------------
(* What an order still ties up, for an order of q lots.                    *)

RemainingLots(r, q) == Larger(0, q - r.acc)

\* Fills the venue reported whose executions have not been booked.
UnresolvedFillLots(r, q) ==
  Larger(0, (IF r.life = "FILLED" THEN Larger(r.rep, q) ELSE r.rep) - r.acc)

\* (faulty) an ended order reserves nothing.
ReservedUntilTerminal(r, q) ==
  IF r.life \in TERMINAL THEN 0
    ELSE Larger(RemainingLots(r, q), UnresolvedFillLots(r, q))

ReservedLots(r, q) ==
  IF r.life \in TERMINAL
    THEN UnresolvedFillLots(r, q)
    ELSE Larger(RemainingLots(r, q), UnresolvedFillLots(r, q))

CanceledRemainderLots(r, q) ==
  IF r.life \in TERMINAL \ {"FILLED"}
    THEN Larger(0, q - Larger(r.rep, r.acc)) ELSE 0

\* OMS.replace_order: the instruction of `lots` may replace order r.
MayReplace(r, q, lots) ==
  /\ r.know = "CONFIRMED" /\ r.pend = "NONE" /\ r.life = "CANCELED"
  /\ ReservedLots(r, q) = 0
  /\ lots <= CanceledRemainderLots(r, q)
----------------------------------------------------------------------------
(* Commands.                                                               *)

Settle(status) == IF status \in Unresolved THEN "RESOLVED" ELSE status

ResolveSubmit(r) == [r EXCEPT !.sub = Settle(r.sub)]

ResolveCommands(r) ==
  [r EXCEPT !.sub = Settle(r.sub),
            !.can = [k \in DOMAIN r.can |-> Settle(r.can[k])]]

HasCancel(r, statuses) == \E k \in DOMAIN r.can : r.can[k] \in statuses

\* (faulty) a command without an answer is queued again.
RetryOnTimeout(result) ==
  CASE result = "ACCEPTED" -> "SENT"
    [] result = "VENUE_REJECTED" -> "REJECTED"
    [] result = "AMBIGUOUS" -> "PENDING"

StatusOf(result) ==
  CASE result = "ACCEPTED" -> "SENT"
    [] result = "VENUE_REJECTED" -> "REJECTED"
    [] result = "AMBIGUOUS" -> "UNKNOWN"
----------------------------------------------------------------------------
(* OMS._link_and_project for one order whose linked executions add up to   *)
(* accounted lots.                                                         *)

ProjectedLife(r, q, accounted) ==
  IF accounted >= q THEN "FILLED"
  ELSE IF accounted > 0 /\ r.life \notin TERMINAL THEN "PARTIALLY_FILLED"
  ELSE r.life

ProjectedKnowledge(r, q, life, accounted) ==
  IF \/ Larger(r.rep, IF life = "FILLED" THEN q ELSE 0) > accounted
     \/ Larger(accounted, r.rep) > q
    THEN "RECONCILING"
    ELSE IF r.sub = "UNKNOWN" \/ HasCancel(r, {"UNKNOWN"})
           THEN "UNCERTAIN" ELSE "CONFIRMED"

ProjectedPending(r, life) ==
  IF life \in TERMINAL THEN "NONE"
  ELSE IF HasCancel(r, Unresolved) THEN "CANCEL"
  ELSE IF r.sub \in Unresolved THEN "SUBMIT" ELSE "NONE"

Project(r, q, accounted) ==
  LET s    == IF accounted >= q THEN ResolveCommands(r) ELSE r
      life == ProjectedLife(r, q, accounted)
  IN  [s EXCEPT !.acc = accounted, !.life = life,
                !.know = ProjectedKnowledge(s, q, life, accounted),
                !.pend = ProjectedPending(s, life)]
----------------------------------------------------------------------------
(* The facts of OMS.apply, before the projection.                          *)

\* (faulty) the last report wins.
LastReportWins(r, q, status, cum) == IF r.acc >= q THEN "FILLED" ELSE status

\* OrderReport: a stale report never regresses the lifecycle or the fills.
ReportedLife(r, q, status, cum) ==
  LET kept == IF r.life \in TERMINAL /\ status # "FILLED" THEN r.life ELSE status
  IN  IF r.acc >= q THEN "FILLED"
      ELSE IF kept = "OPEN" /\ (r.acc > 0 \/ cum > 0 \/ r.life = "PARTIALLY_FILLED")
        THEN "PARTIALLY_FILLED" ELSE kept

OnOrderReport(r, q, status, lots, hasVenue) ==
  LET cum  == IF status = "FILLED" THEN Larger(Larger(r.rep, lots), q)
                                   ELSE Larger(r.rep, lots)
      life == ReportedLife(r, q, status, cum)
      s    == IF life \in TERMINAL THEN ResolveCommands(r) ELSE ResolveSubmit(r)
  IN  [s EXCEPT !.venue = r.venue \/ hasVenue, !.life = life, !.rep = cum,
                !.pend = IF life \in TERMINAL \/ r.pend = "SUBMIT"
                           THEN "NONE" ELSE r.pend,
                !.know = "CONFIRMED", !.started = TRUE]

\* SubmitTransportResult: ignored once a report established the outcome.
\* (faulty) a late answer is always booked.
AlwaysOpen(r) == TRUE

SubmitOpen(r) == r.sub \in Unresolved

OnSubmitResult(r, result) ==
  IF ~SubmitOpen(r) THEN r
  ELSE [r EXCEPT !.sub = StatusOf(result), !.started = TRUE,
                 !.venue = r.venue \/ result = "ACCEPTED",
                 !.know = IF result = "AMBIGUOUS" THEN "UNCERTAIN" ELSE "CONFIRMED",
                 !.life = IF result = "VENUE_REJECTED" THEN "REJECTED" ELSE r.life,
                 !.pend = IF result = "VENUE_REJECTED" THEN "NONE" ELSE r.pend]

\* CancelRequested with a fresh identity: an order whose transport never
\* started is canceled on the spot, any other gets a cancel command.
CancelIgnored(r) == r.life \in TERMINAL \/ r.pend = "CANCEL"

OnCancelRequested(r) ==
  IF CancelIgnored(r) THEN r
  ELSE IF ~r.started
    THEN [r EXCEPT !.sub = "CANCELED", !.life = "CANCELED", !.pend = "NONE"]
    ELSE [r EXCEPT !.can = Append(r.can, "PENDING"), !.pend = "CANCEL"]

\* CancelTransportResult of attempt k.  The status lands on the LAST cancel.
OnCancelResult(r, k, result) ==
  IF r.pend # "CANCEL" \/ r.can[k] \in {"REJECTED", "RESOLVED", "EXPIRED", "BLOCKED"}
    THEN r
    ELSE [r EXCEPT !.can = [r.can EXCEPT ![Len(r.can)] = StatusOf(result)],
                   !.pend = IF result = "VENUE_REJECTED" THEN "NONE" ELSE r.pend,
                   !.know = IF result = "AMBIGUOUS" THEN "UNCERTAIN" ELSE "CONFIRMED"]

\* DispatchStarted of command k; k = 0 is the submission.
CommandOf(r, k) == IF k = 0 THEN r.sub ELSE r.can[k]

SetCommand(r, k, status) ==
  IF k = 0 THEN [r EXCEPT !.sub = status]
           ELSE [r EXCEPT !.can = [r.can EXCEPT ![k] = status]]

OnDispatchStarted(r, k) ==
  [SetCommand(r, k, "UNKNOWN") EXCEPT !.know = "UNCERTAIN", !.started = TRUE]

\* UnsentAborted of command k: a submission ends the order and settles the
\* cancels queued behind it; a cancel only loses its own command.
OnUnsentAborted(r, k, reason) ==
  IF k = 0
    THEN ResolveCommands(
           [r EXCEPT !.sub  = IF reason = "DISPATCH_INVALIDATED" THEN "BLOCKED" ELSE reason,
                     !.life = IF reason = "DISPATCH_INVALIDATED" THEN "REJECTED" ELSE reason,
                     !.know = "CONFIRMED", !.pend = "NONE"])
    ELSE [SetCommand(r, k, IF reason = "EXPIRED" THEN "EXPIRED" ELSE "BLOCKED")
            EXCEPT !.know = "CONFIRMED", !.pend = "NONE"]

\* ExecutionReport matched to the order (OMS._execution).
OnExecution(r, hasVenue) ==
  [ResolveSubmit(r) EXCEPT !.venue = r.venue \/ hasVenue, !.know = "CONFIRMED",
                           !.pend = IF r.pend = "SUBMIT" THEN "NONE" ELSE r.pend,
                           !.started = TRUE]
============================================================================
