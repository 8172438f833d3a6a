----------------------------- MODULE OrderDesk -----------------------------
(***************************************************************************)
(* The account writer of one instrument: execution_reducer of              *)
(* execution/oms.py, which books every fact in the OMS and in the ledger   *)
(* in one engine cycle, with the router that sends its commands and the    *)
(* venue that answers late, twice, out of order or not at all.             *)
(*                                                                         *)
(* Every action of the writer is one committed cycle.  An execution is one *)
(* lot: the lots of an order are numbered 1 .. Qty[o] at the venue.        *)
(***************************************************************************)
EXTENDS OMS, FiniteSets

CONSTANTS Orders,       \* instruction identities, in reservation-id order
          Qty,          \* [Orders -> Nat \ {0}]    quantity_lots
          Side,         \* [Orders -> {"BUY", "SELL"}]
          ReduceOnly,   \* [Orders -> BOOLEAN]
          Owner,        \* [Orders -> strategies]   owner_strategy_id
          Replaces,     \* [Orders -> Orders]       o itself: no replacement
          NoOwner,
          Workloads     \* what may be asked of the desk: which orders, how many
                        \* cancels of each, how many fills of no known order

ASSUME DeskAssumption ==
  /\ Orders \subseteq Nat /\ IsFiniteSet(Orders) /\ Orders # {}
  /\ Qty \in [Orders -> Nat \ {0}]
  /\ Side \in [Orders -> {"BUY", "SELL"}]
  /\ ReduceOnly \in [Orders -> BOOLEAN]
  /\ Replaces \in [Orders -> Orders]
  /\ NoOwner \notin {Owner[o] : o \in Orders}
  /\ Workloads \subseteq [orders : SUBSET Orders, cancels : Nat, external : Nat]

VARIABLES load,       \* the workload of this behaviour
          approved,   \* client order ids of OMSState.orders
          orders,     \* OrderState with its commands
          seen,       \* native execution ids booked, per order
          linked,     \* those matched to the order (client_order_id known)
          position,   \* LedgerState: signed lots
          resv,       \* LedgerState.reservations: remaining, unresolved lots
          owner,      \* symbol_owners of the instrument
          io,         \* Router.dispatch_ready: the instruction in its loop
          vlife,      \* the order at the venue
          vcum,       \* lots the venue executed
          external    \* fills of no known order so far

writer == <<approved, orders, seen, linked, position, resv, owner>>
venue == <<vlife, vcum>>
vars == <<load, writer, io, venue, external>>

Idle == [phase |-> "idle", ord |-> CHOOSE o \in Orders : TRUE, cmd |-> 0]
Signed(o, lots) == IF Side[o] = "BUY" THEN lots ELSE -lots

TypeOK ==
  /\ load \in Workloads
  /\ approved \subseteq Orders
  /\ orders \in [Orders -> OrderState]
  /\ seen \in [Orders -> SUBSET Nat]
  /\ linked \in [Orders -> SUBSET Nat]
  /\ position \in Int
  /\ owner \in {Owner[o] : o \in Orders} \cup {NoOwner}
  /\ io \in [phase : {"idle", "granted", "sent"}, ord : Orders, cmd : Nat]
  /\ vlife \in [Orders -> {"NONE", "FLIGHT", "OPEN", "FILLED", "CANCELED", "REJECTED"}]
  /\ vcum \in [Orders -> Nat]
  /\ external \in Nat

Init ==
  /\ load \in Workloads
  /\ approved = {}
  /\ orders = [o \in Orders |-> NewOrder]
  /\ seen = [o \in Orders |-> {}]
  /\ linked = [o \in Orders |-> {}]
  /\ position = 0
  /\ resv = [o \in Orders |-> [rem |-> 0, unres |-> 0]]
  /\ owner = NoOwner
  /\ io = Idle
  /\ vlife = [o \in Orders |-> "NONE"]
  /\ vcum = [o \in Orders |-> 0]
  /\ external = 0
----------------------------------------------------------------------------
(* execution_reducer: what follows every fact in the same cycle.           *)

\* Lots of a reservation that compete for the closing pool.
Executable(r, q) == ReservedLots(r, q) - UnresolvedFillLots(r, q)

Eligible(o, pos) == (Side[o] = "SELL") = (pos > 0)

\* Reduce-only claims are served in reservation-id order from the lots the
\* position has; lots still missing their executions are kept on top.
Allowed(o, ords, known, pos) ==
  LET wanted == [p \in known |-> Executable(ords[p], Qty[p])]
      before == Total(wanted, {p \in known : ReduceOnly[p] /\ Eligible(p, pos) /\ p < o})
  IN  IF Eligible(o, pos) THEN Smaller(wanted[o], Larger(0, Abs(pos) - before)) ELSE 0

Reallocate(ords, known, pos) ==
  [o \in Orders |->
     IF o \notin known THEN [rem |-> 0, unres |-> 0]
     ELSE LET late == UnresolvedFillLots(ords[o], Qty[o])
          IN  [rem |-> late + (IF ReduceOnly[o] THEN Allowed(o, ords, known, pos)
                                                ELSE Executable(ords[o], Qty[o])),
               unres |-> late]]

\* (faulty) flat is enough.
ReleasedWhenFlat(ords, known, pos, held) ==
  IF pos = 0 /\ \A o \in known : ords[o].know = "CONFIRMED" THEN NoOwner ELSE held

\* An instrument loses its owner once flat with nothing unresolved.
ReleasedOwner(ords, known, pos, held) ==
  IF pos = 0 /\ \A o \in known : /\ ords[o].life \in TERMINAL
                                 /\ ReservedLots(ords[o], Qty[o]) = 0
                                 /\ ords[o].know = "CONFIRMED"
    THEN NoOwner ELSE held

\* _link_and_project: an execution reported under the venue id alone belongs
\* to the order as soon as the order knows its venue id.
Link(ords, booked, matched) ==
  [o \in Orders |-> IF ords[o].venue THEN booked[o] ELSE matched[o]]

ProjectAll(ords, matched) ==
  [o \in Orders |-> IF o \in approved
                      THEN Project(ords[o], Qty[o], Cardinality(matched[o]))
                      ELSE ords[o]]

\* One committed cycle on a known set of orders, executions and position.
Book(ords, booked, matched, pos) ==
  /\ seen' = booked
  /\ linked' = Link(ords, booked, matched)
  /\ orders' = ProjectAll(ords, linked')
  /\ position' = pos
  /\ resv' = Reallocate(orders', approved, pos)
  /\ owner' = ReleasedOwner(orders', approved, pos, owner)
  /\ UNCHANGED approved

Fact(o, r) == Book([orders EXCEPT ![o] = r], seen, linked, position)
----------------------------------------------------------------------------
(* OMS.approve.                                                            *)

\* (faulty) concurrent exits do not see each other.
NothingReserved == 0

ClosingReserved ==
  Total([p \in approved |-> resv[p].rem], {p \in approved : ReduceOnly[p]})

MayEnter(o) ==
  /\ \A p \in approved : orders[p].know = "CONFIRMED"
  /\ owner \in {NoOwner, Owner[o]}
  /\ position # 0 => (position > 0) = (Side[o] = "BUY")
  /\ \A p \in approved : ReduceOnly[p] => ReservedLots(orders[p], Qty[p]) = 0

MayClose(o) ==
  /\ (Side[o] = "SELL") = (position > 0)
  /\ Qty[o] <= Abs(position) - ClosingReserved

Approve(o) ==
  /\ o \in load.orders \ approved
  /\ IF ReduceOnly[o] THEN MayClose(o) ELSE MayEnter(o)
  /\ Replaces[o] # o =>
       /\ Replaces[o] \in approved
       /\ MayReplace(orders[Replaces[o]], Qty[Replaces[o]], Qty[o])
  /\ approved' = approved \cup {o}
  /\ resv' = Reallocate(orders, approved', position)
  /\ owner' = ReleasedOwner(orders, approved', position,
                            IF ReduceOnly[o] THEN owner ELSE Owner[o])
  /\ UNCHANGED <<orders, seen, linked, position, io, venue, external>>

CancelRequest(o) ==
  /\ o \in approved /\ ~CancelIgnored(orders[o])
  /\ Len(orders[o].can) < load.cancels
  /\ Fact(o, OnCancelRequested(orders[o]))
  /\ UNCHANGED <<io, venue, external>>
----------------------------------------------------------------------------
(* Router.dispatch_ready and DispatchAuthority, one instruction at a time. *)

Dispatchable(o, k) ==
  /\ orders[o].life \notin TERMINAL
  /\ orders[o].pend = IF k = 0 THEN "SUBMIT" ELSE "CANCEL"

Grant(o, k) ==
  /\ io.phase = "idle"
  /\ CommandOf(orders[o], k) = "PENDING" /\ Dispatchable(o, k)
  /\ Fact(o, OnDispatchStarted(orders[o], k))
  /\ io' = [phase |-> "granted", ord |-> o, cmd |-> k]
  /\ UNCHANGED <<venue, external>>

\* A queued instruction found expired is aborted without a permit.
ExpireQueued(o, k) ==
  /\ io.phase = "idle"
  /\ CommandOf(orders[o], k) = "PENDING"
  /\ Fact(o, OnUnsentAborted(orders[o], k, "EXPIRED"))
  /\ UNCHANGED <<io, venue, external>>

\* Preparation or the last check failed: abort_unsent with the permit.  A
\* command a report already resolved is left alone.
Abort(reason) ==
  LET o == io.ord  k == io.cmd IN
  /\ io.phase = "granted"
  /\ reason = "CANCELED" => k = 0 /\ orders[o].pend = "CANCEL"
  /\ IF CommandOf(orders[o], k) = "UNKNOWN"
       THEN Fact(o, OnUnsentAborted(orders[o], k, reason))
       ELSE UNCHANGED writer
  /\ io' = Idle
  /\ UNCHANGED <<venue, external>>

\* consume and handoff, with no await between them.
Handoff ==
  LET o == io.ord  k == io.cmd IN
  /\ io.phase = "granted"
  /\ Dispatchable(o, k) /\ CommandOf(orders[o], k) = "UNKNOWN"
  /\ io' = [io EXCEPT !.phase = "sent"]
  /\ vlife' = IF k = 0 THEN [vlife EXCEPT ![o] = "FLIGHT"] ELSE vlife
  /\ UNCHANGED <<writer, vcum, external>>

\* The response, a timeout or a broken connection, observed once.
Observe(result) ==
  LET o == io.ord  k == io.cmd IN
  /\ io.phase = "sent"
  /\ k = 0 => /\ result = "ACCEPTED" => vlife[o] \in {"OPEN", "FILLED", "CANCELED"}
              /\ result = "VENUE_REJECTED" => vlife[o] = "REJECTED"
  /\ Fact(o, IF k = 0 THEN OnSubmitResult(orders[o], result)
                      ELSE OnCancelResult(orders[o], k, result))
  /\ io' = Idle
  /\ UNCHANGED <<venue, external>>

\* Permits live in the process; commands and orders are durable.
Crash ==
  /\ io.phase # "idle"
  /\ io' = Idle
  /\ UNCHANGED <<writer, venue, external>>
----------------------------------------------------------------------------
(* The venue.  It does not enforce reduce-only: the code's own reservations *)
(* must be enough.                                                          *)

VenueReceive(o) ==
  /\ vlife[o] = "FLIGHT"
  /\ \E l \in {"OPEN", "REJECTED"} : vlife' = [vlife EXCEPT ![o] = l]
  /\ UNCHANGED <<writer, io, vcum, external>>

VenueFill(o) ==
  /\ vlife[o] = "OPEN"
  /\ vcum' = [vcum EXCEPT ![o] = @ + 1]
  /\ vlife' = [vlife EXCEPT ![o] = IF vcum[o] + 1 = Qty[o] THEN "FILLED" ELSE "OPEN"]
  /\ UNCHANGED <<writer, io, external>>

VenueCancel(o) ==
  /\ vlife[o] = "OPEN"
  /\ vlife' = [vlife EXCEPT ![o] = "CANCELED"]
  /\ UNCHANGED <<writer, io, vcum, external>>

\* What the venue may have said of the order so far: any snapshot it went
\* through, delivered any number of times and in any order.
Snapshots(o) ==
  (IF vlife[o] \in {"OPEN", "FILLED", "CANCELED"}
     THEN {<<IF c = 0 THEN "OPEN" ELSE "PARTIALLY_FILLED", c>> :
             c \in 0 .. Smaller(vcum[o], Qty[o] - 1)} ELSE {})
  \cup (IF vlife[o] \in TERMINAL THEN {<<vlife[o], vcum[o]>>} ELSE {})

Report(o, status, lots) ==
  /\ <<status, lots>> \in Snapshots(o)
  /\ Fact(o, OnOrderReport(orders[o], Qty[o], status, lots, TRUE))
  /\ UNCHANGED <<io, venue, external>>

\* Execution i of the order, under its client id, its venue id, or both.
Execution(o, i, client, venueId) ==
  LET known == client \/ orders[o].venue
      r     == IF known THEN OnExecution(orders[o], venueId) ELSE orders[o]
  IN  /\ client \/ venueId
      /\ Book([orders EXCEPT ![o] = r],
              [seen EXCEPT ![o] = @ \cup {i}],
              [linked EXCEPT ![o] = IF client THEN @ \cup {i} ELSE @],
              IF i \in seen[o] THEN position ELSE position + Signed(o, 1))
      /\ UNCHANGED <<io, venue, external>>

\* A fill of no order the writer knows: a liquidation, another session.
ExternalFill(lots) ==
  /\ external < load.external
  /\ external' = external + 1
  /\ Book(orders, seen, linked, position + lots)
  /\ UNCHANGED <<io, venue>>
----------------------------------------------------------------------------
Dispatch ==
  \/ \E o \in approved : \E k \in 0 .. Len(orders[o].can) :
       Grant(o, k) \/ ExpireQueued(o, k)
  \/ \E reason \in AbortReason : Abort(reason)
  \/ Handoff
  \/ \E result \in TransportResult : Observe(result)

VenueReports ==
  \E o \in approved :
    \/ \E s \in Snapshots(o) : Report(o, s[1], s[2])
    \/ \E i \in 1 .. vcum[o], client, venueId \in BOOLEAN :
         Execution(o, i, client, venueId)

VenueStep ==
  \E o \in approved : VenueReceive(o) \/ VenueFill(o) \/ VenueCancel(o)

Next ==
  /\ UNCHANGED load
  /\ \/ \E o \in Orders : Approve(o) \/ CancelRequest(o)
     \/ Dispatch \/ Crash \/ VenueReports \/ VenueStep
     \/ \E lots \in {-1, 1} : ExternalFill(lots)

Spec == Init /\ [][Next]_vars

\* Recovery keeps asking the venue for the outcome of an order and for its
\* executions, so what the venue knows arrives in the end.
Fairness ==
  \A o \in Orders :
    /\ WF_vars(/\ o \in approved /\ vlife[o] \in TERMINAL
               /\ Report(o, vlife[o], vcum[o]) /\ UNCHANGED load)
    /\ \A i \in 1 .. Qty[o] :
         WF_vars(/\ o \in approved /\ i <= vcum[o]
                 /\ Execution(o, i, TRUE, TRUE) /\ UNCHANGED load)

FairSpec == Spec /\ Fairness
----------------------------------------------------------------------------
(* Properties.                                                             *)

\* Every fact leaves every order at a fixed point of the projection, so that
\* recomputing the others (or replaying the early returns, which skip it)
\* never revises an order or its reservation.
ProjectionFixpoint ==
  \A o \in approved : Project(orders[o], Qty[o], Cardinality(linked[o])) = orders[o]

\* The ledger's closing pool holds after every fact, unmatched and external
\* fills included: a late fill is never refused for what an exit reserved.
ClosingPool ==
  LET closing == {o \in approved : ReduceOnly[o] /\ resv[o].rem > resv[o].unres}
  IN  /\ \A o \in closing : Eligible(o, position)
      /\ Total([o \in closing |-> resv[o].rem - resv[o].unres], closing) <= Abs(position)

\* Lots the venue has executed or may still execute, counting an order that
\* may still be handed off.
MayBeSent(o) ==
  /\ orders[o].life \notin TERMINAL
  /\ \/ orders[o].sub = "PENDING"
     \/ io.phase = "granted" /\ io.ord = o /\ io.cmd = 0

MayFill(o) ==
  IF vlife[o] \in {"FLIGHT", "OPEN"} \/ MayBeSent(o) THEN Qty[o] ELSE vcum[o]

\* Money for an entry stays reserved while the venue may fill it and until
\* every fill is booked: no timeout, restart, stale report, cancel race or
\* unsent abort releases it early.
ReserveCoversExposure ==
  \A o \in approved : ~ReduceOnly[o] =>
    MayFill(o) - Cardinality(linked[o]) <= resv[o].rem

\* The instrument keeps its owner while an entry may still fill, or fills of
\* it are not booked, or the position it built is open.
OwnerHeld ==
  owner = NoOwner => \A o \in approved : ~ReduceOnly[o] =>
    MayFill(o) = Cardinality(linked[o])

\* Exits reserve from the position before they are sent, so that together
\* they never close more than there is, even at a venue that does not enforce
\* reduce-only (where every entry buys and nobody else trades).
OnSide(side) == {o \in Orders : Side[o] = side}
VenuePosition == Total(vcum, OnSide("BUY")) - Total(vcum, OnSide("SELL"))

OnlyBuysEnter == external = 0 /\ \A o \in approved : ~ReduceOnly[o] => Side[o] = "BUY"
ExitsNeverOverClose == OnlyBuysEnter => VenuePosition >= 0

\* A replacement and the order it replaces never fill more than the original
\* quantity, whatever fills of the original were still on their way.
ReplacementWithinOriginal ==
  \A o \in approved : Replaces[o] # o => MayFill(o) + vcum[Replaces[o]] <= Qty[Replaces[o]]

\* At most one cancel attempt is open, and it is the last, so a response can
\* never be booked on another attempt than the one it answers.  Only a venue
\* rejection of the submission leaves one behind, and then unsent.
OneOpenCancel ==
  \A o \in approved : \A k \in DOMAIN orders[o].can :
    orders[o].can[k] \in Unresolved =>
      /\ k = Len(orders[o].can)
      /\ \/ orders[o].pend = "CANCEL"
         \/ orders[o].life = "REJECTED" /\ orders[o].can[k] = "PENDING"

\* What is reserved is a number of lots, and exits never close more than there
\* is, in the ledger and at the venue.
ExitsWithinPosition ==
  /\ resv \in [Orders -> [rem : Nat, unres : Nat]]
  /\ ClosingPool /\ ExitsNeverOverClose

\* An order that ended stays ended; the only later news is that it filled.
TerminalStable ==
  [][\A o \in approved : orders[o].life \in TERMINAL =>
       orders'[o].life \in {orders[o].life, "FILLED"}]_vars

\* The records of the desk agree with each other through every interleaving
\* of answers, reports, crashes and cancels (ProjectionFixpoint,
\* OneOpenCancel, ReplacementWithinOriginal, TerminalStable).
RecordsAgree ==
  /\ [](TypeOK /\ ProjectionFixpoint /\ OneOpenCancel /\ ReplacementWithinOriginal)
  /\ TerminalStable

\* Once the venue is done with an order its outcome is certain, every fill is
\* booked and nothing stays reserved, whatever was lost on the way.
Settles ==
  \A o \in Orders : (o \in approved /\ vlife[o] \in TERMINAL) ~>
    (orders[o].life \in TERMINAL /\ orders[o].know = "CONFIRMED" /\ resv[o].rem = 0)

\* EventStore.commit refuses any other status change, and a refusal
\* latches the engine.
OutboxTransition ==
  {"PENDING"} \X (CommandStatus \ {"PENDING"})
  \cup {"UNKNOWN"} \X {"SENT", "EXPIRED", "BLOCKED", "REJECTED", "RESOLVED", "CANCELED"}
  \cup {"SENT"} \X {"UNKNOWN", "RESOLVED"}

OutboxNeverRefuses ==
  [][\A o \in approved : \A k \in 0 .. Len(orders[o].can) :
       LET was == CommandOf(orders[o], k)  is == CommandOf(orders'[o], k)
       IN  was # is => <<was, is>> \in OutboxTransition]_vars
============================================================================
