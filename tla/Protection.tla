----------------------------- MODULE Protection -----------------------------
(***************************************************************************)
(* The native stops of one instrument (execution/protection.py): which     *)
(* group owns the position, and what a review of the stops observed at the *)
(* venue decides.  A group is the stop plan of one entry order.  A review  *)
(* is computed from an observation the venue may have left behind, and     *)
(* from the ledger and the ownership at the time it is committed; one      *)
(* window reviews every group.                                             *)
(*                                                                         *)
(* Bounds: MaxExec executions, MaxTicks of time, MaxStop lots of a stop.   *)
(***************************************************************************)
EXTENDS Integers, Sequences, SequencesExt, FiniteSetsExt, Lots

CONSTANTS Group, Side,     \* Side[g] is 1 for a buying entry, -1 for a selling one
          UnseenLots,      \* positions of the ledger nobody saw being opened
          Budget,          \* restoration_budget_ns
          Supported,       \* restoration_supported of the reviews
          MaxExec, MaxTicks, MaxStop

Nobody == "none"
Never == -1

ASSUME ProtectionAssumption ==
  /\ Group # {} /\ Nobody \notin Group
  /\ Side \in [Group -> {1, -1}] /\ UnseenLots \subseteq Int
  /\ Budget \in Nat \ {0} /\ Supported \subseteq BOOLEAN
  /\ {MaxExec, MaxTicks, MaxStop} \subseteq Nat

ProtectionStatus ==
  {"PENDING", "AWAITING_FLAT", "FLAT", "BLOCKED", "PROTECTED", "RESIZING", "RESTORING",
   "EXIT_REQUIRED", "OWNERSHIP_UNVERIFIED", "INACTIVE_PENDING_PROTECTION", "INACTIVE"}
ProtectionAction ==
  {"LATCH_ENTRIES", "RECONCILE", "CANCEL_STOP", "RESIZE_STOP", "RESTORE_STOP",
   "CANCEL_ENTRY_REMAINDER", "BOUNDED_REDUCE_ONLY_EXIT"}

VARIABLES
  ticks,
  execs,        \* executions of the venue: the group of an entry or Nobody, lots
  entries,      \* groups whose entry order is still open
  obs,          \* the observation under way to its review, or <<>>
  openingLots,  \* lots the ledger held before any execution
  bookings,     \* executions as the account writer booked them, each with the
                \* position it left
  stopOwner,    \* protection-ownership-v1: group, signed lots, executions known
  prot,         \* prot[g]: the last decision: status, desired lots, start of the
                \* failure and the actions it demands
  naked         \* naked[g]: when the present row of failing reviews began

stopVenue == <<execs, entries>>
stopLocal == <<openingLots, bookings, stopOwner, prot, naked>>
protectionVars == <<ticks, stopVenue, obs, stopLocal>>

VenueLots == FoldLeft(LAMBDA sum, e : sum + e.lots, 0, execs)

\* The position before the k-th booking, and now.
LotsBefore(k) == IF k = 1 THEN openingLots ELSE bookings[k - 1].after
LedgerLots == LotsBefore(Len(bookings) + 1)

SameSide(m, n) == (m > 0 /\ n > 0) \/ (m < 0 /\ n < 0)

Decision(status, desired, since, acts) ==
  [status |-> status, desired |-> desired, since |-> since, acts |-> acts]

ProtectionInit ==
  /\ ticks = 0 /\ execs = <<>> /\ entries = Group
  /\ obs = <<>>
  /\ bookings = <<>>
  /\ openingLots \in UnseenLots
  /\ stopOwner = [group |-> Nobody, lots |-> 0, known |-> {}]
  /\ prot = [g \in Group |-> Decision("PENDING", 0, Never, {})]
  /\ naked = [g \in Group |-> Never]
----------------------------------------------------------------------------
(* The venue.                                                              *)

\* An entry order executes a lot, or anything else trades the instrument.
Execute(group, lots) ==
  /\ Len(execs) < MaxExec
  /\ group # Nobody => group \in entries /\ lots = Side[group]
  /\ execs' = Append(execs, [group |-> group, lots |-> lots])
  /\ UNCHANGED <<ticks, entries, obs, stopLocal>>

EntryDone(g) ==
  /\ g \in entries /\ entries' = entries \ {g}
  /\ UNCHANGED <<ticks, execs, obs, stopLocal>>

ClockTicks ==
  /\ ticks < MaxTicks /\ ticks' = ticks + 1
  /\ UNCHANGED <<stopVenue, obs, stopLocal>>

\* What may be pending for a group: nothing, one stop, or two.
Legs == {<<>>} \cup {<<n>> : n \in 1 .. MaxStop} \cup {<<1, 1>>}

\* A read of positions, open orders and the stops, which appear, are
\* resized, triggered and canceled at the venue between two reads.
Observe(stops) ==
  /\ obs = <<>>
  /\ obs' = <<[lots |-> VenueLots, stops |-> stops, quiet |-> entries = {}, at |-> ticks]>>
  /\ UNCHANGED <<ticks, stopVenue, stopLocal>>
----------------------------------------------------------------------------
(* _execution_ownership.                                                   *)

\* Who owns the position after an execution of e.lots took it to `after`.
OwningGroup(e, after) ==
  LET before == after - e.lots
  IN  IF stopOwner.lots # before \/ after = 0 THEN Nobody
      ELSE IF ~SameSide(before, after) THEN e.group
      ELSE IF SameSide(before, e.lots) /\ e.group # stopOwner.group THEN Nobody
      ELSE stopOwner.group

\* The execution is booked, by either of its sources; a second copy changes
\* nothing.
Book(i) ==
  /\ IF i \in stopOwner.known
       THEN UNCHANGED <<bookings, stopOwner>>
       ELSE LET after == LedgerLots + execs[i].lots
            IN  /\ bookings' = Append(bookings, [exec |-> i, after |-> after])
                /\ stopOwner' = [stopOwner EXCEPT !.group = OwningGroup(execs[i], after),
                               !.lots = after, !.known = @ \cup {i}]
  /\ UNCHANGED <<ticks, stopVenue, obs, openingLots, prot, naked>>
----------------------------------------------------------------------------
(* ProtectionManager.evaluate.                                             *)

\* Usable stops are on the side of the position; the largest counts.
Usable(g, lots, o) == IF Side[g] * lots > 0 THEN o.stops[g] ELSE <<>>
Covered(g, lots, o) == Max(ToSet(Usable(g, lots, o)) \cup {0})

\* (faulty) any number of stops will do.
SeveralStops(g, lots, o) == Usable(g, lots, o) # <<>>

SingleStop(g, lots, o) == Len(Usable(g, lots, o)) = 1

Started(g, o) == IF prot[g].since # Never THEN prot[g].since ELSE o.at

Failing(g, lots, o) ==
  IF o.at - Started(g, o) >= Budget
    THEN Decision("EXIT_REQUIRED", Abs(lots), Started(g, o),
                  {"LATCH_ENTRIES", "CANCEL_ENTRY_REMAINDER", "BOUNDED_REDUCE_ONLY_EXIT"})
    ELSE Decision("RESTORING", Abs(lots), Started(g, o),
                  {"LATCH_ENTRIES", "CANCEL_ENTRY_REMAINDER", "RESTORE_STOP"})

EvaluateFlat(g, o, flat) ==
  IF ~flat
    THEN Decision("AWAITING_FLAT", 0, prot[g].since, {"LATCH_ENTRIES", "RECONCILE"})
    ELSE Decision("FLAT", 0, Never,
                  IF o.stops[g] = <<>> THEN {} ELSE {"CANCEL_STOP", "RECONCILE"})

EvaluateStops(g, lots, o, flat, capable) ==
  IF lots = 0 THEN EvaluateFlat(g, o, flat)
  ELSE IF ~capable
    THEN Decision("BLOCKED", Abs(lots), prot[g].since,
                  {"LATCH_ENTRIES", "CANCEL_ENTRY_REMAINDER", "BOUNDED_REDUCE_ONLY_EXIT"})
  ELSE IF SingleStop(g, lots, o) /\ Covered(g, lots, o) = Abs(lots)
    THEN Decision("PROTECTED", Abs(lots), Never, {})
  ELSE IF SingleStop(g, lots, o) /\ Covered(g, lots, o) > Abs(lots)
    THEN Decision("RESIZING", Abs(lots), prot[g].since, {"LATCH_ENTRIES", "RESIZE_STOP"})
  ELSE Failing(g, lots, o)
----------------------------------------------------------------------------
(* protection_reducer and protection_producer.                             *)

EntryFilled(g) == \E i \in stopOwner.known : execs[i].group = g

OwnedLots(g) == IF stopOwner.group = g /\ stopOwner.lots = LedgerLots THEN LedgerLots ELSE 0

Unowned(g, o) ==
  Decision("OWNERSHIP_UNVERIFIED", 0, prot[g].since, {"LATCH_ENTRIES", "RECONCILE"})

Owned(g, o, flat, capable) ==
  LET idle == o.stops[g] = <<>>
  IN  IF LedgerLots # 0 /\ (stopOwner.group = Nobody \/ stopOwner.lots # LedgerLots)
        THEN Unowned(g, o)
      ELSE IF LedgerLots # 0 /\ OwnedLots(g) = 0
        THEN IF idle THEN Decision("INACTIVE", 0, prot[g].since, {})
               ELSE Decision("INACTIVE_PENDING_PROTECTION", 0, prot[g].since,
                             {"LATCH_ENTRIES", "RECONCILE"})
      ELSE IF LedgerLots = 0 /\ idle /\ g \notin entries /\ ~EntryFilled(g)
        THEN Decision("INACTIVE", 0, prot[g].since, {})
      ELSE EvaluateStops(g, OwnedLots(g), o, flat, capable)

\* Without a way to restore a stop the demand becomes an exit.
Decide(g, o, flat, capable, supported) ==
  LET d == Owned(g, o, flat, capable)
  IN  IF ~supported /\ d.acts \cap {"RESTORE_STOP", "RESIZE_STOP"} # {}
        THEN [d EXCEPT !.status = "EXIT_REQUIRED",
                !.acts = {"LATCH_ENTRIES", "CANCEL_ENTRY_REMAINDER", "BOUNDED_REDUCE_ONLY_EXIT"}]
        ELSE d

\* Flat is verified by a converged recovery: venue and ledger hold nothing
\* and no order was open.
VerifiedFlat == obs[1].lots = 0 /\ LedgerLots = 0 /\ obs[1].quiet

\* One window reviews every group.
Review(capable, supported, flat) ==
  /\ obs # <<>>
  /\ flat => VerifiedFlat
  /\ prot' = [g \in Group |-> Decide(g, obs[1], flat, capable, supported)]
  /\ naked' = [g \in Group |->
       IF prot'[g].status \in {"PROTECTED", "FLAT"} THEN Never
       ELSE IF naked[g] = Never /\ prot'[g].status = "RESTORING" THEN obs[1].at
       ELSE naked[g]]
  /\ obs' = <<>>
  /\ UNCHANGED <<ticks, stopVenue, openingLots, bookings, stopOwner>>

ProtectionNext ==
  \/ \E group \in Group \cup {Nobody}, lots \in {1, -1} : Execute(group, lots)
  \/ \E g \in Group : EntryDone(g)
  \/ ClockTicks
  \/ \E stops \in [Group -> Legs] : Observe(stops)
  \/ \E i \in DOMAIN execs : Book(i)
  \/ \E capable \in BOOLEAN, supported \in Supported, flat \in BOOLEAN :
       Review(capable, supported, flat)

ProtectionSpec == ProtectionInit /\ [][ProtectionNext]_protectionVars
----------------------------------------------------------------------------
(* Properties.                                                             *)

ProtectionTypeOK ==
  /\ ticks \in 0 .. MaxTicks
  /\ entries \subseteq Group
  /\ execs \in Seq([group : Group \cup {Nobody}, lots : Int])
  /\ obs # <<>> => obs = <<obs[1]>>
  /\ \A o \in ToSet(obs) : o.at \in 0 .. ticks /\ o.stops \in [Group -> Legs]
  /\ openingLots \in Int
  /\ bookings \in Seq([exec : DOMAIN execs, after : Int])
  /\ stopOwner \in [group : Group \cup {Nobody}, lots : Int, known : SUBSET DOMAIN execs]
  /\ prot \in [Group -> [status : ProtectionStatus, desired : Nat,
                         since : {Never} \cup 0 .. MaxTicks, acts : SUBSET ProtectionAction]]
  /\ naked \in [Group -> {Never} \cup 0 .. MaxTicks]

\* Bookings that began, ended or turned an exposure, and that added to one.
Turned(k) == ~SameSide(LotsBefore(k), bookings[k].after)
Added(k) == SameSide(LotsBefore(k), bookings[k].after - LotsBefore(k))

\* Those that built the present exposure, and its lots nobody was seen buying.
Building ==
  {k \in DOMAIN bookings : /\ Turned(k) \/ Added(k)
                           /\ \A j \in DOMAIN bookings : j > k => ~Turned(j)}
Strangers == IF \E k \in DOMAIN bookings : Turned(k) THEN {} ELSE {Nobody}

\* Who took part in the exposure since the ledger was last flat or changed
\* sides: the groups of the executions that built it, Nobody for anyone else.
Builders ==
  IF LedgerLots = 0 THEN {}
    ELSE {execs[bookings[k].exec].group : k \in Building} \cup Strangers

\* A group owns the position only if it alone built the present exposure,
\* in whichever order executions were booked, repeated or aliased; each is
\* booked once.
OwnerBuiltIt ==
  /\ stopOwner.group # Nobody => Builders = {stopOwner.group} /\ stopOwner.lots = LedgerLots
  /\ stopOwner.known = {bookings[k].exec : k \in DOMAIN bookings}
  /\ \A j, k \in DOMAIN bookings : bookings[j].exec = bookings[k].exec => j = k

\* A committed review never passes over a position in silence: one group
\* holds it with a single stop of its size and side in the observation, or
\* a group demands that entries stay latched.
Committed == obs # <<>> /\ obs' = <<>>
NeverSilentlyNaked ==
  Committed =>
    \/ LedgerLots' = 0
    \/ \E g \in Group :
         /\ prot'[g].status = "PROTECTED" /\ stopOwner'.group = g
         /\ obs[1].stops[g] = <<Abs(LedgerLots')>>
    \/ \E g \in Group : "LATCH_ENTRIES" \in prot'[g].acts

\* No review asks to cancel a stop while the venue was seen to hold a
\* position: fills that were not booked yet count.
CancelOnlyFlat ==
  \A g \in Group : Committed /\ "CANCEL_STOP" \in prot'[g].acts =>
    LedgerLots' = 0 /\ obs[1].lots = 0

\* Restoring ends in an exit: no review is still restoring when the failure
\* is as old as the budget, whatever the reviews in between said.
RestorationBounded ==
  \A g \in Group : Committed /\ prot'[g].status = "RESTORING" =>
    obs[1].at - naked'[g] < Budget

\* Whatever was observed in whatever order, lots without a stop are being
\* repaired or an exit is demanded, within the budget of repairs; a stop goes
\* only once ledger and venue hold nothing, and its owner built the position
\* (ProtectionManager.evaluate, _execution_ownership).
ProtectionKept ==
  /\ [](ProtectionTypeOK /\ OwnerBuiltIt)
  /\ [][NeverSilentlyNaked /\ CancelOnlyFlat /\ RestorationBounded]_protectionVars
=============================================================================
