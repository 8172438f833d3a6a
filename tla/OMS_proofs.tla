----------------------------- MODULE OMS_proofs -----------------------------
(***************************************************************************)
(* What a fact may do to an order, for every fact and every order: it      *)
(* keeps the record well typed, never puts a claimed command back in the   *)
(* queue, and never writes a command off as unsent but the one it names.   *)
(***************************************************************************)
EXTENDS OMS, SequenceTheorems, TLAPS

\* The commands of an order: its submission and its cancel attempts.
Cmds(r) == {0} \cup DOMAIN r.can

\* An order may still be waiting for the outcome of these.
Open == {"PENDING", "UNKNOWN"}

\* t has the commands of r, none of them back in the queue; only commands of
\* `off` are newly written off, and only commands of `again` are newly open.
Keeps(r, t, off, again) ==
  /\ Len(r.can) = Len(t.can)
  /\ r.started => t.started
  /\ \A k \in Cmds(r) :
       /\ CommandOf(t, k) = "PENDING" => CommandOf(r, k) = "PENDING"
       /\ CommandOf(t, k) \in WrittenOff => CommandOf(r, k) \in WrittenOff \/ k \in off
       /\ CommandOf(t, k) \in Open => CommandOf(r, k) \in Open \/ k \in again

\* Only the last cancel attempt can be open.
LastOpen(r) ==
  \A k \in DOMAIN r.can : /\ r.can[k] # "CANCELED"
                          /\ r.can[k] \in Unresolved => k = Len(r.can)

\* What every fact does to an order.
Evolves(r, t, off, again) ==
  /\ t \in OrderState
  /\ Keeps(r, t, off, again)
  /\ LastOpen(r) => LastOpen(t)

\* Settling commands keeps the type and the number of attempts.
LEMMA ResolveType ==
  ASSUME NEW r \in OrderState
  PROVE  /\ ResolveCommands(r) \in OrderState
         /\ ResolveSubmit(r) \in OrderState
         /\ Len(ResolveCommands(r).can) = Len(r.can)
         /\ DOMAIN ResolveCommands(r).can = DOMAIN r.can
         /\ \A k \in DOMAIN r.can : ResolveCommands(r).can[k] = Settle(r.can[k])
<1> DEFINE c == [k \in DOMAIN r.can |-> Settle(r.can[k])]
<1>1. /\ r.can \in Seq(CommandStatus) /\ r.sub \in CommandStatus
  BY DEF OrderState
<1>2. /\ Len(r.can) \in Nat /\ DOMAIN r.can = 1 .. Len(r.can)
      /\ \A k \in 1 .. Len(r.can) : r.can[k] \in CommandStatus
  BY <1>1, LenProperties, ElementOfSeq
<1>3. \A s \in CommandStatus : Settle(s) \in CommandStatus
  BY DEF Settle, CommandStatus
<1>4. c \in [1 .. Len(r.can) -> CommandStatus]
  BY <1>2, <1>3
<1>5. c \in Seq(CommandStatus) /\ Len(c) = Len(r.can)
  BY <1>2, <1>4
<1>6. QED
  BY <1>1, <1>2, <1>3, <1>5 DEF OrderState, ResolveCommands, ResolveSubmit

\* The parts of an order record and their types.
LEMMA OrderParts ==
  ASSUME NEW r \in OrderState
  PROVE  /\ r.life \in Lifecycle /\ r.pend \in PendingAction /\ r.know \in Knowledge
         /\ r.rep \in Nat /\ r.acc \in Nat /\ r.started \in BOOLEAN /\ r.venue \in BOOLEAN
         /\ r.sub \in CommandStatus /\ r.can \in Seq(CommandStatus)
         /\ Len(r.can) \in Nat /\ DOMAIN r.can = 1 .. Len(r.can)
         /\ \A k \in 1 .. Len(r.can) : r.can[k] \in CommandStatus
<1>1. r.can \in Seq(CommandStatus)
  BY DEF OrderState
<1>2. QED
  BY <1>1, LenProperties, ElementOfSeq DEF OrderState

\* Settling the commands of an order only closes some of them.
LEMMA ResolveEvolves ==
  ASSUME NEW r \in OrderState
  PROVE  /\ Evolves(r, ResolveCommands(r), {}, {})
         /\ Evolves(r, ResolveSubmit(r), {}, {})
<1> USE DEF CommandOf, Settle, Unresolved, WrittenOff, Open
<1>1. /\ ResolveCommands(r).started = r.started /\ ResolveSubmit(r).started = r.started
      /\ ResolveCommands(r).sub = Settle(r.sub) /\ ResolveSubmit(r).sub = Settle(r.sub)
      /\ ResolveSubmit(r).can = r.can
  BY DEF ResolveCommands, ResolveSubmit, OrderState
<1>2. Keeps(r, ResolveCommands(r), {}, {})
  BY <1>1, ResolveType, OrderParts DEF Keeps, Cmds
<1>3. Keeps(r, ResolveSubmit(r), {}, {})
  BY <1>1, ResolveType, OrderParts DEF Keeps, Cmds
<1>4. LastOpen(r) => LastOpen(ResolveCommands(r)) /\ LastOpen(ResolveSubmit(r))
  BY <1>1, ResolveType, OrderParts DEF LastOpen
<1>5. QED
  BY <1>2, <1>3, <1>4, ResolveType DEF Evolves

\* Two orders with the same commands evolve alike.
LEMMA SameCommands ==
  ASSUME NEW r, NEW s, NEW t, NEW off, NEW again,
         Evolves(r, s, off, again), t \in OrderState,
         t.can = s.can, t.sub = s.sub, s.started => t.started
  PROVE  Evolves(r, t, off, again)
  BY DEF Evolves, Keeps, LastOpen, CommandOf, Cmds

\* An order that stays as it is.
LEMMA Unchanged ==
  ASSUME NEW r \in OrderState
  PROVE  Evolves(r, r, {}, {})
  BY OrderParts DEF Evolves, Keeps

-----------------------------------------------------------------------------
(* The facts, one by one.                                                  *)

\* OrderReport.
LEMMA ReportEvolves ==
  ASSUME NEW r \in OrderState, NEW q \in Nat, NEW status \in Lifecycle,
         NEW lots \in Nat, NEW hasVenue \in BOOLEAN
  PROVE  Evolves(r, OnOrderReport(r, q, status, lots, hasVenue), {}, {})
<1> DEFINE cum  == IF status = "FILLED" THEN Larger(Larger(r.rep, lots), q)
                                        ELSE Larger(r.rep, lots)
           life == ReportedLife(r, q, status, cum)
           s    == IF life \in TERMINAL THEN ResolveCommands(r) ELSE ResolveSubmit(r)
           pend == IF life \in TERMINAL \/ r.pend = "SUBMIT" THEN "NONE" ELSE r.pend
           t    == [s EXCEPT !.venue = r.venue \/ hasVenue, !.life = life, !.rep = cum,
                             !.pend = pend, !.know = "CONFIRMED", !.started = TRUE]
<1>1. /\ cum \in Nat /\ life \in Lifecycle /\ pend \in PendingAction
      /\ (r.venue \/ hasVenue) \in BOOLEAN /\ "CONFIRMED" \in Knowledge
  BY OrderParts DEF Larger, ReportedLife, Lifecycle, PendingAction, Knowledge
<1>2. Evolves(r, s, {}, {}) /\ s \in OrderState
  BY ResolveEvolves, ResolveType
<1>3. OnOrderReport(r, q, status, lots, hasVenue) = t
  BY DEF OnOrderReport
<1> HIDE DEF cum, life, s, pend
<1>4. t \in OrderState /\ t.can = s.can /\ t.sub = s.sub /\ t.started
  BY <1>1, <1>2 DEF OrderState
<1>5. QED
  BY <1>2, <1>3, <1>4, SameCommands

\* SubmitTransportResult: the submission may be open again, nothing else.
LEMMA SubmitResultEvolves ==
  ASSUME NEW r \in OrderState, NEW result \in TransportResult
  PROVE  Evolves(r, OnSubmitResult(r, result), {}, {0})
<1> DEFINE t == [r EXCEPT !.sub = StatusOf(result), !.started = TRUE,
                   !.venue = r.venue \/ result = "ACCEPTED",
                   !.know = IF result = "AMBIGUOUS" THEN "UNCERTAIN" ELSE "CONFIRMED",
                   !.life = IF result = "VENUE_REJECTED" THEN "REJECTED" ELSE r.life,
                   !.pend = IF result = "VENUE_REJECTED" THEN "NONE" ELSE r.pend]
<1>1. CASE ~SubmitOpen(r)
  BY <1>1, Unchanged DEF OnSubmitResult, Evolves, Keeps
<1>2. CASE SubmitOpen(r)
  <2>1. StatusOf(result) \in {"SENT", "REJECTED", "UNKNOWN"}
    BY DEF StatusOf, TransportResult
  <2>2. /\ StatusOf(result) \in CommandStatus
        /\ (r.venue \/ result = "ACCEPTED") \in BOOLEAN
        /\ (IF result = "AMBIGUOUS" THEN "UNCERTAIN" ELSE "CONFIRMED") \in Knowledge
        /\ (IF result = "VENUE_REJECTED" THEN "REJECTED" ELSE r.life) \in Lifecycle
        /\ (IF result = "VENUE_REJECTED" THEN "NONE" ELSE r.pend) \in PendingAction
    BY <2>1, OrderParts DEF CommandStatus, Knowledge, Lifecycle, PendingAction
  <2> HIDE DEF t
  <2>3. t \in OrderState
    BY <2>2 DEF OrderState, t
  <2>4. t.can = r.can /\ t.sub = StatusOf(result) /\ t.started
    BY DEF OrderState, t
  <2>5. Keeps(r, t, {}, {0})
    BY <2>1, <2>4, OrderParts DEF Keeps, Cmds, CommandOf, WrittenOff, Open
  <2>6. OnSubmitResult(r, result) = t
    BY <1>2 DEF OnSubmitResult, t
  <2>7. QED
    BY <2>3, <2>4, <2>5, <2>6 DEF Evolves, LastOpen
<1>3. QED
  BY <1>1, <1>2

\* Writing one command of the order.
LEMMA SetCommandParts ==
  ASSUME NEW r \in OrderState, NEW k \in Cmds(r), NEW status \in CommandStatus
  PROVE  /\ SetCommand(r, k, status) \in OrderState
         /\ DOMAIN SetCommand(r, k, status).can = DOMAIN r.can
         /\ Len(SetCommand(r, k, status).can) = Len(r.can)
         /\ SetCommand(r, k, status).started = r.started
         /\ SetCommand(r, k, status).life = r.life
         /\ SetCommand(r, k, status).pend = r.pend
         /\ CommandOf(SetCommand(r, k, status), k) = status
         /\ \A j \in Cmds(r) \ {k} : CommandOf(SetCommand(r, k, status), j) = CommandOf(r, j)
<1>1. CASE k = 0
  BY <1>1, OrderParts DEF SetCommand, CommandOf, Cmds, OrderState
<1>2. CASE k # 0
  <2> DEFINE c == [r.can EXCEPT ![k] = status]
  <2>1. k \in 1 .. Len(r.can)
    BY <1>2, OrderParts DEF Cmds
  <2>2. /\ c \in Seq(CommandStatus) /\ Len(c) = Len(r.can)
        /\ \A j \in 1 .. Len(r.can) : c[j] = IF j = k THEN status ELSE r.can[j]
    BY <2>1, OrderParts, ExceptSeq
  <2>3. DOMAIN c = DOMAIN r.can
    OBVIOUS
  <2>4. SetCommand(r, k, status) = [r EXCEPT !.can = c]
    BY <1>2 DEF SetCommand
  <2> HIDE DEF c
  <2>5. QED
    BY <1>2, <2>1, <2>2, <2>3, <2>4, OrderParts DEF CommandOf, Cmds, OrderState
<1>3. QED
  BY <1>1, <1>2

\* DispatchStarted claims a queued command and starts the transport.
LEMMA DispatchStartedEvolves ==
  ASSUME NEW r \in OrderState, NEW k \in Cmds(r), CommandOf(r, k) = "PENDING"
  PROVE  /\ Evolves(r, OnDispatchStarted(r, k), {}, {})
         /\ CommandOf(OnDispatchStarted(r, k), k) = "UNKNOWN"
         /\ OnDispatchStarted(r, k).started
<1> DEFINE s == SetCommand(r, k, "UNKNOWN")
           t == [s EXCEPT !.know = "UNCERTAIN", !.started = TRUE]
<1>1. "UNKNOWN" \in CommandStatus /\ "UNCERTAIN" \in Knowledge
  BY DEF CommandStatus, Knowledge
<1>2. /\ s \in OrderState /\ DOMAIN s.can = DOMAIN r.can /\ Len(s.can) = Len(r.can)
      /\ CommandOf(s, k) = "UNKNOWN"
      /\ \A j \in Cmds(r) \ {k} : CommandOf(s, j) = CommandOf(r, j)
  BY <1>1, SetCommandParts
<1> HIDE DEF s
<1>3. t \in OrderState /\ t.can = s.can /\ t.sub = s.sub /\ t.started
  BY <1>1, <1>2 DEF OrderState
<1> HIDE DEF t
<1>4. \A j \in Cmds(r) : CommandOf(t, j) = IF j = k THEN "UNKNOWN" ELSE CommandOf(r, j)
  BY <1>2, <1>3 DEF CommandOf
<1>5. Keeps(r, t, {}, {})
  <2>1. Len(r.can) = Len(t.can)
    BY <1>2, <1>3, OrderParts
  <2>2. QED
    BY <2>1, <1>3, <1>4 DEF Keeps, WrittenOff, Open
<1>6. LastOpen(r) => LastOpen(t)
  <2> SUFFICES ASSUME LastOpen(r), NEW j \in DOMAIN t.can
               PROVE  t.can[j] # "CANCELED" /\ (t.can[j] \in Unresolved => j = Len(t.can))
    BY DEF LastOpen
  <2>1. j \in DOMAIN r.can /\ j # 0
    BY <1>2, <1>3, OrderParts
  <2>2. CommandOf(t, j) = t.can[j] /\ CommandOf(r, j) = r.can[j]
    BY <2>1 DEF CommandOf
  <2>3. r.can[j] # "CANCELED" /\ (r.can[j] \in Unresolved => j = Len(r.can))
    BY <2>1 DEF LastOpen
  <2>4. QED
    BY <2>1, <2>2, <2>3, <1>2, <1>3, <1>4 DEF Unresolved, Cmds
<1>7. OnDispatchStarted(r, k) = t
  BY DEF OnDispatchStarted, t, s
<1>8. QED
  BY <1>3, <1>4, <1>5, <1>6, <1>7 DEF Evolves

\* UnsentAborted writes off the command it names and no other.
LEMMA UnsentAbortedEvolves ==
  ASSUME NEW r \in OrderState, NEW k \in Cmds(r), NEW reason \in AbortReason
  PROVE  Evolves(r, OnUnsentAborted(r, k, reason), {k}, {})
<1>1. CASE k = 0
  <2> DEFINE sub  == IF reason = "DISPATCH_INVALIDATED" THEN "BLOCKED" ELSE reason
             life == IF reason = "DISPATCH_INVALIDATED" THEN "REJECTED" ELSE reason
             s    == [r EXCEPT !.sub = sub, !.life = life, !.know = "CONFIRMED",
                               !.pend = "NONE"]
  <2>1. /\ sub \in CommandStatus /\ sub \in WrittenOff /\ life \in Lifecycle
        /\ "CONFIRMED" \in Knowledge /\ "NONE" \in PendingAction
    BY DEF AbortReason, CommandStatus, WrittenOff, Lifecycle, Knowledge, PendingAction
  <2>2. OnUnsentAborted(r, k, reason) = ResolveCommands(s)
    BY <1>1 DEF OnUnsentAborted
  <2> HIDE DEF sub, life
  <2>3. s \in OrderState /\ s.can = r.can /\ s.sub = sub /\ s.started = r.started
    BY <2>1 DEF OrderState
  <2> HIDE DEF s
  <2>4. Evolves(r, s, {k}, {})
    BY <1>1, <2>1, <2>3, OrderParts
    DEF Evolves, Keeps, LastOpen, Cmds, CommandOf, WrittenOff, Open
  <2>5. Evolves(s, ResolveCommands(s), {}, {})
    BY <2>3, ResolveEvolves
  <2>6. Cmds(s) = Cmds(r) /\ Len(s.can) = Len(r.can)
    BY <2>3 DEF Cmds
  <2>7. Keeps(r, ResolveCommands(s), {k}, {})
    BY <2>3, <2>4, <2>5, <2>6 DEF Evolves, Keeps
  <2>8. QED
    BY <2>2, <2>4, <2>5, <2>7 DEF Evolves
<1>2. CASE k # 0
  <2> DEFINE status == IF reason = "EXPIRED" THEN "EXPIRED" ELSE "BLOCKED"
             s == SetCommand(r, k, status)
             t == [s EXCEPT !.know = "CONFIRMED", !.pend = "NONE"]
  <2>1. /\ status \in CommandStatus /\ status \in {"EXPIRED", "BLOCKED"}
        /\ "CONFIRMED" \in Knowledge /\ "NONE" \in PendingAction
    BY DEF CommandStatus, Knowledge, PendingAction
  <2> HIDE DEF status
  <2>2. /\ s \in OrderState /\ DOMAIN s.can = DOMAIN r.can /\ Len(s.can) = Len(r.can)
        /\ CommandOf(s, k) = status /\ s.started = r.started
        /\ \A j \in Cmds(r) \ {k} : CommandOf(s, j) = CommandOf(r, j)
    BY <2>1, SetCommandParts
  <2> HIDE DEF s
  <2>3. t \in OrderState /\ t.can = s.can /\ t.sub = s.sub /\ t.started = s.started
    BY <2>1, <2>2 DEF OrderState
  <2> HIDE DEF t
  <2>4. \A j \in Cmds(r) : CommandOf(t, j) = IF j = k THEN status ELSE CommandOf(r, j)
    BY <2>2, <2>3 DEF CommandOf
  <2>5. Keeps(r, t, {k}, {})
    <3>1. Len(r.can) = Len(t.can)
      BY <2>2, <2>3, OrderParts
    <3>2. QED
      BY <3>1, <2>1, <2>2, <2>3, <2>4 DEF Keeps, WrittenOff, Open
  <2>6. LastOpen(r) => LastOpen(t)
    <3> SUFFICES ASSUME LastOpen(r), NEW j \in DOMAIN t.can
                 PROVE  t.can[j] # "CANCELED" /\ (t.can[j] \in Unresolved => j = Len(t.can))
      BY DEF LastOpen
    <3>1. j \in DOMAIN r.can /\ j # 0
      BY <2>2, <2>3, OrderParts
    <3>2. CommandOf(t, j) = t.can[j] /\ CommandOf(r, j) = r.can[j]
      BY <3>1 DEF CommandOf
    <3>3. r.can[j] # "CANCELED" /\ (r.can[j] \in Unresolved => j = Len(r.can))
      BY <3>1 DEF LastOpen
    <3>4. QED
      BY <3>1, <3>2, <3>3, <2>1, <2>2, <2>3, <2>4 DEF Unresolved, Cmds
  <2>7. OnUnsentAborted(r, k, reason) = t
    BY <1>2 DEF OnUnsentAborted, t, s, status
  <2>8. QED
    BY <2>3, <2>5, <2>6, <2>7 DEF Evolves
<1>3. QED
  BY <1>1, <1>2

\* CancelTransportResult touches the last attempt, which it may open again.
LEMMA CancelResultEvolves ==
  ASSUME NEW r \in OrderState, NEW k \in DOMAIN r.can, NEW result \in TransportResult
  PROVE  Evolves(r, OnCancelResult(r, k, result), {},
                 IF r.pend = "CANCEL" /\ r.can[k] \in Unresolved \cup {"CANCELED"}
                   THEN {Len(r.can)} ELSE {})
<1> DEFINE again == IF r.pend = "CANCEL" /\ r.can[k] \in Unresolved \cup {"CANCELED"}
                      THEN {Len(r.can)} ELSE {}
           late == r.pend # "CANCEL" \/ r.can[k] \in {"REJECTED", "RESOLVED", "EXPIRED", "BLOCKED"}
<1>1. CASE late
  BY <1>1, Unchanged DEF OnCancelResult, Evolves, Keeps
<1>2. CASE ~late
  <2> DEFINE n == Len(r.can)
             status == StatusOf(result)
             s == SetCommand(r, n, status)
             pend == IF result = "VENUE_REJECTED" THEN "NONE" ELSE r.pend
             know == IF result = "AMBIGUOUS" THEN "UNCERTAIN" ELSE "CONFIRMED"
             t == [s EXCEPT !.pend = pend, !.know = know]
  <2>1. n \in DOMAIN r.can /\ n \in Cmds(r) /\ n # 0
    BY OrderParts DEF Cmds
  <2>2. status \in {"SENT", "REJECTED", "UNKNOWN"}
    BY DEF StatusOf, TransportResult
  <2>3. status \in CommandStatus /\ pend \in PendingAction /\ know \in Knowledge
    BY <2>2, OrderParts DEF CommandStatus, PendingAction, Knowledge
  <2>4. again = {n}
    BY <1>2, OrderParts DEF CommandStatus, Unresolved
  <2> HIDE DEF status, pend, know, again, late
  <2>5. /\ s \in OrderState /\ DOMAIN s.can = DOMAIN r.can /\ Len(s.can) = Len(r.can)
        /\ CommandOf(s, n) = status /\ s.started = r.started
        /\ \A j \in Cmds(r) \ {n} : CommandOf(s, j) = CommandOf(r, j)
    BY <2>1, <2>3, SetCommandParts
  <2>6. s = [r EXCEPT !.can = [r.can EXCEPT ![n] = status]]
    BY <2>1 DEF SetCommand
  <2>7. OnCancelResult(r, k, result) = t
    <3>1. OnCancelResult(r, k, result)
          = [r EXCEPT !.can = [r.can EXCEPT ![n] = status], !.pend = pend, !.know = know]
      BY <1>2 DEF OnCancelResult, late, status, pend, know
    <3>2. QED
      BY <3>1, <2>6
  <2> HIDE DEF s
  <2>8. t \in OrderState /\ t.can = s.can /\ t.sub = s.sub /\ t.started = s.started
    BY <2>3, <2>5 DEF OrderState
  <2> HIDE DEF t
  <2>9. \A j \in Cmds(r) : CommandOf(t, j) = IF j = n THEN status ELSE CommandOf(r, j)
    BY <2>5, <2>8 DEF CommandOf
  <2>10. Keeps(r, t, {}, again)
    <3>1. Len(r.can) = Len(t.can)
      BY <2>5, <2>8, OrderParts
    <3>2. QED
      BY <3>1, <2>2, <2>4, <2>5, <2>8, <2>9 DEF Keeps, WrittenOff, Open
  <2>11. LastOpen(r) => LastOpen(t)
    <3> SUFFICES ASSUME LastOpen(r), NEW j \in DOMAIN t.can
                 PROVE  t.can[j] # "CANCELED" /\ (t.can[j] \in Unresolved => j = Len(t.can))
      BY DEF LastOpen
    <3>1. j \in DOMAIN r.can /\ j # 0
      BY <2>5, <2>8, OrderParts
    <3>2. CommandOf(t, j) = t.can[j] /\ CommandOf(r, j) = r.can[j]
      BY <3>1 DEF CommandOf
    <3>3. r.can[j] # "CANCELED" /\ (r.can[j] \in Unresolved => j = n)
      BY <3>1 DEF LastOpen
    <3>4. QED
      BY <3>1, <3>2, <3>3, <2>2, <2>5, <2>8, <2>9 DEF Cmds
  <2>12. QED
    BY <2>7, <2>8, <2>10, <2>11 DEF Evolves, again
<1>3. QED
  BY <1>1, <1>2

\* An order that is not over shows that a cancel attempt of it is open.
CancelShown(r) ==
  r.life \notin TERMINAL /\ HasCancel(r, Unresolved) => r.pend = "CANCEL"

\* CancelRequested of an order whose transport never started: the submission
\* is written off on the spot.
LEMMA CancelUnstarted ==
  ASSUME NEW r \in OrderState, ~r.started, ~CancelIgnored(r)
  PROVE  Evolves(r, OnCancelRequested(r), {0}, {})
<1> DEFINE t == [r EXCEPT !.sub = "CANCELED", !.life = "CANCELED", !.pend = "NONE"]
<1>1. "CANCELED" \in CommandStatus /\ "CANCELED" \in Lifecycle /\ "NONE" \in PendingAction
  BY DEF CommandStatus, Lifecycle, PendingAction
<1>2. t \in OrderState /\ t.can = r.can /\ t.sub = "CANCELED" /\ t.started = r.started
  BY <1>1 DEF OrderState
<1>3. OnCancelRequested(r) = t
  BY DEF OnCancelRequested
<1> HIDE DEF t
<1>4. QED
  BY <1>2, <1>3, OrderParts DEF Evolves, Keeps, LastOpen, Cmds, CommandOf, WrittenOff, Open

\* CancelRequested of any other order: one more attempt, queued as the last.
LEMMA CancelQueued ==
  ASSUME NEW r \in OrderState, r.started, CancelShown(r), ~CancelIgnored(r)
  PROVE  LET t == OnCancelRequested(r) IN
         /\ t \in OrderState /\ t.started = r.started /\ t.sub = r.sub
         /\ t.can = Append(r.can, "PENDING") /\ Len(t.can) = Len(r.can) + 1
         /\ \A k \in Cmds(r) : CommandOf(t, k) = CommandOf(r, k)
         /\ LastOpen(r) => LastOpen(t)
<1> DEFINE c == Append(r.can, "PENDING")
           t == [r EXCEPT !.can = c, !.pend = "CANCEL"]
<1>1. "PENDING" \in CommandStatus /\ "CANCEL" \in PendingAction
  BY DEF CommandStatus, PendingAction
<1>2. /\ c \in Seq(CommandStatus) /\ Len(c) = Len(r.can) + 1
      /\ \A j \in 1 .. Len(r.can) : c[j] = r.can[j]
      /\ c[Len(r.can) + 1] = "PENDING"
  BY <1>1, OrderParts, AppendProperties
<1>3. DOMAIN c = 1 .. Len(r.can) + 1
  BY <1>2, LenProperties
<1>4. OnCancelRequested(r) = t
  BY DEF OnCancelRequested
<1> HIDE DEF c
<1>5. t \in OrderState /\ t.can = c /\ t.sub = r.sub /\ t.started = r.started
  BY <1>1, <1>2 DEF OrderState
<1> HIDE DEF t
<1>6. \A j \in Cmds(r) : CommandOf(t, j) = CommandOf(r, j)
  BY <1>2, <1>5, OrderParts DEF Cmds, CommandOf
<1>7. LastOpen(r) => LastOpen(t)
  <2>1. \A j \in DOMAIN r.can : r.can[j] \notin Unresolved
    BY DEF CancelShown, CancelIgnored, HasCancel
  <2>2. QED
    BY <2>1, <1>2, <1>3, <1>5, OrderParts DEF LastOpen, Unresolved
<1>8. QED
  BY <1>2, <1>4, <1>5, <1>6, <1>7 DEF c

\* The projection of an order that is not filled leaves its commands alone
\* and shows the open cancel.
LEMMA ProjectEvolves ==
  ASSUME NEW r \in OrderState, NEW q \in Nat, NEW accounted \in Nat
  PROVE  /\ Evolves(r, Project(r, q, accounted), {}, {})
         /\ CancelShown(Project(r, q, accounted))
         /\ accounted < q => /\ Project(r, q, accounted).can = r.can
                             /\ Project(r, q, accounted).sub = r.sub
                             /\ Project(r, q, accounted).started = r.started
<1> DEFINE s    == IF accounted >= q THEN ResolveCommands(r) ELSE r
           life == ProjectedLife(r, q, accounted)
           know == ProjectedKnowledge(s, q, life, accounted)
           pend == ProjectedPending(s, life)
           t    == [s EXCEPT !.acc = accounted, !.life = life, !.know = know, !.pend = pend]
<1>1. /\ life \in Lifecycle /\ know \in Knowledge /\ pend \in PendingAction
  BY OrderParts DEF ProjectedLife, ProjectedKnowledge, ProjectedPending,
                    Lifecycle, Knowledge, PendingAction
<1>2. s \in OrderState /\ Evolves(r, s, {}, {})
  BY ResolveEvolves, ResolveType, Unchanged
<1>3. accounted < q => s = r
  OBVIOUS
<1>4. pend = ProjectedPending(s, life)
  OBVIOUS
<1>5. Project(r, q, accounted) = t
  BY DEF Project
<1> HIDE DEF s, life, know, pend
<1>6. /\ t \in OrderState /\ t.can = s.can /\ t.sub = s.sub /\ t.started = s.started
      /\ t.life = life /\ t.pend = pend
  BY <1>1, <1>2 DEF OrderState
<1> HIDE DEF t
<1>7. Evolves(r, t, {}, {})
  BY <1>2, <1>6, SameCommands
<1>8. CancelShown(t)
  BY <1>4, <1>6 DEF CancelShown, HasCancel, ProjectedPending
<1>9. QED
  BY <1>3, <1>5, <1>6, <1>7, <1>8

=============================================================================
