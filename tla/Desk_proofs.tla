---------------------------- MODULE Desk_proofs ----------------------------
(***************************************************************************)
(* Whatever is lost, late or repeated, the records of the desk agree with  *)
(* what the venue did: money stays reserved while an entry may fill, the   *)
(* instrument keeps its owner, an ended order stays ended and the outbox   *)
(* never refuses a change, for any orders, quantities and workloads.       *)
(***************************************************************************)
EXTENDS OrderDesk, OMS_proofs, FiniteSetTheorems, FunctionTheorems, NaturalsInduction,
        WellFoundedInduction

VenueLife == {"NONE", "FLIGHT", "OPEN", "FILLED", "CANCELED", "REJECTED"}

\* The life of an order of q lots at the venue, which executed vc of them.
VenueSound(q, vl, vc) ==
  /\ q \in Nat \ {0} /\ vl \in VenueLife /\ vc \in 0 .. q
  /\ vl \in {"OPEN", "CANCELED"} => vc < q
  /\ vl = "FILLED" => vc = q
  /\ vl \in {"NONE", "FLIGHT", "REJECTED"} => vc = 0

\* An order that ended was never sent, or ended so at the venue, and then it
\* knows how much was filled.
EndsAsVenue(r, vl, vc) ==
  /\ r.rep <= vc
  /\ r.life = "FILLED" => vl = "FILLED"
  /\ r.life \in TERMINAL \ {"FILLED"} => vl = "NONE" \/ (vl = r.life /\ r.rep = vc)

\* An ended order waits for nothing, but for a queued cancel of a rejected
\* one; what is queued was not sent; only what is queued was not started.
CommandsSound(r, vl) ==
  /\ LastOpen(r)
  /\ r.life \in TERMINAL => r.sub \notin Unresolved
  /\ r.life \in TERMINAL => \A k \in DOMAIN r.can : r.can[k] \in Unresolved =>
                                  r.life = "REJECTED" /\ r.can[k] = "PENDING"
  /\ r.sub = "PENDING" => vl = "NONE" /\ ~r.started /\ DOMAIN r.can = {}
  /\ ~r.started => r.sub = "PENDING" \/ r.life \in TERMINAL

\* A record a fact may leave before the projection, and after it.
Plausible(r, vl, vc) ==
  r \in OrderState /\ EndsAsVenue(r, vl, vc) /\ CommandsSound(r, vl)
Shown(r, q, vl, vc, n) ==
  Plausible(r, vl, vc) /\ Project(r, q, n) = r

\* What the outbox and the lifecycle allow from r to t.
Transition(was, is) ==
  \/ was = is
  \/ was = "PENDING"
  \/ was = "UNKNOWN" /\ is \in {"SENT", "EXPIRED", "BLOCKED", "REJECTED", "RESOLVED", "CANCELED"}
  \/ was = "SENT" /\ is \in {"UNKNOWN", "RESOLVED"}
Moves(r, t) ==
  /\ Cmds(r) \subseteq Cmds(t)
  /\ \A k \in Cmds(r) : Transition(CommandOf(r, k), CommandOf(t, k))
LifeKept(r, t) == r.life \in TERMINAL => t.life \in {r.life, "FILLED"}
Becomes(r, t, vl, vc) ==
  Plausible(t, vl, vc) /\ Moves(r, t) /\ LifeKept(r, t) /\ (r.venue => t.venue)

\* No command is newly on its way or answered.
Quiet(r, t) ==
  \A k \in Cmds(t) : CommandOf(t, k) \in {"UNKNOWN", "SENT"} =>
    k \in Cmds(r) /\ CommandOf(r, k) = CommandOf(t, k)

\* Command k is with the router: it was claimed and has no answer yet, and a
\* submission on its way has no cancel that was sent.
InFlight(r, k) ==
  /\ k \in Cmds(r)
  /\ k # 0 => CommandOf(r, k) \notin {"PENDING", "SENT"}
  /\ k = 0 => /\ r.sub \notin {"PENDING", "SENT"}
              /\ \A j \in DOMAIN r.can : r.can[j] \notin {"UNKNOWN", "SENT"}
-----------------------------------------------------------------------------
(* The projection.                                                         *)

\* Two order records with the same parts are the same.
LEMMA SameOrder ==
  ASSUME NEW r \in OrderState, NEW t \in OrderState,
         r.life = t.life, r.pend = t.pend, r.know = t.know, r.rep = t.rep, r.acc = t.acc,
         r.started = t.started, r.venue = t.venue, r.sub = t.sub, r.can = t.can
  PROVE  r = t
  BY DEF OrderState

\* What settling the commands of an order leaves alone.
LEMMA ResolveParts ==
  ASSUME NEW r \in OrderState
  PROVE  LET c == ResolveCommands(r)  s == ResolveSubmit(r) IN
         /\ c.life = r.life /\ c.pend = r.pend /\ c.know = r.know /\ c.rep = r.rep
         /\ c.acc = r.acc /\ c.started = r.started /\ c.venue = r.venue
         /\ s.life = r.life /\ s.pend = r.pend /\ s.know = r.know /\ s.rep = r.rep
         /\ s.acc = r.acc /\ s.started = r.started /\ s.venue = r.venue
         /\ c.sub = Settle(r.sub) /\ s.sub = Settle(r.sub) /\ s.can = r.can
  BY DEF OrderState, ResolveCommands, ResolveSubmit

\* Settling twice is settling once.
LEMMA SettleTwice ==
  ASSUME NEW s \in CommandStatus
  PROVE  /\ Settle(s) \in CommandStatus \ Unresolved
         /\ Transition(s, Settle(s))
         /\ s \notin Unresolved => Settle(s) = s
         /\ Settle(s) # s => Settle(s) = "RESOLVED"
  BY DEF Settle, Unresolved, CommandStatus, Transition

\* Transitions followed by settling are transitions.
LEMMA SettleAfter ==
  ASSUME NEW was \in CommandStatus, NEW is \in CommandStatus, NEW end \in CommandStatus,
         Transition(was, is), end \in {is, Settle(is)}
  PROVE  Transition(was, end)
  BY DEF Transition, Settle, Unresolved, CommandStatus

\* The parts of a projected order.
LEMMA ProjectParts ==
  ASSUME NEW r \in OrderState, NEW q \in Nat \ {0}, NEW n \in 0 .. q
  PROVE  LET u == Project(r, q, n)
             s == IF n = q THEN ResolveCommands(r) ELSE r IN
         /\ u \in OrderState /\ CancelShown(u) /\ s \in OrderState
         /\ u.acc = n /\ u.rep = r.rep /\ u.started = r.started /\ u.venue = r.venue
         /\ u.sub = s.sub /\ u.can = s.can
         /\ u.life = ProjectedLife(r, q, n)
         /\ u.know = ProjectedKnowledge(s, q, u.life, n)
         /\ u.pend = ProjectedPending(s, u.life)
<1> DEFINE s    == IF n = q THEN ResolveCommands(r) ELSE r
           life == ProjectedLife(r, q, n)
           know == ProjectedKnowledge(s, q, life, n)
           pend == ProjectedPending(s, life)
           u    == [s EXCEPT !.acc = n, !.life = life, !.know = know, !.pend = pend]
<1>1. /\ q \in Nat /\ n \in Nat /\ (n >= q) = (n = q)
      /\ s \in OrderState /\ s.rep = r.rep /\ s.started = r.started /\ s.venue = r.venue
  BY ResolveType, ResolveParts
<1>2. Project(r, q, n) = u
  BY <1>1 DEF Project
<1>3. u \in OrderState /\ CancelShown(u)
  BY <1>1, <1>2, ProjectEvolves DEF Evolves
<1> HIDE DEF s, life, know, pend
<1>4. /\ u.acc = n /\ u.rep = s.rep /\ u.started = s.started /\ u.venue = s.venue
      /\ u.sub = s.sub /\ u.can = s.can /\ u.life = life /\ u.know = know /\ u.pend = pend
  BY <1>1 DEF OrderState
<1>5. QED
  BY <1>1, <1>2, <1>3, <1>4 DEF s, life, know, pend

\* Projecting twice is projecting once.
LEMMA ProjectTwice ==
  ASSUME NEW r \in OrderState, NEW q \in Nat \ {0}, NEW n \in 0 .. q
  PROVE  Project(Project(r, q, n), q, n) = Project(r, q, n)
<1> DEFINE u == Project(r, q, n)
           v == Project(u, q, n)
           s == IF n = q THEN ResolveCommands(r) ELSE r
           w == IF n = q THEN ResolveCommands(u) ELSE u
<1>1. /\ u \in OrderState /\ u.acc = n /\ u.rep = r.rep /\ s \in OrderState
      /\ u.started = r.started /\ u.venue = r.venue /\ u.sub = s.sub /\ u.can = s.can
      /\ u.life = ProjectedLife(r, q, n) /\ u.know = ProjectedKnowledge(s, q, u.life, n)
      /\ u.pend = ProjectedPending(s, u.life)
  BY ProjectParts
<1>2. /\ v \in OrderState /\ v.acc = n /\ v.rep = u.rep /\ w \in OrderState
      /\ v.started = u.started /\ v.venue = u.venue /\ v.sub = w.sub /\ v.can = w.can
      /\ v.life = ProjectedLife(u, q, n) /\ v.know = ProjectedKnowledge(w, q, v.life, n)
      /\ v.pend = ProjectedPending(w, v.life)
  BY <1>1, ProjectParts
<1>3. s.rep = r.rep /\ w.rep = u.rep
  BY <1>1, ResolveParts
<1> HIDE DEF v
<1>4. w.sub = u.sub /\ w.can = u.can
  <2>1. CASE n = q
    <3>1. u.sub = Settle(r.sub) /\ w.sub = Settle(u.sub) /\ r.sub \in CommandStatus
      BY <1>1, <2>1, ResolveParts, OrderParts
    <3>2. u.can = ResolveCommands(r).can /\ w.can = ResolveCommands(u).can
      BY <1>1, <2>1
    <3>3. /\ DOMAIN u.can = DOMAIN r.can /\ DOMAIN w.can = DOMAIN u.can
          /\ \A k \in DOMAIN r.can : u.can[k] = Settle(r.can[k]) /\ w.can[k] = Settle(u.can[k])
                                     /\ r.can[k] \in CommandStatus
      BY <1>1, <3>2, ResolveType, OrderParts
    <3>4. \A k \in DOMAIN u.can : w.can[k] = u.can[k]
      BY <3>3, SettleTwice
    <3>5. w.can \in Seq(CommandStatus) /\ u.can \in Seq(CommandStatus)
      BY <1>1, <1>2 DEF OrderState
    <3>6. w.can = u.can
      BY <3>3, <3>4, <3>5, SeqEqual, LenProperties
    <3>7. QED
      BY <3>1, <3>6, SettleTwice
  <2>2. QED
    BY <2>1
<1> HIDE DEF u, s, w
<1>5. v.life = u.life
  BY <1>1, <1>2 DEF ProjectedLife, TERMINAL
<1>6. v.know = u.know
  BY <1>1, <1>2, <1>3, <1>4, <1>5 DEF ProjectedKnowledge, HasCancel
<1>7. v.pend = u.pend
  BY <1>1, <1>2, <1>4, <1>5 DEF ProjectedPending, HasCancel
<1>8. QED
  BY <1>1, <1>2, <1>4, <1>5, <1>6, <1>7, SameOrder DEF u, v
\* The projection keeps what a fact left plausible.
LEMMA ProjectKeeps ==
  ASSUME NEW r, NEW q, NEW vl, NEW vc, NEW n \in 0 .. vc,
         VenueSound(q, vl, vc), Plausible(r, vl, vc)
  PROVE  LET u == Project(r, q, n) IN
         /\ Shown(u, q, vl, vc, n) /\ Becomes(r, u, vl, vc) /\ Quiet(r, u)
         /\ u.venue = r.venue
         /\ \A k \in Cmds(r) : CommandOf(u, k) \in {CommandOf(r, k), Settle(CommandOf(r, k))}
         /\ Cmds(u) = Cmds(r)
<1> DEFINE u == Project(r, q, n)
           s == IF n = q THEN ResolveCommands(r) ELSE r
<1>1. /\ r \in OrderState /\ q \in Nat \ {0} /\ n \in 0 .. q /\ vc \in 0 .. q
      /\ n = q => vl = "FILLED" /\ vc = q
  BY DEF Plausible, VenueSound, VenueLife
<1>2. /\ u \in OrderState /\ CancelShown(u) /\ s \in OrderState
      /\ u.acc = n /\ u.rep = r.rep /\ u.started = r.started /\ u.venue = r.venue
      /\ u.sub = s.sub /\ u.can = s.can
      /\ u.life = ProjectedLife(r, q, n)
  BY <1>1, ProjectParts
<1>3. Project(u, q, n) = u
  BY <1>1, ProjectTwice
<1>4. /\ DOMAIN u.can = DOMAIN r.can
      /\ u.sub \in {r.sub, Settle(r.sub)}
      /\ \A k \in DOMAIN r.can : u.can[k] \in {r.can[k], Settle(r.can[k])}
      /\ n = q => u.sub = Settle(r.sub) /\ \A k \in DOMAIN r.can : u.can[k] = Settle(r.can[k])
      /\ n # q => u.sub = r.sub /\ u.can = r.can
  BY <1>1, <1>2, ResolveType, ResolveParts
<1>5. /\ r.sub \in CommandStatus /\ \A k \in DOMAIN r.can : r.can[k] \in CommandStatus
      /\ r.life \in Lifecycle
  BY <1>1, OrderParts
<1>6. /\ n = q => u.life = "FILLED"
      /\ n # q => u.life = r.life \/ (u.life = "PARTIALLY_FILLED" /\ r.life \notin TERMINAL)
      /\ n # q => (u.life \in TERMINAL <=> r.life \in TERMINAL)
  BY <1>1, <1>2 DEF ProjectedLife, TERMINAL
<1> HIDE DEF u, s
<1>7. EndsAsVenue(u, vl, vc)
  BY <1>1, <1>2, <1>5, <1>6 DEF Plausible, EndsAsVenue, TERMINAL
<1>8. CommandsSound(u, vl)
  <2>1. LastOpen(u)
    <3>1. LastOpen(r) => LastOpen(u)
      BY <1>1, ProjectEvolves DEF Evolves, u
    <3>2. QED
      BY <3>1 DEF Plausible, CommandsSound
  <2>2. /\ \A x \in CommandStatus : Settle(x) \notin Unresolved /\ Settle(x) # "PENDING"
        /\ "PENDING" \in Unresolved /\ "FILLED" \in TERMINAL
    BY SettleTwice DEF Unresolved, TERMINAL
  <2>3. u.sub = "PENDING" => n # q /\ r.sub = "PENDING"
    BY <1>4, <1>5, <2>2
  <2>4. CASE n = q
    BY <1>2, <1>4, <1>5, <1>6, <2>1, <2>2, <2>3, <2>4 DEF CommandsSound, Plausible
  <2>5. CASE n # q
    BY <1>2, <1>4, <1>6, <2>1, <2>3, <2>5 DEF CommandsSound, Plausible, TERMINAL
  <2>6. QED
    BY <2>4, <2>5
<1>9. Cmds(u) = Cmds(r)
  BY <1>4 DEF Cmds
<1>10. \A k \in Cmds(r) : /\ CommandOf(u, k) \in {CommandOf(r, k), Settle(CommandOf(r, k))}
                          /\ CommandOf(r, k) \in CommandStatus
  BY <1>4, <1>5 DEF Cmds, CommandOf
<1>11. Moves(r, u)
  <2>1. \A k \in Cmds(r) : Transition(CommandOf(r, k), CommandOf(u, k))
    BY <1>10, SettleTwice DEF Transition
  <2>2. QED
    BY <2>1, <1>9 DEF Moves
<1>12. Quiet(r, u)
  BY <1>9, <1>10, SettleTwice DEF Quiet, Unresolved
<1>13. LifeKept(r, u)
  BY <1>6 DEF LifeKept
<1>14. QED
  BY <1>2, <1>3, <1>7, <1>8, <1>9, <1>10, <1>11, <1>12, <1>13 DEF Shown, Becomes, Plausible, u

\* A quiet step leaves a command that is on its way there.
LEMMA InFlightKept ==
  ASSUME NEW r \in OrderState, NEW t \in OrderState, NEW k,
         Moves(r, t), Quiet(r, t), InFlight(r, k)
  PROVE  InFlight(t, k)
<1>1. k \in Cmds(r) /\ k \in Cmds(t) /\ Transition(CommandOf(r, k), CommandOf(t, k))
  BY DEF InFlight, Moves
<1>2. CASE k # 0
  BY <1>1, <1>2 DEF InFlight, Quiet, Transition
<1>3. CASE k = 0
  <2>1. CommandOf(r, 0) = r.sub /\ CommandOf(t, 0) = t.sub
    BY DEF CommandOf
  <2>2. t.sub \notin {"PENDING", "SENT"}
    BY <1>1, <1>3, <2>1 DEF InFlight, Quiet, Transition
  <2>3. ASSUME NEW j \in DOMAIN t.can, t.can[j] \in {"UNKNOWN", "SENT"}
        PROVE  FALSE
    <3>1. j \in Cmds(t) /\ j # 0 /\ CommandOf(t, j) = t.can[j]
      BY <2>3, OrderParts DEF Cmds, CommandOf
    <3>2. j \in DOMAIN r.can /\ r.can[j] = t.can[j]
      BY <2>3, <3>1 DEF Quiet, Cmds, CommandOf
    <3>3. QED
      BY <1>3, <2>3, <3>2 DEF InFlight
  <2>4. QED
    BY <1>1, <1>3, <2>2, <2>3 DEF InFlight
<1>4. QED
  BY <1>2, <1>3

\* What a fact did to an order, and the projection after it.
LEMMA FactThenProject ==
  ASSUME NEW r, NEW t, NEW q, NEW vl, NEW vc, NEW n \in 0 .. vc,
         VenueSound(q, vl, vc), r \in OrderState, Becomes(r, t, vl, vc)
  PROVE  LET u == Project(t, q, n) IN
         /\ Shown(u, q, vl, vc, n) /\ Becomes(r, u, vl, vc) /\ u.venue = t.venue
         /\ Quiet(r, t) => Quiet(r, u)
         /\ \A k : InFlight(t, k) => InFlight(u, k)
<1> DEFINE u == Project(t, q, n)
<1>1. /\ Shown(u, q, vl, vc, n) /\ Becomes(t, u, vl, vc) /\ Quiet(t, u)
      /\ u.venue = t.venue /\ Cmds(u) = Cmds(t) /\ t \in OrderState /\ u \in OrderState
      /\ \A k \in Cmds(t) : CommandOf(u, k) \in {CommandOf(t, k), Settle(CommandOf(t, k))}
  BY ProjectKeeps DEF Becomes, Plausible
<1> HIDE DEF u
<1>2. /\ \A k \in Cmds(t) : CommandOf(t, k) \in CommandStatus /\ CommandOf(u, k) \in CommandStatus
      /\ \A k \in Cmds(r) : CommandOf(r, k) \in CommandStatus
  BY <1>1, OrderParts DEF Cmds, CommandOf
<1>3. Moves(r, u)
  <2>1. ASSUME NEW k \in Cmds(r)
        PROVE  Transition(CommandOf(r, k), CommandOf(u, k))
    <3>1. k \in Cmds(t) /\ Transition(CommandOf(r, k), CommandOf(t, k))
      BY DEF Becomes, Moves
    <3>2. QED
      BY <1>1, <1>2, <3>1, SettleAfter
  <2>2. QED
    BY <2>1, <1>1 DEF Moves, Becomes
<1>4. LifeKept(r, u)
  BY <1>1 DEF LifeKept, Becomes, TERMINAL
<1>5. Quiet(r, t) => Quiet(r, u)
  BY <1>1 DEF Quiet
<1>6. \A k : InFlight(t, k) => InFlight(u, k)
  <2>1. ASSUME NEW k, InFlight(t, k) PROVE InFlight(u, k)
    BY <1>1, <2>1, InFlightKept DEF Becomes
  <2>2. QED
    BY <2>1
<1>7. QED
  BY <1>1, <1>3, <1>4, <1>5 , <1>6 DEF Becomes, u
-----------------------------------------------------------------------------
(* The facts.                                                              *)

\* Settling every command, or the submission, allows only settled commands.
LEMMA ResolveMoves ==
  ASSUME NEW r \in OrderState, NEW t \in OrderState,
         \/ t.sub = Settle(r.sub) /\ t.can = r.can
         \/ t.sub = Settle(r.sub) /\ t.can = ResolveCommands(r).can
  PROVE  Moves(r, t) /\ Quiet(r, t) /\ Cmds(t) = Cmds(r)
<1>1. /\ DOMAIN t.can = DOMAIN r.can
      /\ \A k \in DOMAIN r.can : t.can[k] \in {r.can[k], Settle(r.can[k])}
  BY ResolveType
<1>2. /\ r.sub \in CommandStatus /\ \A k \in DOMAIN r.can : r.can[k] \in CommandStatus
  BY OrderParts
<1>3. Cmds(t) = Cmds(r)
  BY <1>1 DEF Cmds
<1>4. \A k \in Cmds(r) : /\ CommandOf(t, k) \in {CommandOf(r, k), Settle(CommandOf(r, k))}
                         /\ CommandOf(r, k) \in CommandStatus
  BY <1>1, <1>2 DEF Cmds, CommandOf
<1>5. Moves(r, t)
  <2>1. \A k \in Cmds(r) : Transition(CommandOf(r, k), CommandOf(t, k))
    BY <1>4, SettleTwice DEF Transition
  <2>2. QED
    BY <2>1, <1>3 DEF Moves
<1>6. Quiet(r, t)
  BY <1>3, <1>4, SettleTwice DEF Quiet, Unresolved
<1>7. QED
  BY <1>3, <1>5, <1>6

\* OrderReport of any snapshot the order went through at the venue.
LEMMA ReportBecomes ==
  ASSUME NEW r, NEW q, NEW vl, NEW vc, NEW n \in 0 .. vc, NEW status \in Lifecycle,
         NEW lots \in 0 .. vc, VenueSound(q, vl, vc), Shown(r, q, vl, vc, n),
         vl # "NONE", status \in TERMINAL => vl = status /\ lots = vc
  PROVE  LET t == OnOrderReport(r, q, status, lots, TRUE) IN
         Becomes(r, t, vl, vc) /\ Quiet(r, t)
<1> DEFINE cum  == IF status = "FILLED" THEN Larger(Larger(r.rep, lots), q)
                                        ELSE Larger(r.rep, lots)
           life == ReportedLife(r, q, status, cum)
           s    == IF life \in TERMINAL THEN ResolveCommands(r) ELSE ResolveSubmit(r)
           pend == IF life \in TERMINAL \/ r.pend = "SUBMIT" THEN "NONE" ELSE r.pend
           t    == [s EXCEPT !.venue = r.venue \/ TRUE, !.life = life, !.rep = cum,
                             !.pend = pend, !.know = "CONFIRMED", !.started = TRUE]
<1>1. /\ r \in OrderState /\ r.acc = n /\ q \in Nat \ {0} /\ vc \in 0 .. q /\ lots \in Nat
      /\ n \in 0 .. q
  <2>1. r \in OrderState /\ q \in Nat \ {0} /\ vc \in 0 .. q /\ n \in 0 .. q /\ lots \in Nat
    BY DEF Shown, Plausible, VenueSound
  <2>2. Project(r, q, n).acc = n
    BY <2>1, ProjectParts
  <2>3. QED
    BY <2>1, <2>2 DEF Shown
<1>2. /\ r.life \in Lifecycle /\ r.rep \in Nat /\ r.sub \in CommandStatus
      /\ \A k \in DOMAIN r.can : r.can[k] \in CommandStatus
  BY <1>1, OrderParts
<1>3. OnOrderReport(r, q, status, lots, TRUE) = t
  BY DEF OnOrderReport
<1>4. s \in OrderState /\ t \in OrderState /\ LastOpen(t)
  <2>1. Evolves(r, OnOrderReport(r, q, status, lots, TRUE), {}, {})
    BY <1>1, ReportEvolves
  <2>2. s \in OrderState
    BY <1>1, ResolveType
  <2>3. LastOpen(r)
    BY DEF Shown, Plausible, CommandsSound
  <2> HIDE DEF t
  <2>4. QED
    BY <1>3, <2>1, <2>2, <2>3 DEF Evolves
<1>5. /\ r.rep <= vc
      /\ r.life = "FILLED" => vl = "FILLED"
      /\ r.life \in TERMINAL \ {"FILLED"} => vl = r.life /\ r.rep = vc
      /\ vl = "FILLED" => vc = q
      /\ vc = q => vl = "FILLED"
  BY <1>1 DEF Shown, Plausible, EndsAsVenue, VenueSound, VenueLife
<1>6. cum \in Nat /\ cum <= vc /\ (lots = vc => cum = vc) /\ (r.rep = vc => cum = vc)
  <2>1. status = "FILLED" => vc = q
    BY <1>5 DEF TERMINAL
  <2>2. QED
    BY <1>1, <1>2, <1>5, <2>1 DEF Larger
<1>7. /\ life = "FILLED" => vl = "FILLED"
      /\ life \in TERMINAL \ {"FILLED"} =>
           \/ life = status /\ status \in TERMINAL
           \/ life = r.life
  BY <1>1, <1>2, <1>5 DEF ReportedLife, TERMINAL
<1>8. r.life \in TERMINAL => life \in {r.life, "FILLED"}
  BY <1>1 DEF ReportedLife, TERMINAL
<1> HIDE DEF cum, life, s, pend
<1>9. /\ t.life = life /\ t.rep = cum /\ t.started /\ t.venue /\ t.sub = s.sub /\ t.can = s.can
  BY <1>4 DEF OrderState
<1>10. /\ s.sub = Settle(r.sub) /\ DOMAIN s.can = DOMAIN r.can
       /\ life \in TERMINAL => s.can = ResolveCommands(r).can
                               /\ \A k \in DOMAIN r.can : s.can[k] = Settle(r.can[k])
       /\ life \notin TERMINAL => s.can = r.can
  BY <1>1, ResolveType, ResolveParts DEF s
<1>11. EndsAsVenue(t, vl, vc)
  BY <1>5, <1>6, <1>7, <1>9 DEF EndsAsVenue, TERMINAL
<1>12. CommandsSound(t, vl)
  <2>2. /\ t.sub \notin Unresolved /\ t.sub # "PENDING"
        /\ life \in TERMINAL => \A k \in DOMAIN t.can : t.can[k] \notin Unresolved
    BY <1>2, <1>9, <1>10, SettleTwice DEF Unresolved
  <2>3. QED
    BY <1>4, <2>2, <1>9 DEF CommandsSound
<1>13. Moves(r, t) /\ Quiet(r, t)
  BY <1>1, <1>4, <1>9, <1>10, ResolveMoves
<1>14. QED
  BY <1>3, <1>4, <1>8, <1>9, <1>11, <1>12, <1>13 DEF Becomes, Plausible, LifeKept

\* ExecutionReport matched to the order.
LEMMA ExecutionBecomes ==
  ASSUME NEW r, NEW vl, NEW vc, NEW hasVenue \in BOOLEAN, Plausible(r, vl, vc)
  PROVE  LET t == OnExecution(r, hasVenue) IN
         Becomes(r, t, vl, vc) /\ Quiet(r, t) /\ t.venue = (r.venue \/ hasVenue)
<1> DEFINE s    == ResolveSubmit(r)
           pend == IF r.pend = "SUBMIT" THEN "NONE" ELSE r.pend
           t    == [s EXCEPT !.venue = r.venue \/ hasVenue, !.know = "CONFIRMED",
                             !.pend = pend, !.started = TRUE]
<1>1. r \in OrderState /\ s \in OrderState
  BY ResolveType DEF Plausible
<1>2. /\ r.life \in Lifecycle /\ r.pend \in PendingAction /\ r.venue \in BOOLEAN
      /\ r.sub \in CommandStatus
  BY <1>1, OrderParts
<1>3. /\ s.life = r.life /\ s.rep = r.rep /\ s.sub = Settle(r.sub) /\ s.can = r.can
  BY <1>1, ResolveParts
<1>4. pend \in PendingAction /\ "CONFIRMED" \in Knowledge /\ (r.venue \/ hasVenue) \in BOOLEAN
  BY <1>2 DEF PendingAction, Knowledge
<1>5. OnExecution(r, hasVenue) = t
  BY DEF OnExecution
<1> HIDE DEF s, pend
<1>6. /\ t \in OrderState /\ t.life = s.life /\ t.rep = s.rep /\ t.started
      /\ t.venue = (r.venue \/ hasVenue) /\ t.sub = s.sub /\ t.can = s.can
  BY <1>1, <1>4 DEF OrderState
<1>7. Moves(r, t) /\ Quiet(r, t)
  BY <1>1, <1>3, <1>6, ResolveMoves
<1>8. t.sub \notin Unresolved /\ t.sub # "PENDING"
  BY <1>2, <1>3, <1>6, SettleTwice DEF Unresolved
<1> HIDE DEF t
<1>9. CommandsSound(t, vl)
  BY <1>3, <1>6, <1>8 DEF Plausible, CommandsSound, LastOpen
<1>10. EndsAsVenue(t, vl, vc)
  BY <1>3, <1>6 DEF Plausible, EndsAsVenue
<1>11. QED
  BY <1>3, <1>5, <1>6, <1>7, <1>9, <1>10 DEF Becomes, Plausible, LifeKept
\* The answer of the venue to a submission that is on its way.
LEMMA SubmitResultBecomes ==
  ASSUME NEW r, NEW q, NEW vl, NEW vc, NEW result \in TransportResult,
         VenueSound(q, vl, vc), Plausible(r, vl, vc), InFlight(r, 0),
         result = "VENUE_REJECTED" => vl = "REJECTED"
  PROVE  Becomes(r, OnSubmitResult(r, result), vl, vc)
<1> DEFINE t == OnSubmitResult(r, result)
<1>1. /\ r \in OrderState /\ t \in OrderState /\ Len(t.can) = Len(r.can) /\ LastOpen(t)
  BY SubmitResultEvolves DEF Plausible, Evolves, Keeps, CommandsSound
<1>2. CASE ~SubmitOpen(r)
  <2>1. t = r
    BY <1>2 DEF OnSubmitResult
  <2>2. QED
    BY <2>1 DEF Becomes, Moves, LifeKept, Transition
<1>3. CASE SubmitOpen(r)
  <2> DEFINE sub  == StatusOf(result)
             know == IF result = "AMBIGUOUS" THEN "UNCERTAIN" ELSE "CONFIRMED"
             life == IF result = "VENUE_REJECTED" THEN "REJECTED" ELSE r.life
             pend == IF result = "VENUE_REJECTED" THEN "NONE" ELSE r.pend
             has  == r.venue \/ result = "ACCEPTED"
             x    == [r EXCEPT !.sub = sub, !.started = TRUE, !.venue = has,
                               !.know = know, !.life = life, !.pend = pend]
  <2>1. t = x
    BY <1>3 DEF OnSubmitResult
  <2> HIDE DEF sub, know, life, pend, has
  <2>2. /\ x.sub = sub /\ x.started /\ x.venue = has /\ x.life = life
        /\ x.rep = r.rep /\ x.can = r.can
    BY <1>1 DEF OrderState
  <2> HIDE DEF x, t
  <2>3. /\ r.sub = "UNKNOWN" /\ r.life \notin TERMINAL
        /\ \A k \in DOMAIN r.can : r.can[k] \in Unresolved => r.can[k] = "PENDING"
    BY <1>3 DEF SubmitOpen, InFlight, Unresolved, Plausible, CommandsSound
  <2>4. sub \in {"SENT", "REJECTED", "UNKNOWN"} /\ (result = "VENUE_REJECTED" => sub = "REJECTED")
    BY DEF sub, StatusOf, TransportResult
  <2>5. /\ result = "VENUE_REJECTED" => life = "REJECTED" /\ vl = "REJECTED" /\ r.rep = vc
        /\ result # "VENUE_REJECTED" => life = r.life
        /\ r.venue => has
    <3>1. r.rep \in Nat /\ r.rep <= vc /\ (vl = "REJECTED" => vc = 0)
      BY <1>1, OrderParts DEF VenueSound, Plausible, EndsAsVenue
    <3>2. QED
      BY <3>1 DEF life, has
  <2>6. Moves(r, t)
    <3>1. Cmds(t) = Cmds(r)
      BY <2>1, <2>2 DEF Cmds
    <3>2. ASSUME NEW k \in Cmds(r) PROVE Transition(CommandOf(r, k), CommandOf(t, k))
      BY <2>1, <2>2, <2>3, <2>4 DEF Transition, CommandOf
    <3>3. QED
      BY <3>1, <3>2 DEF Moves
  <2>7. EndsAsVenue(t, vl, vc)
    BY <2>1, <2>2, <2>3, <2>5 DEF EndsAsVenue, Plausible, TERMINAL
  <2>8. CommandsSound(t, vl)
    <3>1. /\ t.sub \in {"SENT", "REJECTED", "UNKNOWN"} /\ t.started /\ t.can = r.can
          /\ t.life = "REJECTED" \/ t.life = r.life
          /\ t.life = "REJECTED" => result = "VENUE_REJECTED" /\ t.sub = "REJECTED"
      BY <2>1, <2>2, <2>3, <2>4, <2>5 DEF TERMINAL
    <3>2. QED
      BY <1>1, <2>3, <3>1 DEF CommandsSound, Unresolved
  <2>9. QED
    <3>1. LifeKept(r, t)
      BY <2>3 DEF LifeKept
    <3>2. r.venue => t.venue
      BY <2>1, <2>2, <2>5
    <3>3. QED
      BY <1>1, <2>6, <2>7, <2>8, <3>1, <3>2 DEF Becomes, Plausible, t
<1>4. QED
  BY <1>2, <1>3

\* Writing command k of an order that is not over, or settling it.
LEMMA SetBecomes ==
  ASSUME NEW r, NEW t \in OrderState, NEW vl, NEW vc, NEW k \in Cmds(r),
         Plausible(r, vl, vc), LastOpen(t), DOMAIN t.can = DOMAIN r.can,
         t.life = r.life, t.rep = r.rep, t.venue = r.venue, r.started => t.started,
         \A j \in Cmds(r) \ {k} : CommandOf(t, j) = CommandOf(r, j),
         Transition(CommandOf(r, k), CommandOf(t, k)), CommandOf(t, k) # "PENDING",
         r.life \in TERMINAL => CommandOf(t, k) \notin Unresolved,
         t.started \/ k # 0
  PROVE  Becomes(r, t, vl, vc)
<1>1. /\ \A j \in DOMAIN r.can : CommandOf(r, j) = r.can[j] /\ CommandOf(t, j) = t.can[j] /\ j # 0
      /\ CommandOf(r, 0) = r.sub /\ CommandOf(t, 0) = t.sub /\ r \in OrderState
  BY OrderParts DEF CommandOf, Plausible
<1>2. Moves(r, t)
  <2>1. ASSUME NEW j \in Cmds(r) PROVE Transition(CommandOf(r, j), CommandOf(t, j))
    <3>1. CASE j = k
      BY <3>1
    <3>2. CASE j # k
      BY <3>2 DEF Transition
    <3>3. QED
      BY <3>1, <3>2
  <2>2. QED
    BY <2>1 DEF Moves, Cmds
<1>3. EndsAsVenue(t, vl, vc) /\ LifeKept(r, t)
  BY DEF EndsAsVenue, LifeKept, Plausible
<1>4. CommandsSound(t, vl)
  <2>1. r.life \in TERMINAL => t.sub \notin Unresolved
    BY <1>1 DEF Plausible, CommandsSound, Cmds
  <2>2. ASSUME r.life \in TERMINAL, NEW j \in DOMAIN t.can, t.can[j] \in Unresolved
        PROVE  r.life = "REJECTED" /\ t.can[j] = "PENDING"
    <3>1. j # k
      BY <1>1, <2>2
    <3>2. t.can[j] = r.can[j] /\ j \in DOMAIN r.can
      BY <1>1, <2>2, <3>1 DEF Cmds
    <3>3. QED
      BY <2>2, <3>2 DEF Plausible, CommandsSound
  <2>3. t.sub = "PENDING" => vl = "NONE" /\ ~t.started /\ DOMAIN t.can = {}
    <3>1. SUFFICES ASSUME t.sub = "PENDING" PROVE FALSE
      OBVIOUS
    <3>2. k # 0
      BY <1>1, <3>1
    <3>3. r.sub = "PENDING"
      BY <1>1, <3>1, <3>2 DEF Cmds
    <3>4. DOMAIN r.can = {}
      BY <3>3 DEF Plausible, CommandsSound
    <3>5. QED
      BY <3>2, <3>4 DEF Cmds
  <2>4. ~t.started => t.sub = "PENDING" \/ t.life \in TERMINAL
    <3>1. SUFFICES ASSUME ~t.started PROVE t.sub = "PENDING" \/ t.life \in TERMINAL
      OBVIOUS
    <3>2. ~r.started /\ k # 0
      BY <3>1
    <3>3. t.sub = r.sub
      BY <1>1, <3>2 DEF Cmds
    <3>4. QED
      BY <3>2, <3>3 DEF Plausible, CommandsSound
  <2>5. QED
    BY <2>1, <2>2, <2>3, <2>4 DEF CommandsSound
<1>5. QED
  BY <1>2, <1>3, <1>4 DEF Becomes, Plausible

\* DispatchStarted: the command is claimed and then in flight.
LEMMA GrantBecomes ==
  ASSUME NEW r, NEW vl, NEW vc, NEW k \in Cmds(r), Plausible(r, vl, vc),
         CommandOf(r, k) = "PENDING", r.life \notin TERMINAL
  PROVE  LET t == OnDispatchStarted(r, k) IN
         Becomes(r, t, vl, vc) /\ InFlight(t, k) /\ (k = 0 => vl = "NONE")
<1> DEFINE s == SetCommand(r, k, "UNKNOWN")
           t == [s EXCEPT !.know = "UNCERTAIN", !.started = TRUE]
<1>1. r \in OrderState /\ LastOpen(r) /\ "UNKNOWN" \in CommandStatus
  BY DEF Plausible, CommandsSound, CommandStatus
<1>2. /\ s \in OrderState /\ DOMAIN s.can = DOMAIN r.can /\ s.life = r.life
      /\ CommandOf(s, k) = "UNKNOWN"
      /\ \A j \in Cmds(r) \ {k} : CommandOf(s, j) = CommandOf(r, j)
  BY <1>1, SetCommandParts
<1>3. s.rep = r.rep /\ s.venue = r.venue
  BY <1>1 DEF SetCommand, OrderState
<1>4. OnDispatchStarted(r, k) = t
  BY DEF OnDispatchStarted
<1>5. t \in OrderState /\ LastOpen(t) /\ CommandOf(t, k) = "UNKNOWN" /\ t.started
  BY <1>1, <1>4, DispatchStartedEvolves DEF Evolves
<1> HIDE DEF s
<1>6. /\ t.can = s.can /\ t.sub = s.sub /\ t.life = s.life /\ t.rep = s.rep /\ t.venue = s.venue
  BY <1>2 DEF OrderState
<1>7. /\ DOMAIN t.can = DOMAIN r.can
      /\ \A j \in Cmds(r) \ {k} : CommandOf(t, j) = CommandOf(r, j)
  BY <1>2, <1>6 DEF CommandOf
<1> HIDE DEF t
<1>8. Transition(CommandOf(r, k), CommandOf(t, k))
  BY DEF Transition
<1>9. Becomes(r, t, vl, vc)
  BY <1>2, <1>3, <1>5, <1>6, <1>7, <1>8, SetBecomes
<1>10. k = 0 => vl = "NONE" /\ DOMAIN r.can = {}
  BY DEF CommandOf, Plausible, CommandsSound
<1>11. InFlight(t, k)
  BY <1>5, <1>7, <1>10 DEF InFlight, Cmds, CommandOf
<1>12. QED
  BY <1>4, <1>9, <1>10, <1>11

\* CancelTransportResult of a cancel that is on its way.
LEMMA CancelResultBecomes ==
  ASSUME NEW r, NEW vl, NEW vc, NEW k \in DOMAIN r.can, NEW result \in TransportResult,
         Plausible(r, vl, vc), InFlight(r, k), r.life \in TERMINAL => r.pend # "CANCEL"
  PROVE  Becomes(r, OnCancelResult(r, k, result), vl, vc)
<1> DEFINE t == OnCancelResult(r, k, result)
<1>1. /\ r \in OrderState /\ t \in OrderState /\ LastOpen(r) /\ LastOpen(t)
  BY CancelResultEvolves DEF Plausible, Evolves, CommandsSound
<1>2. /\ r.can[k] \in CommandStatus /\ DOMAIN r.can = 1 .. Len(r.can) /\ Len(r.can) \in Nat
      /\ r.can \in Seq(CommandStatus) /\ k \in 1 .. Len(r.can)
  BY <1>1, OrderParts
<1>3. CASE r.pend # "CANCEL" \/ r.can[k] \in {"REJECTED", "RESOLVED", "EXPIRED", "BLOCKED"}
  <2>1. t = r
    BY <1>3 DEF OnCancelResult
  <2>2. QED
    BY <2>1 DEF Becomes, Moves, LifeKept, Transition
<1>4. CASE ~(r.pend # "CANCEL" \/ r.can[k] \in {"REJECTED", "RESOLVED", "EXPIRED", "BLOCKED"})
  <2>1. r.can[k] = "UNKNOWN" /\ k = Len(r.can) /\ k # 0
    <3>1. k # 0 /\ CommandOf(r, k) = r.can[k]
      BY <1>2 DEF CommandOf
    <3>2. r.can[k] \notin {"PENDING", "SENT", "CANCELED"}
      BY <1>1, <3>1 DEF InFlight, LastOpen
    <3>3. r.can[k] = "UNKNOWN"
      BY <1>2, <1>4, <3>2 DEF CommandStatus
    <3>4. QED
      BY <1>1, <3>1, <3>3 DEF LastOpen, Unresolved
  <2> DEFINE status == StatusOf(result)
             s == SetCommand(r, k, status)
             pend == IF result = "VENUE_REJECTED" THEN "NONE" ELSE r.pend
             know == IF result = "AMBIGUOUS" THEN "UNCERTAIN" ELSE "CONFIRMED"
             x == [s EXCEPT !.pend = pend, !.know = know]
  <2>2. status \in {"SENT", "REJECTED", "UNKNOWN"} /\ status \in CommandStatus
    BY DEF StatusOf, TransportResult, CommandStatus
  <2> HIDE DEF status
  <2>3. k \in Cmds(r)
    BY DEF Cmds
  <2>4. /\ s \in OrderState /\ DOMAIN s.can = DOMAIN r.can /\ s.life = r.life
        /\ s.started = r.started /\ CommandOf(s, k) = status
        /\ \A j \in Cmds(r) \ {k} : CommandOf(s, j) = CommandOf(r, j)
    BY <1>1, <2>2, <2>3, SetCommandParts
  <2>5. s.rep = r.rep /\ s.venue = r.venue
    BY <1>1 DEF SetCommand, OrderState
  <2>6. t = x
    BY <1>4, <2>1 DEF OnCancelResult, SetCommand, status
  <2> HIDE DEF s, pend, know
  <2>7. /\ x.can = s.can /\ x.sub = s.sub /\ x.life = s.life /\ x.rep = s.rep
        /\ x.venue = s.venue /\ x.started = s.started
    BY <2>4 DEF OrderState
  <2>8. /\ DOMAIN t.can = DOMAIN r.can /\ CommandOf(t, k) = status
        /\ \A j \in Cmds(r) \ {k} : CommandOf(t, j) = CommandOf(r, j)
    BY <2>4, <2>6, <2>7 DEF CommandOf
  <2>9. CommandOf(r, k) = "UNKNOWN"
    BY <2>1 DEF CommandOf
  <2>10. r.life \notin TERMINAL
    BY <1>4
  <2> HIDE DEF x, t
  <2>11. Transition(CommandOf(r, k), CommandOf(t, k)) /\ CommandOf(t, k) # "PENDING"
    BY <2>2, <2>8, <2>9 DEF Transition
  <2>12. Becomes(r, t, vl, vc)
    BY <1>1, <2>1, <2>3, <2>4, <2>5, <2>6, <2>7, <2>8, <2>10, <2>11, SetBecomes
  <2>13. QED
    BY <2>12 DEF t
<1>5. QED
  BY <1>3, <1>4
\* UnsentAborted of a command that never left.
LEMMA AbortBecomes ==
  ASSUME NEW r, NEW vl, NEW vc, NEW k \in Cmds(r), NEW reason \in AbortReason,
         Plausible(r, vl, vc), CommandOf(r, k) \in {"PENDING", "UNKNOWN"},
         k = 0 => vl = "NONE"
  PROVE  LET t == OnUnsentAborted(r, k, reason) IN
         Becomes(r, t, vl, vc) /\ Quiet(r, t)
<1> DEFINE t == OnUnsentAborted(r, k, reason)
<1>1. /\ r \in OrderState /\ t \in OrderState /\ LastOpen(t)
  BY UnsentAbortedEvolves DEF Plausible, Evolves, CommandsSound
<1>2. /\ r.sub \in CommandStatus /\ \A j \in DOMAIN r.can : r.can[j] \in CommandStatus /\ j # 0
  BY <1>1, OrderParts
<1>3. CASE k = 0
  <2> DEFINE sub  == IF reason = "DISPATCH_INVALIDATED" THEN "BLOCKED" ELSE reason
             life == IF reason = "DISPATCH_INVALIDATED" THEN "REJECTED" ELSE reason
             s == [r EXCEPT !.sub = sub, !.life = life, !.know = "CONFIRMED", !.pend = "NONE"]
  <2>1. /\ sub \in {"BLOCKED", "EXPIRED", "CANCELED"} /\ sub \in CommandStatus
        /\ life \in {"REJECTED", "EXPIRED", "CANCELED"} /\ life \in Lifecycle
        /\ "CONFIRMED" \in Knowledge /\ "NONE" \in PendingAction
    BY DEF AbortReason, CommandStatus, Lifecycle, Knowledge, PendingAction
  <2>2. t = ResolveCommands(s)
    BY <1>3 DEF OnUnsentAborted
  <2> HIDE DEF sub, life
  <2>3. /\ s \in OrderState /\ s.sub = sub /\ s.life = life /\ s.can = r.can /\ s.rep = r.rep
        /\ s.venue = r.venue /\ s.started = r.started
    BY <1>1, <2>1 DEF OrderState
  <2> HIDE DEF s, t
  <2>4. /\ t.life = life /\ t.rep = r.rep /\ t.venue = r.venue /\ t.started = r.started
        /\ t.sub = Settle(sub) /\ DOMAIN t.can = DOMAIN r.can
        /\ \A j \in DOMAIN r.can : t.can[j] = Settle(r.can[j])
    BY <2>2, <2>3, ResolveParts, ResolveType
  <2>5. t.sub = sub /\ sub \notin Unresolved /\ sub # "PENDING"
    BY <2>1, <2>4 DEF Settle, Unresolved
  <2>6. \A j \in DOMAIN t.can : t.can[j] \notin Unresolved
    BY <1>2, <2>4, SettleTwice
  <2>7. r.sub \in {"PENDING", "UNKNOWN"} /\ r.life \notin TERMINAL
    BY <1>3 DEF CommandOf, Plausible, CommandsSound, Unresolved
  <2>8. Moves(r, t)
    <3>1. ASSUME NEW j \in Cmds(r) PROVE Transition(CommandOf(r, j), CommandOf(t, j))
      <4>1. CASE j = 0
        BY <2>1, <2>5, <2>7, <4>1 DEF CommandOf, Transition
      <4>2. CASE j # 0
        BY <1>2, <2>4, <4>2, SettleTwice DEF CommandOf, Cmds
      <4>3. QED
        BY <4>1, <4>2
    <3>2. QED
      BY <2>4, <3>1 DEF Moves, Cmds
  <2>9. Quiet(r, t)
    BY <2>1, <2>4, <2>5, <2>6 DEF Quiet, Cmds, CommandOf, Unresolved
  <2>10. EndsAsVenue(t, vl, vc)
    BY <1>3, <2>1, <2>4 DEF EndsAsVenue, Plausible, TERMINAL
  <2>11. CommandsSound(t, vl)
    BY <1>1, <2>1, <2>4, <2>5, <2>6 DEF CommandsSound, TERMINAL
  <2>12. Becomes(r, t, vl, vc)
    BY <1>1, <2>4, <2>7, <2>8, <2>10, <2>11 DEF Becomes, Plausible, LifeKept
  <2>13. QED
    BY <2>9, <2>12 DEF t
<1>4. CASE k # 0
  <2> DEFINE status == IF reason = "EXPIRED" THEN "EXPIRED" ELSE "BLOCKED"
             s == SetCommand(r, k, status)
             x == [s EXCEPT !.know = "CONFIRMED", !.pend = "NONE"]
  <2>1. status \in {"EXPIRED", "BLOCKED"} /\ status \in CommandStatus
    BY DEF CommandStatus
  <2>2. t = x
    BY <1>4 DEF OnUnsentAborted
  <2> HIDE DEF status
  <2>3. /\ s \in OrderState /\ DOMAIN s.can = DOMAIN r.can /\ s.life = r.life
        /\ s.started = r.started /\ CommandOf(s, k) = status
        /\ \A j \in Cmds(r) \ {k} : CommandOf(s, j) = CommandOf(r, j)
    BY <1>1, <2>1, SetCommandParts
  <2>4. s.rep = r.rep /\ s.venue = r.venue
    BY <1>1 DEF SetCommand, OrderState
  <2> HIDE DEF s
  <2>5. /\ x.can = s.can /\ x.sub = s.sub /\ x.life = s.life /\ x.rep = s.rep
        /\ x.venue = s.venue /\ x.started = s.started
    BY <2>3 DEF OrderState
  <2>6. /\ DOMAIN t.can = DOMAIN r.can /\ CommandOf(t, k) = status
        /\ \A j \in Cmds(r) \ {k} : CommandOf(t, j) = CommandOf(r, j)
    BY <2>2, <2>3, <2>5 DEF CommandOf
  <2>7. t.life = r.life /\ t.rep = r.rep /\ t.venue = r.venue /\ t.started = r.started
    BY <2>2, <2>3, <2>4, <2>5
  <2> HIDE DEF x, t
  <2>8. Transition(CommandOf(r, k), CommandOf(t, k)) /\ CommandOf(t, k) \notin Unresolved
        /\ CommandOf(t, k) # "PENDING"
    BY <2>1, <2>6 DEF Transition, Unresolved
  <2>9. Becomes(r, t, vl, vc)
    BY <1>1, <1>4, <2>6, <2>7, <2>8, SetBecomes
  <2>10. Cmds(t) = Cmds(r)
    BY <2>6 DEF Cmds
  <2>11. Quiet(r, t)
    BY <2>1, <2>6, <2>10 DEF Quiet
  <2>12. QED
    BY <2>9, <2>11 DEF t
<1>5. QED
  BY <1>3, <1>4

\* CancelRequested.
LEMMA CancelBecomes ==
  ASSUME NEW r, NEW vl, NEW vc, Plausible(r, vl, vc), CancelShown(r), ~CancelIgnored(r)
  PROVE  LET t == OnCancelRequested(r) IN
         Becomes(r, t, vl, vc) /\ Quiet(r, t)
<1> DEFINE t == OnCancelRequested(r)
<1>1. r \in OrderState /\ r.life \notin TERMINAL
  BY DEF Plausible, CancelIgnored
<1>2. CASE ~r.started
  <2> DEFINE x == [r EXCEPT !.sub = "CANCELED", !.life = "CANCELED", !.pend = "NONE"]
  <2>1. t = x
    BY <1>2 DEF OnCancelRequested
  <2>2. t \in OrderState /\ LastOpen(t)
    BY <1>1, <1>2, CancelUnstarted DEF Evolves, Plausible, CommandsSound
  <2>3. /\ x.sub = "CANCELED" /\ x.life = "CANCELED" /\ x.can = r.can /\ x.rep = r.rep
        /\ x.venue = r.venue /\ x.started = r.started
    BY <1>1 DEF OrderState
  <2> HIDE DEF x, t
  <2>4. r.sub = "PENDING" /\ vl = "NONE" /\ DOMAIN r.can = {}
    BY <1>1, <1>2 DEF Plausible, CommandsSound
  <2>5. Cmds(r) = {0} /\ Cmds(t) = {0} /\ CommandOf(t, 0) = "CANCELED" /\ CommandOf(r, 0) = "PENDING"
    BY <2>1, <2>3, <2>4 DEF Cmds, CommandOf
  <2>6. Moves(r, t) /\ Quiet(r, t)
    BY <2>5 DEF Moves, Quiet, Transition
  <2>7. EndsAsVenue(t, vl, vc)
    BY <2>1, <2>3, <2>4 DEF EndsAsVenue, Plausible, TERMINAL
  <2>8. CommandsSound(t, vl)
    BY <2>1, <2>2, <2>3, <2>4 DEF CommandsSound, Unresolved, TERMINAL
  <2>9. QED
    BY <1>1, <2>1, <2>2, <2>3, <2>6, <2>7, <2>8 DEF Becomes, Plausible, LifeKept, t
<1>3. CASE r.started
  <2> DEFINE c == Append(r.can, "PENDING")
             x == [r EXCEPT !.can = c, !.pend = "CANCEL"]
  <2>1. t = x
    BY <1>1, <1>3 DEF OnCancelRequested
  <2>2. /\ t \in OrderState /\ t.started = r.started /\ t.sub = r.sub
        /\ t.can = c /\ Len(t.can) = Len(r.can) + 1
        /\ \A k \in Cmds(r) : CommandOf(t, k) = CommandOf(r, k)
        /\ LastOpen(t)
    BY <1>1, <1>3, CancelQueued DEF Plausible, CommandsSound
  <2>3. t.life = r.life /\ t.rep = r.rep /\ t.venue = r.venue
    BY <1>1, <2>1 DEF OrderState
  <2> HIDE DEF x, t
  <2>4. /\ DOMAIN t.can = 1 .. Len(r.can) + 1 /\ DOMAIN r.can = 1 .. Len(r.can) /\ Len(r.can) \in Nat
        /\ t.can[Len(r.can) + 1] = "PENDING"
    BY <1>1, <2>2, OrderParts, AppendProperties
  <2>5. Cmds(r) \subseteq Cmds(t) /\ \A k \in Cmds(t) \ Cmds(r) : CommandOf(t, k) = "PENDING"
    BY <2>4 DEF Cmds, CommandOf
  <2>6. Moves(r, t) /\ Quiet(r, t)
    BY <2>2, <2>5 DEF Moves, Quiet, Transition
  <2>7. r.sub # "PENDING"
    BY <1>3 DEF Plausible, CommandsSound
  <2>8. EndsAsVenue(t, vl, vc) /\ CommandsSound(t, vl)
    BY <1>1, <1>3, <2>2, <2>3, <2>7 DEF EndsAsVenue, CommandsSound, Plausible
  <2>9. QED
    BY <1>1, <2>2, <2>3, <2>6, <2>8 DEF Becomes, Plausible, LifeKept, t
<1>4. QED
  BY <1>1, <1>2, <1>3, OrderParts
-----------------------------------------------------------------------------
(* The inductive invariant.                                                *)

\* The lots of an order that are booked are lots the venue executed.
OrderSound(o) ==
  /\ VenueSound(Qty[o], vlife[o], vcum[o])
  /\ linked[o] \subseteq seen[o] /\ seen[o] \subseteq 1 .. vcum[o]
  /\ orders[o].venue => linked[o] = seen[o]
  /\ Shown(orders[o], Qty[o], vlife[o], vcum[o], Cardinality(linked[o]))

\* Orders nobody approved are as new.
Untouched == \A o \in Orders \ approved : orders[o] = NewOrder /\ vlife[o] = "NONE"

\* The router holds a command that is on its way, and a submission it may
\* still hand off is not at the venue.
RouterSound ==
  io.phase # "idle" =>
    /\ io.ord \in approved /\ InFlight(orders[io.ord], io.cmd)
    /\ io.phase = "granted" /\ io.cmd = 0 => vlife[io.ord] = "NONE"

\* An instrument nobody owns has no entry that is not over and booked.
OwnerSound ==
  owner = NoOwner => \A o \in approved : ~ReduceOnly[o] =>
    orders[o].life \in TERMINAL /\ Cardinality(linked[o]) = vcum[o]

\* What a replacement was granted stays unfilled of the order it replaces.
ReplacesSound ==
  \A o \in approved : Replaces[o] # o =>
    /\ Replaces[o] \in approved /\ orders[Replaces[o]].life \in TERMINAL
    /\ Qty[o] + vcum[Replaces[o]] <= Qty[Replaces[o]]

ReservesShown == resv = Reallocate(orders, approved, position)

IInv ==
  /\ TypeOK /\ Untouched /\ RouterSound /\ OwnerSound /\ ReplacesSound /\ ReservesShown
  /\ \A o \in Orders : OrderSound(o)

\* No order goes back.
Onward == \A o \in Orders : Moves(orders[o], orders'[o]) /\ LifeKept(orders[o], orders'[o])

\* The lots booked of an order are counted, and more of them are more.
LEMMA LotsCount ==
  ASSUME NEW vc \in Nat, NEW L \in SUBSET (1 .. vc), NEW M \in SUBSET L
  PROVE  /\ Cardinality(L) \in 0 .. vc /\ Cardinality(M) \in 0 .. vc
         /\ Cardinality(M) <= Cardinality(L)
<1>1. IsFiniteSet(1 .. vc) /\ Cardinality(1 .. vc) = vc
  BY FS_Interval
<1>2. IsFiniteSet(L) /\ Cardinality(L) <= vc
  BY <1>1, FS_Subset
<1>3. IsFiniteSet(M) /\ Cardinality(M) <= Cardinality(L)
  BY <1>2, FS_Subset
<1>4. Cardinality(L) \in Nat /\ Cardinality(M) \in Nat
  BY <1>2, <1>3, FS_CardinalityType
<1>5. QED
  BY <1>2, <1>3, <1>4

\* An ended order that reserves nothing has every fill booked.
LEMMA EndedIsBooked ==
  ASSUME NEW r, NEW q, NEW vl, NEW vc, NEW n \in 0 .. vc, VenueSound(q, vl, vc),
         Shown(r, q, vl, vc, n), r.life \in TERMINAL, ReservedLots(r, q) = 0
  PROVE  n = vc
<1>1. /\ q \in Nat \ {0} /\ vc \in 0 .. q /\ n \in 0 .. q /\ r \in OrderState
  BY DEF VenueSound, Shown, Plausible
<1>2. r.acc = n /\ r.rep \in Nat
  <2>1. Project(r, q, n).acc = n /\ r.rep \in Nat
    BY <1>1, ProjectParts, OrderParts
  <2>2. QED
    BY <2>1 DEF Shown
<1>3. CASE r.life = "FILLED"
  <2>1. Larger(r.rep, q) - n <= 0
    BY <1>1, <1>2, <1>3 DEF ReservedLots, UnresolvedFillLots, Larger
  <2>2. QED
    BY <1>1, <1>2, <2>1 DEF Larger
<1>4. CASE r.life # "FILLED"
  <2>1. r.rep - n <= 0
    BY <1>1, <1>2, <1>4 DEF ReservedLots, UnresolvedFillLots, Larger
  <2>2. (vl = "NONE" /\ vc = 0) \/ r.rep = vc
    BY <1>4 DEF Shown, Plausible, EndsAsVenue, VenueSound
  <2>3. QED
    BY <1>1, <1>2, <2>1, <2>2
<1>5. QED
  BY <1>3, <1>4

\* What is reserved of an entry covers what the venue may still fill.
LEMMA ReservedCovers ==
  ASSUME NEW r, NEW q, NEW vl, NEW vc, NEW n \in 0 .. vc, VenueSound(q, vl, vc),
         Shown(r, q, vl, vc, n)
  PROVE  /\ vc - n <= ReservedLots(r, q)
         /\ r.life \notin TERMINAL => q - n <= ReservedLots(r, q)
         /\ ReservedLots(r, q) \in Nat
         /\ UnresolvedFillLots(r, q) + (ReservedLots(r, q) - UnresolvedFillLots(r, q))
              = ReservedLots(r, q)
         /\ r.life \in TERMINAL => vl \notin {"FLIGHT", "OPEN"}
<1>1. /\ q \in Nat \ {0} /\ vc \in 0 .. q /\ n \in 0 .. q /\ r \in OrderState
  BY DEF VenueSound, Shown, Plausible
<1>2. r.acc = n /\ r.rep \in Nat /\ r.rep <= vc
  <2>1. Project(r, q, n) = r /\ r.rep <= vc
    BY DEF Shown, Plausible, EndsAsVenue
  <2>2. Project(r, q, n).acc = n
    BY <1>1, ProjectParts
  <2>3. QED
    BY <1>1, <2>1, <2>2, OrderParts
<1>3. /\ r.life \in TERMINAL \ {"FILLED"} => (vl = "NONE" /\ vc = 0) \/ (vl = r.life /\ r.rep = vc)
      /\ r.life = "FILLED" => vl = "FILLED"
  BY DEF Shown, Plausible, EndsAsVenue, VenueSound
<1> DEFINE late == UnresolvedFillLots(r, q)
<1>4. /\ late \in Nat
      /\ r.life = "FILLED" => late >= q - n
      /\ r.life # "FILLED" => late >= r.rep - n
  BY <1>1, <1>2 DEF UnresolvedFillLots, Larger
<1>5. /\ r.life \in TERMINAL => ReservedLots(r, q) = late
      /\ r.life \notin TERMINAL => ReservedLots(r, q) = Larger(RemainingLots(r, q), late)
  BY DEF ReservedLots
<1>6. RemainingLots(r, q) \in Nat /\ RemainingLots(r, q) >= q - n
  BY <1>1, <1>2 DEF RemainingLots, Larger
<1> HIDE DEF late
<1>7. CASE r.life \in TERMINAL
  <2>1. vc - n <= late
    <3>1. CASE r.life = "FILLED"
      BY <1>1, <1>4, <3>1
    <3>2. CASE r.life # "FILLED"
      BY <1>1, <1>2, <1>3, <1>4, <1>7, <3>2
    <3>3. QED
      BY <3>1, <3>2
  <2>2. vl \notin {"FLIGHT", "OPEN"}
    BY <1>3, <1>7 DEF TERMINAL
  <2>3. QED
    BY <1>4, <1>5, <1>7, <2>1, <2>2 DEF late
<1>8. CASE r.life \notin TERMINAL
  <2>1. ReservedLots(r, q) \in Nat /\ ReservedLots(r, q) >= q - n
    BY <1>1, <1>4, <1>5, <1>6, <1>8 DEF Larger
  <2>2. QED
    BY <1>1, <1>4, <1>8, <2>1 DEF late
<1>9. QED
  BY <1>7, <1>8
-----------------------------------------------------------------------------
(* One committed cycle.                                                    *)

\* The orders, their executions and what is known of the venue, as types.
LEMMA DeskParts ==
  ASSUME IInv, NEW o \in Orders
  PROVE  /\ orders[o] \in OrderState /\ Qty[o] \in Nat \ {0} /\ vcum[o] \in 0 .. Qty[o]
         /\ vlife[o] \in VenueLife /\ Cardinality(linked[o]) \in 0 .. vcum[o]
         /\ VenueSound(Qty[o], vlife[o], vcum[o])
         /\ Plausible(orders[o], vlife[o], vcum[o])
         /\ Shown(orders[o], Qty[o], vlife[o], vcum[o], Cardinality(linked[o]))
         /\ CancelShown(orders[o])
         /\ orders[o].acc = Cardinality(linked[o])
         /\ orders[o].life \in TERMINAL => orders[o].pend = "NONE"
<1>1. /\ OrderSound(o) /\ orders[o] \in OrderState
      /\ Qty[o] \in Nat \ {0} /\ vcum[o] \in 0 .. Qty[o] /\ vlife[o] \in VenueLife
  BY DEF IInv, TypeOK, OrderSound, VenueSound
<1>2. Cardinality(linked[o]) \in 0 .. vcum[o]
  <2>1. vcum[o] \in Nat /\ linked[o] \in SUBSET (1 .. vcum[o]) /\ linked[o] \in SUBSET linked[o]
    BY <1>1 DEF OrderSound
  <2>2. QED
    BY <2>1, LotsCount
<1>3. /\ CancelShown(orders[o]) /\ orders[o].acc = Cardinality(linked[o])
      /\ orders[o].life \in TERMINAL => orders[o].pend = "NONE"
  <2>1. Cardinality(linked[o]) \in 0 .. Qty[o]
    BY <1>1, <1>2
  <2>2. Project(orders[o], Qty[o], Cardinality(linked[o])) = orders[o]
    BY <1>1 DEF OrderSound, Shown
  <2>3. QED
    BY <1>1, <2>1, <2>2, ProjectParts DEF ProjectedPending
<1>4. QED
  BY <1>1, <1>2, <1>3 DEF OrderSound, Shown

\* What a cycle is given for one order: a record the fact may leave, and the
\* executions booked so far with some that the venue knows.
Given(o, t, S, M, pos) ==
  /\ Book([orders EXCEPT ![o] = t], [seen EXCEPT ![o] = S], [linked EXCEPT ![o] = M], pos)
  /\ pos \in Int /\ linked[o] \subseteq M /\ M \subseteq S
  /\ seen[o] \subseteq S /\ S \subseteq 1 .. vcum[o]
  /\ Becomes(orders[o], t, vlife[o], vcum[o])
  /\ o \notin approved => t = orders[o]
  /\ UNCHANGED <<load, vlife, vcum>> /\ external' \in Nat

\* The other orders stay as they are.
LEMMA BookOthers ==
  ASSUME IInv, NEW o \in Orders, NEW t, NEW S, NEW M, NEW pos, Given(o, t, S, M, pos),
         NEW p \in Orders \ {o}
  PROVE  orders'[p] = orders[p] /\ linked'[p] = linked[p] /\ seen'[p] = seen[p]
<1> DEFINE ords == [orders EXCEPT ![o] = t]
           known == [seen EXCEPT ![o] = S]
           matched == [linked EXCEPT ![o] = M]
<1>1. /\ orders \in [Orders -> OrderState] /\ seen \in [Orders -> SUBSET Nat]
      /\ linked \in [Orders -> SUBSET Nat]
  BY DEF IInv, TypeOK
<1>2. ords[p] = orders[p] /\ known[p] = seen[p] /\ matched[p] = linked[p]
  BY <1>1
<1>3. /\ seen' = known /\ linked' = Link(ords, known, matched)
      /\ orders' = ProjectAll(ords, linked')
  BY DEF Given, Book
<1> HIDE DEF ords, known, matched
<1>4. OrderSound(p)
  BY DEF IInv
<1>5. linked'[p] = linked[p]
  BY <1>2, <1>3, <1>4 DEF Link, OrderSound
<1>6. orders'[p] = orders[p]
  BY <1>2, <1>3, <1>4, <1>5 DEF ProjectAll, OrderSound, Shown
<1>7. QED
  BY <1>2, <1>3, <1>5, <1>6

\* The order itself moves on as the fact and the projection allow.
LEMMA BookOne ==
  ASSUME IInv, NEW o \in Orders, NEW t, NEW S, NEW M, NEW pos, Given(o, t, S, M, pos)
  PROVE  /\ OrderSound(o)' /\ Becomes(orders[o], orders'[o], vlife[o], vcum[o])
         /\ Quiet(orders[o], t) => Quiet(orders[o], orders'[o])
         /\ \A k : InFlight(t, k) => InFlight(orders'[o], k)
         /\ linked[o] \subseteq linked'[o] /\ linked'[o] \in SUBSET Nat /\ seen'[o] \in SUBSET Nat
         /\ o \notin approved => orders'[o] = orders[o]
<1> DEFINE ords == [orders EXCEPT ![o] = t]
           known == [seen EXCEPT ![o] = S]
           matched == [linked EXCEPT ![o] = M]
           vl == vlife[o]
           vc == vcum[o]
           L == IF t.venue THEN S ELSE M
           u == Project(t, Qty[o], Cardinality(L))
<1>1. /\ orders \in [Orders -> OrderState] /\ seen \in [Orders -> SUBSET Nat]
      /\ linked \in [Orders -> SUBSET Nat] /\ vlife' = vlife /\ vcum' = vcum
  BY DEF IInv, TypeOK, Given
<1>2. ords[o] = t /\ known[o] = S /\ matched[o] = M
  BY <1>1
<1>3. /\ seen' = known /\ linked' = Link(ords, known, matched)
      /\ orders' = ProjectAll(ords, linked') /\ approved' = approved
  BY DEF Given, Book
<1> HIDE DEF ords, known, matched
<1>4. /\ seen'[o] = S /\ linked'[o] = L
      /\ orders'[o] = IF o \in approved THEN u ELSE t
  BY <1>2, <1>3 DEF Link, ProjectAll
<1>5. /\ linked[o] \subseteq L /\ L \subseteq S /\ S \subseteq 1 .. vc /\ vc \in Nat
      /\ t.venue => L = S
  <2>1. linked[o] \subseteq M /\ M \subseteq S /\ S \subseteq 1 .. vc
    BY DEF Given
  <2>2. vc \in Nat
    BY DeskParts
  <2>3. QED
    BY <2>1, <2>2
<1>6. Cardinality(L) \in 0 .. vc
  <2>1. L \in SUBSET (1 .. vc) /\ L \in SUBSET L
    BY <1>5
  <2> HIDE DEF L
  <2>2. QED
    BY <1>5, <2>1, LotsCount
<1>7. /\ orders[o] \in OrderState /\ VenueSound(Qty[o], vl, vc)
      /\ Becomes(orders[o], t, vl, vc)
  BY DeskParts DEF Given
<1> HIDE DEF L
<1>8. /\ linked[o] \subseteq linked'[o] /\ linked'[o] \in SUBSET Nat
       /\ seen'[o] \in SUBSET Nat
  <2>1. 1 .. vc \subseteq Nat
    BY <1>5
  <2>2. QED
    BY <1>4, <1>5, <2>1
<1>9. CASE o \in approved
  <2>1. orders'[o] = u
    BY <1>4, <1>9
  <2>2. /\ Shown(u, Qty[o], vl, vc, Cardinality(L)) /\ Becomes(orders[o], u, vl, vc)
        /\ u.venue = t.venue /\ (Quiet(orders[o], t) => Quiet(orders[o], u))
        /\ \A k : InFlight(t, k) => InFlight(u, k)
    <3> DEFINE r == orders[o]
               q == Qty[o]
               n == Cardinality(L)
    <3>1. /\ n \in 0 .. vc /\ VenueSound(q, vl, vc) /\ r \in OrderState
          /\ Becomes(r, t, vl, vc)
      BY <1>6, <1>7
    <3> HIDE DEF r, q, n, vl, vc
    <3>2. LET v == Project(t, q, n) IN
            /\ Shown(v, q, vl, vc, n) /\ Becomes(r, v, vl, vc) /\ v.venue = t.venue
            /\ Quiet(r, t) => Quiet(r, v)
            /\ \A k : InFlight(t, k) => InFlight(v, k)
      BY <3>1, FactThenProject
    <3>3. QED
      BY <3>2 DEF r, q, n
  <2> HIDE DEF u
  <2>3. OrderSound(o)'
    BY <1>1, <1>4, <1>5, <1>7, <2>1, <2>2 DEF OrderSound
  <2>4. QED
    BY <1>9, <1>8, <2>1, <2>2, <2>3
<1>10. CASE o \notin approved
  <2>1. orders'[o] = t /\ t = orders[o]
    BY <1>4, <1>10 DEF Given
  <2>2. vc = 0
    <3>1. vl = "NONE"
      BY <1>10 DEF IInv, Untouched
    <3>2. QED
      BY <1>7, <3>1 DEF VenueSound
  <2>3. L = {} /\ linked[o] = {} /\ S = {}
    <3>1. 1 .. vc = {}
      BY <2>2
    <3> HIDE DEF vc
    <3>2. QED
      BY <1>5, <3>1
  <2>4. OrderSound(o)
    BY DEF IInv
  <2>5. OrderSound(o)'
    BY <1>1, <1>4, <2>1, <2>3, <2>4 DEF OrderSound
  <2>6. QED
    BY <1>4, <1>7, <1>8, <2>1, <2>5
<1>11. QED
  BY <1>9, <1>10

\* A cycle keeps the invariant, but for what the router holds.
LEMMA BookKeeps ==
  ASSUME IInv, NEW o \in Orders, NEW t, NEW S, NEW M, NEW pos, Given(o, t, S, M, pos),
         io' \in [phase : {"idle", "granted", "sent"}, ord : Orders, cmd : Nat]
  PROVE  /\ TypeOK' /\ Untouched' /\ OwnerSound' /\ ReplacesSound' /\ ReservesShown'
         /\ \A p \in Orders : OrderSound(p)'
         /\ Onward
<1> USE DeskAssumption
<1>1. /\ TypeOK /\ approved' = approved /\ vlife' = vlife /\ vcum' = vcum /\ load' = load
      /\ position' = pos /\ pos \in Int /\ external' \in Nat
      /\ resv' = Reallocate(orders', approved, pos)
      /\ owner' = ReleasedOwner(orders', approved, pos, owner)
  BY DEF IInv, Given, Book
<1>2. \A p \in Orders \ {o} : orders'[p] = orders[p] /\ linked'[p] = linked[p] /\ seen'[p] = seen[p]
  BY BookOthers
<1>3. /\ OrderSound(o)' /\ Becomes(orders[o], orders'[o], vlife[o], vcum[o])
      /\ linked[o] \subseteq linked'[o] /\ linked'[o] \in SUBSET Nat /\ seen'[o] \in SUBSET Nat
      /\ o \notin approved => orders'[o] = orders[o]
  BY BookOne
<1>4. \A p \in Orders : OrderSound(p)'
  <2>1. ASSUME NEW p \in Orders \ {o} PROVE OrderSound(p)'
    <3>1. OrderSound(p)
      BY DEF IInv
    <3>2. QED
      BY <1>1, <1>2, <3>1 DEF OrderSound
  <2>2. QED
    BY <1>3, <2>1
<1>5. \A p \in Orders : /\ orders'[p] \in OrderState /\ linked'[p] \in SUBSET Nat
                        /\ seen'[p] \in SUBSET Nat
  BY <1>1, <1>2, <1>3 DEF TypeOK, Becomes, Plausible
<1>6. /\ orders' \in [Orders -> OrderState] /\ linked' \in [Orders -> SUBSET Nat]
      /\ seen' \in [Orders -> SUBSET Nat]
  <2>1. /\ \E f : orders' = [p \in Orders |-> f[p]]
        /\ \E f : linked' = [p \in Orders |-> f[p]]
        /\ \E f : seen' = [p \in Orders |-> f[p]]
    <3> DEFINE ords == [orders EXCEPT ![o] = t]
               known == [seen EXCEPT ![o] = S]
               matched == [linked EXCEPT ![o] = M]
    <3>1. /\ seen' = known /\ linked' = Link(ords, known, matched)
          /\ orders' = ProjectAll(ords, linked')
      BY DEF Given, Book
    <3>2. orders' = [p \in Orders |-> orders'[p]] /\ linked' = [p \in Orders |-> linked'[p]]
      BY <3>1 DEF ProjectAll, Link
    <3>3. seen' = [p \in Orders |-> seen'[p]]
      BY <1>1, <3>1 DEF TypeOK
    <3>4. QED
      BY <3>2, <3>3
  <2>2. QED
    BY <1>5, <2>1
<1>7. \A p \in Orders : LifeKept(orders[p], orders'[p]) /\ Moves(orders[p], orders'[p])
  <2>1. ASSUME NEW p \in Orders \ {o} PROVE LifeKept(orders[p], orders'[p]) /\ Moves(orders[p], orders'[p])
    BY <1>2, <2>1 DEF LifeKept, Moves, Transition
  <2>2. QED
    BY <1>3, <2>1 DEF Becomes
<1>8. Untouched'
  BY <1>1, <1>2, <1>3 DEF Untouched, IInv
<1>9. \A p \in Orders : /\ Cardinality(linked[p]) <= Cardinality(linked'[p])
                        /\ Cardinality(linked[p]) \in 0 .. vcum[p]
                        /\ Cardinality(linked'[p]) \in 0 .. vcum[p]
                        /\ VenueSound(Qty[p], vlife[p], vcum[p]) /\ vcum[p] \in Nat
                        /\ Shown(orders'[p], Qty[p], vlife[p], vcum[p], Cardinality(linked'[p]))
  <2>1. ASSUME NEW p \in Orders
        PROVE  /\ Cardinality(linked[p]) <= Cardinality(linked'[p])
               /\ Cardinality(linked[p]) \in 0 .. vcum[p]
               /\ Cardinality(linked'[p]) \in 0 .. vcum[p]
               /\ VenueSound(Qty[p], vlife[p], vcum[p]) /\ vcum[p] \in Nat
               /\ Shown(orders'[p], Qty[p], vlife[p], vcum[p], Cardinality(linked'[p]))
    <3>1. /\ linked[p] \subseteq linked'[p] /\ linked'[p] \subseteq 1 .. vcum[p] /\ vcum[p] \in Nat
          /\ VenueSound(Qty[p], vlife[p], vcum[p])
          /\ Shown(orders'[p], Qty[p], vlife[p], vcum[p], Cardinality(linked'[p]))
      BY <1>1, <1>2, <1>3, <1>4, DeskParts DEF OrderSound
    <3>2. QED
      BY <3>1, LotsCount
  <2>2. QED
    BY <2>1
<1>10. OwnerSound'
  <2>1. SUFFICES ASSUME owner' = NoOwner, NEW p \in approved, ~ReduceOnly[p]
                 PROVE  orders'[p].life \in TERMINAL /\ Cardinality(linked'[p]) = vcum[p]
    BY <1>1 DEF OwnerSound
  <2>2. p \in Orders
    BY <1>1 DEF TypeOK
  <2>3. CASE \A x \in approved : orders'[x].life \in TERMINAL /\ ReservedLots(orders'[x], Qty[x]) = 0
    BY <1>9, <2>2, <2>3, EndedIsBooked
  <2>4. CASE owner = NoOwner
    <3>1. orders[p].life \in TERMINAL /\ Cardinality(linked[p]) = vcum[p]
      BY <2>1, <2>4 DEF IInv, OwnerSound
    <3>2. orders'[p].life \in TERMINAL
      BY <1>7, <2>2, <3>1 DEF LifeKept, TERMINAL
    <3>3. QED
      BY <1>9, <2>2, <3>1, <3>2
  <2>5. QED
    BY <1>1, <2>1, <2>3, <2>4 DEF ReleasedOwner
<1>11. ReplacesSound'
  <2>1. SUFFICES ASSUME NEW p \in approved, Replaces[p] # p
                 PROVE  /\ Replaces[p] \in approved /\ orders'[Replaces[p]].life \in TERMINAL
                        /\ Qty[p] + vcum[Replaces[p]] <= Qty[Replaces[p]]
    BY <1>1 DEF ReplacesSound
  <2>2. /\ Replaces[p] \in approved /\ orders[Replaces[p]].life \in TERMINAL
        /\ Qty[p] + vcum[Replaces[p]] <= Qty[Replaces[p]]
    BY <2>1 DEF IInv, ReplacesSound
  <2>3. orders'[Replaces[p]].life \in TERMINAL
    BY <1>1, <1>7, <2>2 DEF LifeKept, TERMINAL, TypeOK
  <2>4. QED
    BY <2>2, <2>3
<1>12. TypeOK'
  <2>1. owner' \in {Owner[x] : x \in Orders} \cup {NoOwner}
    BY <1>1 DEF TypeOK, ReleasedOwner
  <2>2. QED
    BY <1>1, <1>6, <2>1 DEF TypeOK
<1>13. QED
  BY <1>1, <1>4, <1>7, <1>8, <1>10, <1>11, <1>12 DEF ReservesShown, Onward
-----------------------------------------------------------------------------
(* The operations.                                                         *)

\* A cycle that leaves the router alone or finds it done.
LEMMA CycleKeeps ==
  ASSUME IInv, NEW o \in Orders, NEW t, NEW S, NEW M, NEW pos, Given(o, t, S, M, pos),
         \/ UNCHANGED io /\ Quiet(orders[o], t)
         \/ io' = Idle
  PROVE  IInv' /\ Onward
<1>1. Idle \in [phase : {"idle", "granted", "sent"}, ord : Orders, cmd : Nat] /\ Idle.phase = "idle"
  BY DeskAssumption DEF Idle
<1>2. io' \in [phase : {"idle", "granted", "sent"}, ord : Orders, cmd : Nat]
  BY <1>1 DEF IInv, TypeOK
<1>3. /\ TypeOK' /\ Untouched' /\ OwnerSound' /\ ReplacesSound' /\ ReservesShown'
      /\ \A p \in Orders : OrderSound(p)'
      /\ Onward
  BY <1>2, BookKeeps
<1>4. RouterSound'
  <2>1. CASE io' = Idle
    BY <1>1, <2>1 DEF RouterSound
  <2>2. CASE UNCHANGED io /\ Quiet(orders[o], t)
    <3>1. SUFFICES ASSUME io.phase # "idle"
                   PROVE  /\ io.ord \in approved' /\ InFlight(orders'[io.ord], io.cmd)
                          /\ io.phase = "granted" /\ io.cmd = 0 => vlife'[io.ord] = "NONE"
      BY <2>2 DEF RouterSound
    <3>2. /\ io.ord \in approved /\ InFlight(orders[io.ord], io.cmd) /\ io.ord \in Orders
          /\ io.phase = "granted" /\ io.cmd = 0 => vlife[io.ord] = "NONE"
          /\ approved' = approved /\ vlife' = vlife
      BY <3>1 DEF IInv, RouterSound, TypeOK, Given, Book
    <3>3. CASE io.ord # o
      BY <3>2, <3>3, BookOthers
    <3>4. CASE io.ord = o
      <4>1. /\ Quiet(orders[o], orders'[o]) /\ Moves(orders[o], orders'[o])
            /\ orders[o] \in OrderState /\ orders'[o] \in OrderState
        BY <2>2, BookOne, DeskParts DEF Becomes, Plausible
      <4>2. QED
        BY <3>2, <3>4, <4>1, InFlightKept
    <3>5. QED
      BY <3>2, <3>3, <3>4
  <2>3. QED
    BY <2>1, <2>2
<1>5. QED
  BY <1>3, <1>4 DEF IInv

\* A fact of one order without an execution.
LEMMA FactGiven ==
  ASSUME IInv, NEW o \in approved, NEW t, Fact(o, t), Becomes(orders[o], t, vlife[o], vcum[o]),
         UNCHANGED <<load, venue, external>>
  PROVE  o \in Orders /\ Given(o, t, seen[o], linked[o], position)
<1>1. /\ o \in Orders /\ seen \in [Orders -> SUBSET Nat] /\ linked \in [Orders -> SUBSET Nat]
      /\ position \in Int /\ external \in Nat
  BY DEF IInv, TypeOK
<1>2. [seen EXCEPT ![o] = seen[o]] = seen /\ [linked EXCEPT ![o] = linked[o]] = linked
  BY <1>1
<1>3. linked[o] \subseteq seen[o] /\ seen[o] \subseteq 1 .. vcum[o]
  BY <1>1 DEF IInv, OrderSound
<1>4. QED
  BY <1>1, <1>2, <1>3 DEF Given, Fact, venue

\* Nothing but the router changes.
LEMMA ReleaseKeeps ==
  ASSUME IInv, UNCHANGED <<load, writer, venue, external>>, io' = Idle
  PROVE  IInv' /\ Onward
<1>1. Idle \in [phase : {"idle", "granted", "sent"}, ord : Orders, cmd : Nat] /\ Idle.phase = "idle"
  BY DeskAssumption DEF Idle
<1>2. UNCHANGED <<load, approved, orders, seen, linked, position, resv, owner, vlife, vcum, external>>
  BY DEF writer, venue
<1>3. TypeOK' /\ RouterSound'
  BY <1>1, <1>2 DEF IInv, TypeOK, RouterSound
<1>4. Untouched' /\ OwnerSound' /\ ReplacesSound' /\ ReservesShown'
  BY <1>2 DEF IInv, Untouched, OwnerSound, ReplacesSound, ReservesShown
<1>5. \A o \in Orders : OrderSound(o)'
  BY <1>2 DEF IInv, OrderSound
<1>6. Onward
  BY <1>2 DEF Onward, Moves, LifeKept, Transition
<1>7. QED
  BY <1>3, <1>4, <1>5, <1>6 DEF IInv

LEMMA CancelRequestKeeps ==
  ASSUME IInv, NEW o \in Orders, CancelRequest(o), UNCHANGED load
  PROVE  IInv' /\ Onward
<1> DEFINE t == OnCancelRequested(orders[o])
<1>1. /\ o \in approved /\ ~CancelIgnored(orders[o]) /\ Fact(o, t)
      /\ UNCHANGED <<load, io, venue, external>>
  BY DEF CancelRequest
<1>2. Becomes(orders[o], t, vlife[o], vcum[o]) /\ Quiet(orders[o], t)
  BY <1>1, DeskParts, CancelBecomes
<1> HIDE DEF t
<1>3. QED
  BY <1>1, <1>2, FactGiven, CycleKeeps

LEMMA GrantKeeps ==
  ASSUME IInv, NEW o \in approved, NEW k \in 0 .. Len(orders[o].can), Grant(o, k),
         UNCHANGED load
  PROVE  IInv' /\ Onward
<1> DEFINE t == OnDispatchStarted(orders[o], k)
<1>1. /\ o \in Orders /\ k \in Cmds(orders[o]) /\ k \in Nat
  <2>1. o \in Orders
    BY DEF IInv, TypeOK
  <2>2. Len(orders[o].can) \in Nat /\ DOMAIN orders[o].can = 1 .. Len(orders[o].can)
    BY <2>1, DeskParts, OrderParts
  <2>3. QED
    BY <2>1, <2>2 DEF Cmds
<1>2. /\ CommandOf(orders[o], k) = "PENDING" /\ orders[o].life \notin TERMINAL
      /\ Fact(o, t) /\ io' = [phase |-> "granted", ord |-> o, cmd |-> k]
      /\ UNCHANGED <<load, venue, external>>
  BY DEF Grant, Dispatchable
<1>3. /\ Becomes(orders[o], t, vlife[o], vcum[o]) /\ InFlight(t, k)
      /\ k = 0 => vlife[o] = "NONE"
  BY <1>1, <1>2, DeskParts, GrantBecomes
<1> HIDE DEF t
<1>4. Given(o, t, seen[o], linked[o], position)
  BY <1>2, <1>3, FactGiven
<1>5. io' \in [phase : {"idle", "granted", "sent"}, ord : Orders, cmd : Nat]
  BY <1>1, <1>2
<1>6. /\ TypeOK' /\ Untouched' /\ OwnerSound' /\ ReplacesSound' /\ ReservesShown'
      /\ \A p \in Orders : OrderSound(p)'
      /\ Onward
  BY <1>1, <1>4, <1>5, BookKeeps
<1>7. RouterSound'
  <2>1. InFlight(orders'[o], k)
    BY <1>1, <1>3, <1>4, BookOne
  <2>2. approved' = approved /\ vlife' = vlife
    BY <1>4 DEF Given, Book
  <2>3. QED
    BY <1>2, <1>3, <2>1, <2>2 DEF RouterSound
<1>8. QED
  BY <1>6, <1>7 DEF IInv

LEMMA ExpireQueuedKeeps ==
  ASSUME IInv, NEW o \in approved, NEW k \in 0 .. Len(orders[o].can), ExpireQueued(o, k),
         UNCHANGED load
  PROVE  IInv' /\ Onward
<1> DEFINE t == OnUnsentAborted(orders[o], k, "EXPIRED")
<1>1. o \in Orders /\ k \in Cmds(orders[o])
  <2>1. o \in Orders
    BY DEF IInv, TypeOK
  <2>2. DOMAIN orders[o].can = 1 .. Len(orders[o].can) /\ Len(orders[o].can) \in Nat
    BY <2>1, DeskParts, OrderParts
  <2>3. QED
    BY <2>1, <2>2 DEF Cmds
<1>2. /\ CommandOf(orders[o], k) = "PENDING" /\ Fact(o, t)
      /\ UNCHANGED <<load, io, venue, external>>
  BY DEF ExpireQueued
<1>3. k = 0 => vlife[o] = "NONE"
  BY <1>1, <1>2, DeskParts DEF CommandOf, Plausible, CommandsSound
<1>4. Becomes(orders[o], t, vlife[o], vcum[o]) /\ Quiet(orders[o], t)
  BY <1>1, <1>2, <1>3, DeskParts, AbortBecomes DEF AbortReason
<1> HIDE DEF t
<1>5. QED
  BY <1>1, <1>2, <1>4, FactGiven, CycleKeeps

LEMMA AbortKeeps ==
  ASSUME IInv, NEW reason \in AbortReason, Abort(reason), UNCHANGED load
  PROVE  IInv' /\ Onward
<1> DEFINE o == io.ord
           k == io.cmd
           t == OnUnsentAborted(orders[o], k, reason)
<1>1. /\ io.phase = "granted" /\ io' = Idle /\ UNCHANGED <<load, venue, external>>
      /\ IF CommandOf(orders[o], k) = "UNKNOWN" THEN Fact(o, t) ELSE UNCHANGED writer
  BY DEF Abort
<1>2. /\ o \in approved /\ o \in Orders /\ k \in Cmds(orders[o]) /\ (k = 0 => vlife[o] = "NONE")
  BY <1>1 DEF IInv, RouterSound, TypeOK, InFlight
<1> HIDE DEF o, k, t
<1>3. CASE CommandOf(orders[o], k) = "UNKNOWN"
  <2>1. Becomes(orders[o], t, vlife[o], vcum[o])
    BY <1>2, <1>3, DeskParts, AbortBecomes DEF t
  <2>2. QED
    BY <1>1, <1>2, <1>3, <2>1, FactGiven, CycleKeeps
<1>4. CASE CommandOf(orders[o], k) # "UNKNOWN"
  BY <1>1, <1>4, ReleaseKeeps DEF writer
<1>5. QED
  BY <1>3, <1>4

LEMMA ObserveKeeps ==
  ASSUME IInv, NEW result \in TransportResult, Observe(result), UNCHANGED load
  PROVE  IInv' /\ Onward
<1> DEFINE o == io.ord
           k == io.cmd
           t == IF k = 0 THEN OnSubmitResult(orders[o], result)
                         ELSE OnCancelResult(orders[o], k, result)
<1>1. /\ io.phase = "sent" /\ io' = Idle /\ Fact(o, t) /\ UNCHANGED <<load, venue, external>>
      /\ k = 0 /\ result = "VENUE_REJECTED" => vlife[o] = "REJECTED"
  BY DEF Observe
<1>2. /\ o \in approved /\ o \in Orders /\ InFlight(orders[o], k) /\ k \in Cmds(orders[o])
  BY <1>1 DEF IInv, RouterSound, TypeOK, InFlight
<1> HIDE DEF o, k
<1>3. Becomes(orders[o], t, vlife[o], vcum[o])
  <2>1. CASE k = 0
    BY <1>1, <1>2, <2>1, DeskParts, SubmitResultBecomes
  <2>2. CASE k # 0
    BY <1>2, <2>2, DeskParts, CancelResultBecomes DEF Cmds
  <2>3. QED
    BY <2>1, <2>2
<1> HIDE DEF t
<1>4. QED
  BY <1>1, <1>2, <1>3, FactGiven, CycleKeeps
-----------------------------------------------------------------------------
(* The venue and what it reports.                                          *)

\* What the venue does with an approved order keeps the records plausible.
LEMMA VenueKeeps ==
  ASSUME IInv, NEW o \in approved, NEW vl, NEW vc, UNCHANGED <<load, writer, external>>,
         vlife' = [vlife EXCEPT ![o] = vl], vcum' = [vcum EXCEPT ![o] = vc],
         VenueSound(Qty[o], vl, vc), vcum[o] <= vc, EndsAsVenue(orders[o], vl, vc),
         orders[o].sub = "PENDING" => vl = "NONE",
         vc # vcum[o] => vlife[o] = "OPEN",
         io' \in [phase : {"idle", "granted", "sent"}, ord : Orders, cmd : Nat]
  PROVE  /\ TypeOK' /\ Untouched' /\ OwnerSound' /\ ReplacesSound' /\ ReservesShown'
         /\ \A p \in Orders : OrderSound(p)'
         /\ Onward
<1>1. /\ TypeOK /\ o \in Orders /\ approved \subseteq Orders
      /\ UNCHANGED <<load, approved, orders, seen, linked, position, resv, owner, external>>
  BY DEF IInv, TypeOK, writer
<1>2. /\ vlife'[o] = vl /\ vcum'[o] = vc /\ vl \in VenueLife /\ vc \in Nat
      /\ \A p \in Orders \ {o} : vlife'[p] = vlife[p] /\ vcum'[p] = vcum[p]
  BY <1>1 DEF TypeOK, VenueSound
<1>3. TypeOK'
  BY <1>1, <1>2 DEF TypeOK, VenueLife
<1>4. Untouched' /\ ReservesShown'
  BY <1>1, <1>2 DEF IInv, Untouched, ReservesShown
<1>5. \A p \in Orders : OrderSound(p)'
  <2>1. ASSUME NEW p \in Orders \ {o} PROVE OrderSound(p)'
    <3>1. OrderSound(p)
      BY DEF IInv
    <3>2. QED
      BY <1>1, <1>2, <3>1 DEF OrderSound
  <2>2. OrderSound(o)'
    <3>1. OrderSound(o) /\ vcum[o] \in Nat
      BY <1>1, DeskParts DEF IInv
    <3>2. CommandsSound(orders[o], vl)
      BY <3>1 DEF OrderSound, Shown, Plausible, CommandsSound
    <3>3. Shown(orders[o], Qty[o], vl, vc, Cardinality(linked[o]))
      BY <3>1, <3>2 DEF OrderSound, Shown, Plausible
    <3>4. seen[o] \subseteq 1 .. vc
      BY <1>2, <3>1 DEF OrderSound
    <3>5. QED
      BY <1>1, <1>2, <3>1, <3>3, <3>4 DEF OrderSound
  <2>3. QED
    BY <2>1, <2>2
<1>6. \A p \in Orders : orders[p].life \in TERMINAL => vcum'[p] = vcum[p]
  <2>1. orders[o].life \in TERMINAL => vlife[o] # "OPEN"
    BY <1>1, DeskParts, ReservedCovers
  <2>2. QED
    BY <1>2, <2>1
<1>7. OwnerSound'
  BY <1>1, <1>6 DEF IInv, OwnerSound
<1>8. ReplacesSound'
  BY <1>1, <1>6 DEF IInv, ReplacesSound
<1>9. Onward
  BY <1>1 DEF Onward, Moves, LifeKept, Transition
<1>10. QED
  BY <1>3, <1>4, <1>5, <1>7, <1>8, <1>9

LEMMA HandoffKeeps ==
  ASSUME IInv, Handoff, UNCHANGED load
  PROVE  IInv' /\ Onward
<1> DEFINE o == io.ord
           k == io.cmd
           vl == IF k = 0 THEN "FLIGHT" ELSE vlife[o]
<1>1. /\ io.phase = "granted" /\ orders[o].life \notin TERMINAL
      /\ CommandOf(orders[o], k) = "UNKNOWN"
      /\ io' = [io EXCEPT !.phase = "sent"]
      /\ vlife' = IF k = 0 THEN [vlife EXCEPT ![o] = "FLIGHT"] ELSE vlife
      /\ UNCHANGED <<load, writer, external>> /\ vcum' = vcum
  BY DEF Handoff, Dispatchable
<1>2. /\ o \in approved /\ o \in Orders /\ InFlight(orders[o], k)
      /\ k = 0 => vlife[o] = "NONE"
      /\ io \in [phase : {"idle", "granted", "sent"}, ord : Orders, cmd : Nat]
      /\ TypeOK
  BY <1>1 DEF IInv, RouterSound, TypeOK
<1>3. /\ io' \in [phase : {"idle", "granted", "sent"}, ord : Orders, cmd : Nat]
      /\ io'.phase = "sent" /\ io'.ord = o /\ io'.cmd = k
  BY <1>1, <1>2
<1> HIDE DEF o, k
<1>4. vlife' = [vlife EXCEPT ![o] = vl] /\ vcum' = [vcum EXCEPT ![o] = vcum[o]]
  BY <1>1, <1>2 DEF TypeOK
<1>5. /\ VenueSound(Qty[o], vlife[o], vcum[o]) /\ Plausible(orders[o], vlife[o], vcum[o])
      /\ vcum[o] \in Nat /\ Qty[o] \in Nat \ {0}
  BY <1>2, DeskParts
<1>6. VenueSound(Qty[o], vl, vcum[o])
  BY <1>2, <1>5 DEF VenueSound, VenueLife
<1>7. EndsAsVenue(orders[o], vl, vcum[o])
  BY <1>1, <1>5 DEF EndsAsVenue, Plausible, TERMINAL
<1>8. orders[o].sub = "PENDING" => vl = "NONE"
  BY <1>1, <1>5 DEF Plausible, CommandsSound, CommandOf
<1> HIDE DEF vl
<1>9. /\ TypeOK' /\ Untouched' /\ OwnerSound' /\ ReplacesSound' /\ ReservesShown'
      /\ \A p \in Orders : OrderSound(p)'
      /\ Onward
  <2> DEFINE vc == vcum[o]
  <2>1. /\ vcum' = [vcum EXCEPT ![o] = vc] /\ vcum[o] <= vc
        /\ VenueSound(Qty[o], vl, vc) /\ EndsAsVenue(orders[o], vl, vc)
        /\ vc # vcum[o] => vlife[o] = "OPEN"
    BY <1>4, <1>5, <1>6, <1>7
  <2> HIDE DEF vc
  <2>2. QED
    BY <1>1, <1>2, <1>3, <1>4, <1>8, <2>1, VenueKeeps
<1>10. RouterSound'
  BY <1>1, <1>2, <1>3 DEF RouterSound, writer
<1>11. QED
  BY <1>9, <1>10 DEF IInv

LEMMA VenueStepKeeps ==
  ASSUME IInv, VenueStep, UNCHANGED load
  PROVE  IInv' /\ Onward
<1>1. PICK o \in approved : VenueReceive(o) \/ VenueFill(o) \/ VenueCancel(o)
  BY DEF VenueStep
<1>2. /\ o \in Orders /\ vlife[o] \in {"FLIGHT", "OPEN"}
      /\ UNCHANGED <<load, writer, io, external>> /\ TypeOK
  BY <1>1 DEF IInv, TypeOK, VenueReceive, VenueFill, VenueCancel
<1>3. /\ VenueSound(Qty[o], vlife[o], vcum[o]) /\ Plausible(orders[o], vlife[o], vcum[o])
      /\ vcum[o] \in Nat /\ Qty[o] \in Nat \ {0} /\ vcum[o] \in 0 .. Qty[o]
      /\ orders[o].rep \in Nat /\ orders[o].life \in Lifecycle
  BY <1>2, DeskParts, OrderParts
<1>4. orders[o].life \notin TERMINAL /\ orders[o].sub # "PENDING" /\ orders[o].rep <= vcum[o]
  BY <1>2, <1>3 DEF Plausible, EndsAsVenue, CommandsSound, TERMINAL
<1>5. io' \in [phase : {"idle", "granted", "sent"}, ord : Orders, cmd : Nat]
  BY <1>2 DEF TypeOK
<1>6. \E vl, vc : /\ vlife' = [vlife EXCEPT ![o] = vl] /\ vcum' = [vcum EXCEPT ![o] = vc]
                  /\ VenueSound(Qty[o], vl, vc) /\ vcum[o] <= vc
                  /\ vc # vcum[o] => vlife[o] = "OPEN"
  <2>1. CASE VenueReceive(o)
    <3>1. PICK l \in {"OPEN", "REJECTED"} : vlife' = [vlife EXCEPT ![o] = l]
      BY <2>1 DEF VenueReceive
    <3>2. vcum' = [vcum EXCEPT ![o] = vcum[o]] /\ vcum[o] = 0
      BY <1>2, <1>3, <2>1 DEF VenueReceive, VenueSound, TypeOK
    <3>3. VenueSound(Qty[o], l, vcum[o])
      BY <1>3, <3>2 DEF VenueSound, VenueLife
    <3>4. WITNESS l, vcum[o]
    <3>5. QED
      BY <1>3, <3>1, <3>2, <3>3
  <2>2. CASE VenueFill(o)
    <3> DEFINE l == IF vcum[o] + 1 = Qty[o] THEN "FILLED" ELSE "OPEN"
    <3>1. /\ vlife' = [vlife EXCEPT ![o] = l] /\ vcum' = [vcum EXCEPT ![o] = vcum[o] + 1]
          /\ vlife[o] = "OPEN"
      BY <2>2 DEF VenueFill
    <3>2. VenueSound(Qty[o], l, vcum[o] + 1)
      BY <1>3, <3>1 DEF VenueSound, VenueLife
    <3> HIDE DEF l
    <3>3. WITNESS l, vcum[o] + 1
    <3>4. QED
      BY <1>3, <3>1, <3>2
  <2>3. CASE VenueCancel(o)
    <3>1. vlife' = [vlife EXCEPT ![o] = "CANCELED"] /\ vlife[o] = "OPEN"
      BY <2>3 DEF VenueCancel
    <3>2. vcum' = [vcum EXCEPT ![o] = vcum[o]]
      BY <1>2, <2>3 DEF VenueCancel, TypeOK
    <3>3. VenueSound(Qty[o], "CANCELED", vcum[o])
      BY <1>3, <3>1 DEF VenueSound, VenueLife
    <3>4. WITNESS "CANCELED", vcum[o]
    <3>5. QED
      BY <1>3, <3>1, <3>2, <3>3
  <2>4. QED
    BY <1>1, <2>1, <2>2, <2>3
<1>7. PICK vl, vc : /\ vlife' = [vlife EXCEPT ![o] = vl] /\ vcum' = [vcum EXCEPT ![o] = vc]
                    /\ VenueSound(Qty[o], vl, vc) /\ vcum[o] <= vc
                    /\ vc # vcum[o] => vlife[o] = "OPEN"
  BY <1>6
<1>8. EndsAsVenue(orders[o], vl, vc)
  BY <1>3, <1>4, <1>7 DEF EndsAsVenue, VenueSound, TERMINAL
<1>9. /\ TypeOK' /\ Untouched' /\ OwnerSound' /\ ReplacesSound' /\ ReservesShown'
      /\ \A p \in Orders : OrderSound(p)'
      /\ Onward
  BY <1>2, <1>4, <1>5, <1>7, <1>8, VenueKeeps
<1>10. RouterSound'
  <2>1. \A p \in Orders : vlife[p] = "NONE" => vlife'[p] = "NONE"
    BY <1>2, <1>7 DEF TypeOK
  <2>2. QED
    BY <1>2, <2>1 DEF IInv, RouterSound, TypeOK, writer
<1>11. QED
  BY <1>9, <1>10 DEF IInv

LEMMA ReportKeeps ==
  ASSUME IInv, NEW o \in approved, NEW status, NEW lots, Report(o, status, lots),
         UNCHANGED load
  PROVE  IInv' /\ Onward
<1> DEFINE t == OnOrderReport(orders[o], Qty[o], status, lots, TRUE)
<1>1. o \in Orders /\ <<status, lots>> \in Snapshots(o) /\ Fact(o, t)
      /\ UNCHANGED <<load, io, venue, external>>
  BY DEF Report, IInv, TypeOK
<1>2. /\ vcum[o] \in Nat /\ vlife[o] \in VenueLife /\ Qty[o] \in Nat
  BY <1>1, DeskParts
<1>3. /\ status \in Lifecycle /\ lots \in 0 .. vcum[o] /\ vlife[o] # "NONE"
      /\ status \in TERMINAL => vlife[o] = status /\ lots = vcum[o]
  <2>1. CASE /\ vlife[o] \in {"OPEN", "FILLED", "CANCELED"}
             /\ <<status, lots>> \in {<<IF c = 0 THEN "OPEN" ELSE "PARTIALLY_FILLED", c>> :
                                        c \in 0 .. Smaller(vcum[o], Qty[o] - 1)}
    <3>1. PICK c \in 0 .. Smaller(vcum[o], Qty[o] - 1) :
            <<status, lots>> = <<IF c = 0 THEN "OPEN" ELSE "PARTIALLY_FILLED", c>>
      BY <2>1
    <3>2. status \in {"OPEN", "PARTIALLY_FILLED"} /\ lots = c
      BY <3>1
    <3>3. c \in 0 .. vcum[o]
      BY <1>2, <3>1 DEF Smaller
    <3>4. QED
      BY <2>1, <3>2, <3>3 DEF Lifecycle, TERMINAL
  <2>2. CASE vlife[o] \in TERMINAL /\ <<status, lots>> \in {<<vlife[o], vcum[o]>>}
    <3>1. status = vlife[o] /\ lots = vcum[o]
      BY <2>2
    <3>2. QED
      BY <1>2, <2>2, <3>1 DEF VenueLife, Lifecycle, TERMINAL
  <2>3. QED
    BY <1>1, <2>1, <2>2 DEF Snapshots
<1>4. Becomes(orders[o], t, vlife[o], vcum[o]) /\ Quiet(orders[o], t)
  BY <1>1, <1>3, DeskParts, ReportBecomes
<1> HIDE DEF t
<1>5. QED
  BY <1>1, <1>4, FactGiven, CycleKeeps

LEMMA ExecutionKeeps ==
  ASSUME IInv, NEW o \in approved, NEW i \in 1 .. vcum[o], NEW client \in BOOLEAN,
         NEW venueId \in BOOLEAN, Execution(o, i, client, venueId), UNCHANGED load
  PROVE  IInv' /\ Onward
<1> DEFINE t == IF client \/ orders[o].venue THEN OnExecution(orders[o], venueId) ELSE orders[o]
           S == seen[o] \cup {i}
           M == IF client THEN linked[o] \cup {i} ELSE linked[o]
           pos == IF i \in seen[o] THEN position ELSE position + Signed(o, 1)
<1>1. /\ o \in Orders /\ UNCHANGED <<load, io, venue, external>>
      /\ Book([orders EXCEPT ![o] = t], [seen EXCEPT ![o] = S], [linked EXCEPT ![o] = M], pos)
  BY DEF Execution, IInv, TypeOK
<1>2. /\ linked[o] \subseteq seen[o] /\ seen[o] \subseteq 1 .. vcum[o] /\ position \in Int
      /\ external \in Nat
  BY <1>1 DEF IInv, OrderSound, TypeOK
<1>3. pos \in Int
  BY <1>2 DEF Signed
<1>4. Becomes(orders[o], t, vlife[o], vcum[o]) /\ Quiet(orders[o], t)
  <2>1. CASE client \/ orders[o].venue
    BY <1>1, <2>1, DeskParts, ExecutionBecomes
  <2>2. CASE ~(client \/ orders[o].venue)
    <3>1. t = orders[o] /\ Plausible(orders[o], vlife[o], vcum[o])
      BY <1>1, <2>2, DeskParts
    <3>2. QED
      BY <3>1 DEF Becomes, Moves, LifeKept, Quiet, Transition
  <2>3. QED
    BY <2>1, <2>2
<1>5. linked[o] \subseteq M /\ M \subseteq S /\ seen[o] \subseteq S /\ S \subseteq 1 .. vcum[o]
  BY <1>2
<1> HIDE DEF t, S, M, pos
<1>6. Given(o, t, S, M, pos)
  BY <1>1, <1>2, <1>3, <1>4, <1>5 DEF Given, venue
<1>7. QED
  BY <1>1, <1>4, <1>6, CycleKeeps

LEMMA ExternalFillKeeps ==
  ASSUME IInv, NEW lots \in {-1, 1}, ExternalFill(lots), UNCHANGED load
  PROVE  IInv' /\ Onward
<1>1. PICK o \in Orders : TRUE
  BY DeskAssumption
<1>2. /\ Book(orders, seen, linked, position + lots) /\ external' = external + 1
      /\ UNCHANGED <<load, io, vlife, vcum>> /\ TypeOK
  BY DEF ExternalFill, venue, IInv
<1>3. /\ [orders EXCEPT ![o] = orders[o]] = orders /\ [seen EXCEPT ![o] = seen[o]] = seen
      /\ [linked EXCEPT ![o] = linked[o]] = linked
  BY <1>2 DEF TypeOK
<1>4. linked[o] \subseteq seen[o] /\ seen[o] \subseteq 1 .. vcum[o]
  BY DEF IInv, OrderSound
<1>5. Becomes(orders[o], orders[o], vlife[o], vcum[o]) /\ Quiet(orders[o], orders[o])
  BY DeskParts DEF Becomes, Moves, LifeKept, Quiet, Transition
<1>6. position + lots \in Int /\ external' \in Nat
  BY <1>2 DEF TypeOK
<1>7. Given(o, orders[o], seen[o], linked[o], position + lots)
  BY <1>2, <1>3, <1>4, <1>5, <1>6 DEF Given
<1>8. QED
  BY <1>2, <1>5, <1>7, CycleKeeps
-----------------------------------------------------------------------------
(* Approval, and the invariant.                                            *)

LEMMA ApproveKeeps ==
  ASSUME IInv, NEW o \in Orders, Approve(o), UNCHANGED load
  PROVE  IInv' /\ Onward
<1> DEFINE held == IF ReduceOnly[o] THEN owner ELSE Owner[o]
<1>1. /\ TypeOK /\ o \notin approved /\ approved' = approved \cup {o}
      /\ UNCHANGED <<load, orders, seen, linked, position, io, vlife, vcum, external>>
      /\ resv' = Reallocate(orders, approved', position)
      /\ owner' = ReleasedOwner(orders, approved', position, held)
  BY DEF IInv, Approve, venue
<1>2. orders[o] = NewOrder /\ o \in approved'
  BY <1>1 DEF IInv, Untouched
<1>3. owner' = held
  BY <1>1, <1>2 DEF ReleasedOwner, NewOrder, TERMINAL
<1>4. TypeOK'
  <2>1. held \in {Owner[p] : p \in Orders} \cup {NoOwner}
    BY <1>1 DEF TypeOK
  <2> HIDE DEF held
  <2>2. QED
    BY <1>1, <1>3, <2>1 DEF TypeOK
<1>5. Untouched' /\ RouterSound' /\ ReservesShown'
  BY <1>1 DEF IInv, Untouched, RouterSound, ReservesShown
<1>6. OwnerSound'
  <2>1. Owner[o] # NoOwner
    BY DeskAssumption
  <2>2. QED
    BY <1>1, <1>3, <2>1 DEF IInv, OwnerSound
<1>7. ReplacesSound'
  <2>1. ASSUME Replaces[o] # o
        PROVE  /\ Replaces[o] \in approved /\ orders[Replaces[o]].life \in TERMINAL
               /\ Qty[o] + vcum[Replaces[o]] <= Qty[Replaces[o]]
    <3> DEFINE p == Replaces[o]
               r == orders[p]
    <3>1. p \in approved /\ p \in Orders /\ MayReplace(r, Qty[p], Qty[o])
      BY <1>1, <2>1 DEF Approve, TypeOK
    <3> HIDE DEF p
    <3>2. /\ Plausible(r, vlife[p], vcum[p]) /\ VenueSound(Qty[p], vlife[p], vcum[p])
          /\ r \in OrderState /\ Qty[p] \in Nat /\ Qty[o] \in Nat \ {0} /\ vcum[p] \in Nat
      BY <3>1, DeskParts
    <3>3. r.rep \in Nat /\ r.acc \in Nat
      BY <3>2, OrderParts
    <3>4. r.life = "CANCELED" /\ Qty[o] <= Larger(0, Qty[p] - Larger(r.rep, r.acc))
      BY <3>1 DEF MayReplace, CanceledRemainderLots, TERMINAL
    <3>5. Qty[o] + r.rep <= Qty[p]
      BY <3>2, <3>3, <3>4 DEF Larger
    <3>6. r.rep = vcum[p] \/ vcum[p] = 0
      BY <3>2, <3>4 DEF Plausible, EndsAsVenue, VenueSound, TERMINAL
    <3>7. Qty[o] + vcum[p] <= Qty[p]
      BY <3>2, <3>3, <3>5, <3>6
    <3>8. QED
      BY <3>1, <3>4, <3>7 DEF p, TERMINAL
  <2>2. QED
    BY <1>1, <2>1 DEF IInv, ReplacesSound
<1>8. \A p \in Orders : OrderSound(p)'
  BY <1>1 DEF IInv, OrderSound
<1>9. Onward
  BY <1>1 DEF Onward, Moves, LifeKept, Transition
<1>10. QED
  BY <1>4, <1>5, <1>6, <1>7, <1>8, <1>9 DEF IInv

\* Nothing changes.
LEMMA StutterKeeps ==
  ASSUME IInv, UNCHANGED vars
  PROVE  IInv' /\ Onward
<1>1. UNCHANGED <<load, approved, orders, seen, linked, position, resv, owner, io,
                  vlife, vcum, external>>
  BY DEF vars, writer, venue
<1>2. TypeOK' /\ RouterSound'
  BY <1>1 DEF IInv, TypeOK, RouterSound
<1>3. Untouched' /\ OwnerSound' /\ ReplacesSound' /\ ReservesShown'
  BY <1>1 DEF IInv, Untouched, OwnerSound, ReplacesSound, ReservesShown
<1>4. \A o \in Orders : OrderSound(o)'
  BY <1>1 DEF IInv, OrderSound
<1>5. Onward
  BY <1>1 DEF Onward, Moves, LifeKept, Transition
<1>6. QED
  BY <1>2, <1>3, <1>4, <1>5 DEF IInv

LEMMA StepKeeps ==
  ASSUME IInv, [Next]_vars
  PROVE  IInv' /\ Onward
<1>1. ASSUME NEW o \in Orders, Approve(o) \/ CancelRequest(o), UNCHANGED load
      PROVE  IInv' /\ Onward
  BY <1>1, ApproveKeeps, CancelRequestKeeps
<1>2. CASE Dispatch /\ UNCHANGED load
  <2>1. ASSUME NEW o \in approved, NEW k \in 0 .. Len(orders[o].can),
               Grant(o, k) \/ ExpireQueued(o, k)
        PROVE  IInv' /\ Onward
    BY <1>2, <2>1, GrantKeeps, ExpireQueuedKeeps
  <2>2. ASSUME NEW reason \in AbortReason, Abort(reason)
        PROVE  IInv' /\ Onward
    BY <1>2, <2>2, AbortKeeps
  <2>3. ASSUME NEW result \in TransportResult, Observe(result)
        PROVE  IInv' /\ Onward
    BY <1>2, <2>3, ObserveKeeps
  <2>4. CASE Handoff
    BY <1>2, <2>4, HandoffKeeps
  <2>5. QED
    BY <1>2, <2>1, <2>2, <2>3, <2>4 DEF Dispatch
<1>3. CASE Crash /\ UNCHANGED load
  BY <1>3, ReleaseKeeps DEF Crash
<1>4. CASE VenueReports /\ UNCHANGED load
  <2>1. ASSUME NEW o \in approved, NEW s, Report(o, s[1], s[2])
        PROVE  IInv' /\ Onward
    BY <1>4, <2>1, ReportKeeps
  <2>2. ASSUME NEW o \in approved, NEW i \in 1 .. vcum[o], NEW client \in BOOLEAN,
               NEW venueId \in BOOLEAN, Execution(o, i, client, venueId)
        PROVE  IInv' /\ Onward
    BY <1>4, <2>2, ExecutionKeeps
  <2>3. QED
    BY <1>4, <2>1, <2>2 DEF VenueReports
<1>5. CASE VenueStep /\ UNCHANGED load
  BY <1>5, VenueStepKeeps
<1>6. ASSUME NEW lots \in {-1, 1}, ExternalFill(lots), UNCHANGED load
      PROVE  IInv' /\ Onward
  BY <1>6, ExternalFillKeeps
<1>7. CASE UNCHANGED vars
  BY <1>7, StutterKeeps
<1>8. QED
  BY <1>1, <1>2, <1>3, <1>4, <1>5, <1>6, <1>7 DEF Next

LEMMA InitSound == Init => IInv
<1> SUFFICES ASSUME Init PROVE IInv
  OBVIOUS
<1>1. NewOrder \in OrderState
  <2>1. <<>> \in Seq(CommandStatus)
    OBVIOUS
  <2>2. QED
    BY <2>1 DEF NewOrder, OrderState, Lifecycle, PendingAction, Knowledge, CommandStatus
<1>2. \A o \in Orders : /\ orders[o] = NewOrder /\ vlife[o] = "NONE" /\ vcum[o] = 0
                        /\ seen[o] = {} /\ linked[o] = {}
  BY DEF Init
<1>3. TypeOK
  BY <1>1, DeskAssumption DEF Init, TypeOK, Idle
<1>4. Untouched /\ RouterSound /\ OwnerSound /\ ReplacesSound
  BY <1>2 DEF Init, Untouched, RouterSound, OwnerSound, ReplacesSound, Idle
<1>5. ReservesShown
  BY DEF Init, ReservesShown, Reallocate
<1>6. ASSUME NEW o \in Orders PROVE OrderSound(o)
  <2>1. Cardinality(linked[o]) = 0
    BY <1>2, FS_EmptySet
  <2>2. VenueSound(Qty[o], vlife[o], vcum[o])
    BY <1>2, DeskAssumption DEF VenueSound, VenueLife
  <2>3. Plausible(NewOrder, "NONE", 0)
    BY <1>1 DEF Plausible, NewOrder, EndsAsVenue, CommandsSound, LastOpen, TERMINAL
  <2>4. Qty[o] \in Nat \ {0} /\ 0 \in 0 .. Qty[o]
    BY DeskAssumption
  <2> DEFINE u == Project(NewOrder, Qty[o], 0)
  <2>5. u = NewOrder
    <3>1. /\ u \in OrderState /\ u.acc = 0 /\ u.rep = 0 /\ u.started = FALSE /\ u.venue = FALSE
          /\ u.sub = "PENDING" /\ u.can = <<>>
          /\ u.life = ProjectedLife(NewOrder, Qty[o], 0)
          /\ u.know = ProjectedKnowledge(NewOrder, Qty[o], u.life, 0)
          /\ u.pend = ProjectedPending(NewOrder, u.life)
      BY <1>1, <2>4, ProjectParts DEF NewOrder
    <3> HIDE DEF u
    <3>2. u.life = "CREATED"
      BY <2>4, <3>1 DEF ProjectedLife, NewOrder, TERMINAL
    <3>3. \A statuses : ~HasCancel(NewOrder, statuses)
      BY DEF HasCancel, NewOrder
    <3>4. u.know = "CONFIRMED"
      BY <2>4, <3>1, <3>2, <3>3 DEF ProjectedKnowledge, NewOrder, Larger
    <3>5. u.pend = "SUBMIT"
      BY <2>4, <3>1, <3>2, <3>3 DEF ProjectedPending, NewOrder, TERMINAL, Unresolved
    <3>6. QED
      BY <1>1, <3>1, <3>2, <3>4, <3>5, SameOrder DEF NewOrder
  <2>6. QED
    BY <1>2, <2>1, <2>2, <2>3, <2>5 DEF OrderSound, Shown
<1>7. QED
  BY <1>3, <1>4, <1>5, <1>6 DEF IInv

\* The records of the desk agree with the venue in every state of every
\* behaviour of the reducer, the router and the venue (execution_reducer,
\* Router.dispatch_ready).
THEOREM DeskAlwaysSound == Spec => []IInv
<1>1. Init => IInv
  BY InitSound
<1>2. IInv /\ [Next]_vars => IInv'
  BY StepKeeps
<1>3. QED
  BY <1>1, <1>2, PTL DEF Spec
-----------------------------------------------------------------------------
(* What follows from it.                                                   *)

\* What the venue may still do with an order, at most.
LEMMA FillBound ==
  ASSUME IInv, NEW o \in Orders
  PROVE  /\ MayFill(o) \in Nat /\ MayFill(o) <= Qty[o]
         /\ MayFill(o) - Cardinality(linked[o]) <= ReservedLots(orders[o], Qty[o])
         /\ orders[o].life \in TERMINAL => MayFill(o) = vcum[o]
<1>1. /\ Qty[o] \in Nat \ {0} /\ vcum[o] \in 0 .. Qty[o]
      /\ Cardinality(linked[o]) \in 0 .. vcum[o]
      /\ VenueSound(Qty[o], vlife[o], vcum[o])
      /\ Shown(orders[o], Qty[o], vlife[o], vcum[o], Cardinality(linked[o]))
  BY DeskParts
<1> DEFINE r == orders[o]
           n == Cardinality(linked[o])
<1>2. /\ vcum[o] - n <= ReservedLots(r, Qty[o])
      /\ r.life \notin TERMINAL => Qty[o] - n <= ReservedLots(r, Qty[o])
      /\ r.life \in TERMINAL => vlife[o] \notin {"FLIGHT", "OPEN"}
  BY <1>1, ReservedCovers
<1>3. r.life \in TERMINAL => MayFill(o) = vcum[o]
  BY <1>2 DEF MayFill, MayBeSent
<1>4. MayFill(o) \in {Qty[o], vcum[o]}
  BY DEF MayFill
<1> HIDE DEF r, n
<1>5. QED
  BY <1>1, <1>2, <1>3, <1>4 DEF r, n

\* No timeout, restart, stale report, cancel race or unsent abort releases the
\* money of an entry before its last fill is booked
\* (LedgerState.reservations after execution_reducer).
THEOREM ReserveAlwaysCovers == Spec => []ReserveCoversExposure
<1>1. ASSUME IInv PROVE ReserveCoversExposure
  <2>1. SUFFICES ASSUME NEW o \in approved, ~ReduceOnly[o]
                 PROVE  MayFill(o) - Cardinality(linked[o]) <= resv[o].rem
    BY DEF ReserveCoversExposure
  <2>2. o \in Orders
    BY <1>1 DEF IInv, TypeOK
  <2> DEFINE late == UnresolvedFillLots(orders[o], Qty[o])
  <2>3. resv[o].rem = late + Executable(orders[o], Qty[o])
    BY <1>1, <2>1, <2>2 DEF IInv, ReservesShown, Reallocate
  <2>4. resv[o].rem = ReservedLots(orders[o], Qty[o])
    BY <1>1, <2>2, <2>3, DeskParts, ReservedCovers DEF Executable
  <2>5. QED
    BY <1>1, <2>2, <2>4, FillBound
<1>2. IInv => ReserveCoversExposure
  BY <1>1
<1>3. QED
  BY <1>2, DeskAlwaysSound, PTL

\* The instrument is not released while an entry may fill or a fill of one is
\* not booked (the symbol_owners of execution_reducer).
THEOREM OwnerAlwaysHeld == Spec => []OwnerHeld
<1>1. ASSUME IInv PROVE OwnerHeld
  <2>1. ASSUME owner = NoOwner, NEW o \in approved, ~ReduceOnly[o]
        PROVE  MayFill(o) = Cardinality(linked[o])
    <3>1. o \in Orders /\ orders[o].life \in TERMINAL /\ Cardinality(linked[o]) = vcum[o]
      BY <1>1, <2>1 DEF IInv, TypeOK, OwnerSound
    <3>2. QED
      BY <1>1, <3>1, FillBound
  <2>2. QED
    BY <2>1 DEF OwnerHeld
<1>2. IInv => OwnerHeld
  BY <1>1
<1>3. QED
  BY <1>2, DeskAlwaysSound, PTL

\* Every order is a fixed point of the projection, has at most one open cancel
\* and, with its replacement, fills no more than its quantity; an ended order
\* stays ended (OMS.reduce, _link_and_project).
THEOREM RecordsAlwaysAgree == Spec => RecordsAgree
<1>1. ASSUME IInv PROVE ProjectionFixpoint /\ OneOpenCancel /\ ReplacementWithinOriginal
  <2>1. approved \subseteq Orders /\ Replaces \in [Orders -> Orders]
    BY <1>1, DeskAssumption DEF IInv, TypeOK
  <2>2. ProjectionFixpoint
    BY <1>1, <2>1, DeskParts DEF ProjectionFixpoint, Shown
  <2>3. OneOpenCancel
    <3>1. ASSUME NEW o \in approved, NEW k \in DOMAIN orders[o].can,
                 orders[o].can[k] \in Unresolved
          PROVE  /\ k = Len(orders[o].can)
                 /\ \/ orders[o].pend = "CANCEL"
                    \/ orders[o].life = "REJECTED" /\ orders[o].can[k] = "PENDING"
      <4>1. /\ LastOpen(orders[o]) /\ CancelShown(orders[o])
            /\ CommandsSound(orders[o], vlife[o]) /\ orders[o] \in OrderState
        BY <1>1, <2>1, DeskParts DEF Plausible, CommandsSound
      <4>2. k = Len(orders[o].can)
        BY <3>1, <4>1 DEF LastOpen
      <4>3. CASE orders[o].life \in TERMINAL
        BY <3>1, <4>1, <4>2, <4>3 DEF CommandsSound
      <4>4. CASE orders[o].life \notin TERMINAL
        <5>1. HasCancel(orders[o], Unresolved)
          BY <3>1 DEF HasCancel
        <5>2. QED
          BY <4>1, <4>2, <4>4, <5>1 DEF CancelShown
      <4>5. QED
        BY <4>3, <4>4
    <3>2. QED
      BY <3>1 DEF OneOpenCancel
  <2>4. ReplacementWithinOriginal
    <3>1. ASSUME NEW o \in approved, Replaces[o] # o
          PROVE  MayFill(o) + vcum[Replaces[o]] <= Qty[Replaces[o]]
      <4>1. Qty[o] + vcum[Replaces[o]] <= Qty[Replaces[o]]
        BY <1>1, <3>1 DEF IInv, ReplacesSound
      <4>2. /\ Replaces[o] \in Orders /\ o \in Orders
            /\ MayFill(o) \in Nat /\ MayFill(o) <= Qty[o]
        BY <1>1, <2>1, FillBound
      <4>3. Qty[o] \in Nat /\ vcum[Replaces[o]] \in Nat /\ Qty[Replaces[o]] \in Nat
        BY <1>1, <4>2, DeskParts
      <4>4. QED
        BY <4>1, <4>2, <4>3
    <3>2. QED
      BY <3>1 DEF ReplacementWithinOriginal
  <2>5. QED
    BY <2>2, <2>3, <2>4
<1>2. IInv => TypeOK /\ ProjectionFixpoint /\ OneOpenCancel /\ ReplacementWithinOriginal
  BY <1>1 DEF IInv
<1>3. IInv /\ [Next]_vars =>
        [\A o \in approved : orders[o].life \in TERMINAL =>
           orders'[o].life \in {orders[o].life, "FILLED"}]_vars
  BY StepKeeps DEF Onward, LifeKept, IInv, TypeOK
<1>4. Spec => [][\A o \in approved : orders[o].life \in TERMINAL =>
                   orders'[o].life \in {orders[o].life, "FILLED"}]_vars
  BY <1>3, DeskAlwaysSound, PTL DEF Spec
<1>5. QED
  BY <1>2, <1>4, DeskAlwaysSound, PTL DEF RecordsAgree, TerminalStable

\* No fact, in whatever order they arrive, asks the outbox for a status change
\* that EventStore.commit refuses (its compare-and-swap of outbox rows).
THEOREM OutboxAlwaysAccepts == Spec => OutboxNeverRefuses
<1> DEFINE Accepted ==
      \A o \in approved : \A k \in 0 .. Len(orders[o].can) :
        LET was == CommandOf(orders[o], k)  is == CommandOf(orders'[o], k)
        IN  was # is => <<was, is>> \in OutboxTransition
<1>1. ASSUME IInv, [Next]_vars PROVE Accepted
  <2>1. ASSUME NEW o \in approved, NEW k \in 0 .. Len(orders[o].can),
               CommandOf(orders[o], k) # CommandOf(orders'[o], k)
        PROVE  <<CommandOf(orders[o], k), CommandOf(orders'[o], k)>> \in OutboxTransition
    <3>1. /\ o \in Orders /\ orders[o] \in OrderState /\ orders'[o] \in OrderState
          /\ Moves(orders[o], orders'[o])
      BY <1>1, StepKeeps DEF IInv, TypeOK, Onward
    <3>2. k \in Cmds(orders[o]) /\ k \in Cmds(orders'[o])
      BY <3>1, OrderParts DEF Cmds, Moves
    <3>3. CommandOf(orders[o], k) \in CommandStatus /\ CommandOf(orders'[o], k) \in CommandStatus
      BY <3>1, <3>2, OrderParts DEF Cmds, CommandOf
    <3>4. Transition(CommandOf(orders[o], k), CommandOf(orders'[o], k))
      BY <3>1, <3>2 DEF Moves
    <3>5. QED
      BY <2>1, <3>3, <3>4 DEF Transition, OutboxTransition
  <2>2. QED
    BY <2>1
<1>2. IInv /\ [Next]_vars => [Accepted]_vars
  BY <1>1
<1>3. Spec => [][Accepted]_vars
  <2> HIDE DEF Accepted
  <2>1. QED
    BY <1>2, DeskAlwaysSound, PTL DEF Spec
<1>4. QED
  BY <1>3, PTL DEF OutboxNeverRefuses
-----------------------------------------------------------------------------
(* Exits close no more than there is.                                      *)

Lates(o) == UnresolvedFillLots(orders[o], Qty[o])
Wanted == [p \in approved |-> Executable(orders[p], Qty[p])]
Claims == {p \in approved : ReduceOnly[p] /\ Eligible(p, position)}
Served == [p \in approved |-> Allowed(p, orders, approved, position)]

\* Fills booked, and lots the venue may fill at most.
Booked == [o \in Orders |-> Cardinality(seen[o])]
MayFills == [o \in Orders |-> MayFill(o)]
Sells == {o \in approved : Side[o] = "SELL"}

PositionBooked ==
  external = 0 => position = Total(Booked, OnSide("BUY")) - Total(Booked, OnSide("SELL"))

\* Where only entries buy and nobody else trades, exits sell, and all that may
\* be sold was bought and booked.
ExitsBooked ==
  OnlyBuysEnter =>
    /\ \A o \in approved : ReduceOnly[o] => Side[o] = "SELL"
    /\ Total(MayFills, Sells) <= Total(Booked, OnSide("BUY"))

ExitInv == PositionBooked /\ ExitsBooked

\* The sets of orders are finite sets of numbers.
LEMMA OrdersParts ==
  ASSUME IInv
  PROVE  /\ Orders \in SUBSET Nat /\ IsFiniteSet(Orders)
         /\ approved \in SUBSET Orders /\ IsFiniteSet(approved)
         /\ Claims \in SUBSET Nat /\ Claims \in SUBSET approved /\ IsFiniteSet(Claims)
         /\ Sells \in SUBSET approved /\ Sells \in SUBSET Orders /\ IsFiniteSet(Sells)
         /\ \A side : OnSide(side) \in SUBSET Orders /\ IsFiniteSet(OnSide(side))
<1>1. /\ Orders \in SUBSET Nat /\ IsFiniteSet(Orders) /\ approved \in SUBSET Orders
  BY DeskAssumption DEF IInv, TypeOK
<1>2. /\ Claims \in SUBSET approved /\ Claims \in SUBSET Orders
      /\ Sells \in SUBSET approved /\ Sells \in SUBSET Orders
      /\ \A side : OnSide(side) \in SUBSET Orders
  BY <1>1 DEF Claims, Sells, OnSide
<1>3. QED
  BY <1>1, <1>2, FS_Subset

\* The parts of what an order reserves.
LEMMA ReserveParts ==
  ASSUME IInv, NEW o \in approved
  PROVE  /\ Lates(o) \in Nat /\ Wanted[o] \in Nat
         /\ Lates(o) + Wanted[o] = ReservedLots(orders[o], Qty[o])
         /\ resv[o].unres = Lates(o)
         /\ resv[o].rem = Lates(o) + (IF ReduceOnly[o] THEN Served[o] ELSE Wanted[o])
<1>1. /\ o \in Orders /\ orders[o] \in OrderState /\ Qty[o] \in Nat
      /\ orders[o].rep \in Nat /\ orders[o].acc \in Nat
  BY OrdersParts, DeskParts, OrderParts
<1>2. Lates(o) \in Nat
  BY <1>1 DEF Lates, UnresolvedFillLots, Larger
<1>3. ReservedLots(orders[o], Qty[o]) \in Nat /\ ReservedLots(orders[o], Qty[o]) >= Lates(o)
  <2>1. RemainingLots(orders[o], Qty[o]) \in Nat
    BY <1>1 DEF RemainingLots, Larger
  <2>2. QED
    BY <1>2, <2>1 DEF ReservedLots, Lates, Larger
<1>4. Wanted[o] = ReservedLots(orders[o], Qty[o]) - Lates(o)
  BY DEF Wanted, Executable, Lates
<1>5. /\ resv[o].unres = Lates(o)
      /\ resv[o].rem = Lates(o) + (IF ReduceOnly[o] THEN Served[o] ELSE Wanted[o])
  BY <1>1 DEF IInv, ReservesShown, Reallocate, Lates, Served, Wanted
<1>6. QED
  BY <1>2, <1>3, <1>4, <1>5

\* Exits are served in order from the position.
LEMMA ClaimsServed ==
  ASSUME IInv
  PROVE  /\ \A o \in approved : Served[o] \in Nat
         /\ \A o \in approved \ Claims : ReduceOnly[o] => Served[o] = 0
         /\ Total(Served, Claims) <= Abs(position) /\ Abs(position) \in Nat
         /\ Total(Served, Claims) < Abs(position) => \A o \in Claims : Served[o] = Wanted[o]
<1>1. Abs(position) \in Nat
  BY DEF IInv, TypeOK, Abs
<1>2. \A o \in approved : Wanted[o] \in Nat
  BY ReserveParts
<1>3. \A o \in approved :
        Served[o] = IF Eligible(o, position)
                      THEN Smaller(Wanted[o], Larger(0, Abs(position) - Total(Wanted, Before(o, Claims))))
                      ELSE 0
  <2>1. ASSUME NEW o \in approved
        PROVE  {p \in approved : ReduceOnly[p] /\ Eligible(p, position) /\ p < o} = Before(o, Claims)
    BY DEF Before, Claims
  <2>2. QED
    BY <2>1 DEF Served, Allowed, Wanted
<1>4. ServedFrom(Abs(position), Wanted, Claims, Served)
  BY <1>3 DEF ServedFrom, Claims
<1>5. \A o \in Claims : Wanted[o] \in Nat
  BY <1>2 DEF Claims
<1>6. /\ Total(Served, Claims) <= Abs(position)
      /\ Total(Served, Claims) < Abs(position) => \A o \in Claims : Served[o] = Wanted[o]
  BY <1>1, <1>4, <1>5, OrdersParts, ServedInOrder
<1>7. \A o \in approved : Served[o] \in Nat
  <2>1. ASSUME NEW o \in approved, Eligible(o, position) PROVE Served[o] \in Nat
    <3> DEFINE before == Total(Wanted, Before(o, Claims))
    <3>1. before \in Int
      <4>1. Before(o, Claims) \in SUBSET Claims
        BY DEF Before
      <4>2. IsFiniteSet(Before(o, Claims)) /\ \A p \in Before(o, Claims) : Wanted[p] \in Nat
        BY <1>5, <4>1, OrdersParts, FS_Subset
      <4>3. QED
        BY <4>2, TotalFinite
    <3>2. Served[o] = Smaller(Wanted[o], Larger(0, Abs(position) - before))
      BY <1>3, <2>1
    <3> HIDE DEF before
    <3>3. QED
      BY <1>1, <1>2, <3>1, <3>2 DEF Smaller, Larger
  <2>2. QED
    BY <1>3, <2>1
<1>8. \A o \in approved \ Claims : ReduceOnly[o] => Served[o] = 0
  BY <1>3 DEF Claims
<1>9. QED
  BY <1>1, <1>6, <1>7, <1>8

\* The closing pool holds.
LEMMA PoolHolds ==
  ASSUME IInv
  PROVE  resv \in [Orders -> [rem : Nat, unres : Nat]] /\ ClosingPool
<1>1. \A o \in Orders : resv[o] \in [rem : Nat, unres : Nat]
  <2>1. ASSUME NEW o \in approved PROVE resv[o] \in [rem : Nat, unres : Nat]
    <3>1. resv[o].rem \in Nat /\ resv[o].unres \in Nat
      BY ReserveParts, ClaimsServed
    <3>2. o \in Orders
      BY OrdersParts
    <3>3. resv[o] = [rem |-> resv[o].rem, unres |-> resv[o].unres]
      BY <3>2 DEF IInv, ReservesShown, Reallocate
    <3>4. QED
      BY <3>1, <3>3
  <2>2. ASSUME NEW o \in Orders \ approved PROVE resv[o] \in [rem : Nat, unres : Nat]
    BY DEF IInv, ReservesShown, Reallocate
  <2>3. QED
    BY <2>1, <2>2
<1>2. resv \in [Orders -> [rem : Nat, unres : Nat]]
  <2>1. \E f : resv = [o \in Orders |-> f[o]]
    <3>1. resv = [o \in Orders |-> resv[o]]
      BY DEF IInv, ReservesShown, Reallocate
    <3>2. QED
      BY <3>1
  <2>2. QED
    BY <1>1, <2>1
<1>3. ClosingPool
  <2> DEFINE closing == {o \in approved : ReduceOnly[o] /\ resv[o].rem > resv[o].unres}
             taken == [o \in closing |-> resv[o].rem - resv[o].unres]
  <2>1. \A o \in closing : /\ o \in approved /\ o \in Claims
                           /\ taken[o] = Served[o]
    <3>1. ASSUME NEW o \in closing
          PROVE  /\ o \in approved /\ o \in Claims
                 /\ taken[o] = Served[o]
      <4>1. o \in approved /\ ReduceOnly[o] /\ resv[o].rem > resv[o].unres
        OBVIOUS
      <4>2. /\ resv[o].unres \in Nat /\ resv[o].rem = resv[o].unres + Served[o]
            /\ Served[o] \in Nat
        BY <4>1, ReserveParts, ClaimsServed
      <4>3. Served[o] # 0 /\ resv[o].rem - resv[o].unres = Served[o]
        BY <4>1, <4>2
      <4>4. QED
        BY <4>1, <4>3, ClaimsServed
    <3>2. QED
      BY <3>1
  <2>2. \A o \in closing : Eligible(o, position)
    BY <2>1 DEF Claims
  <2>3. Total(taken, closing) <= Total(Served, Claims)
    <3>1. /\ closing \in SUBSET Claims /\ IsFiniteSet(Claims)
          /\ \A o \in Claims : Served[o] \in Nat
      BY <2>1, OrdersParts, ClaimsServed
    <3>2. \A o \in closing : taken[o] \in Int /\ taken[o] <= Served[o]
      <4>1. ASSUME NEW o \in closing PROVE taken[o] \in Int /\ taken[o] <= Served[o]
        <5>1. taken[o] = Served[o] /\ Served[o] \in Nat
          BY <2>1, ClaimsServed
        <5> HIDE DEF taken
        <5>2. QED
          BY <5>1
      <4>2. QED
        BY <4>1
    <3> HIDE DEF closing, taken
    <3>3. QED
      BY <3>1, <3>2, TotalGrows
  <2>4. Total(taken, closing) \in Nat /\ Total(Served, Claims) \in Nat
    <3>1. /\ closing \in SUBSET Claims /\ IsFiniteSet(Claims)
          /\ \A o \in Claims : Served[o] \in Nat
      BY <2>1, OrdersParts, ClaimsServed
    <3>2. \A o \in closing : taken[o] \in Nat
      BY <2>1, <3>1
    <3> HIDE DEF closing, taken
    <3>3. QED
      BY <3>1, <3>2, FS_Subset, TotalFinite
  <2>5. Total(taken, closing) <= Abs(position)
    <3> HIDE DEF closing, taken
    <3>1. QED
      BY <2>3, <2>4, ClaimsServed
  <2>6. QED
    BY <2>2, <2>5 DEF ClosingPool
<1>4. QED
  BY <1>2, <1>3

\* What is booked of an order was filled, and what was filled may fill.
LEMMA BookedParts ==
  ASSUME IInv, NEW o \in Orders
  PROVE  /\ Booked[o] \in Nat /\ Booked[o] <= vcum[o] /\ vcum[o] \in Nat
         /\ Cardinality(linked[o]) \in Nat /\ Cardinality(linked[o]) <= Booked[o]
         /\ MayFills[o] \in Nat /\ vcum[o] <= MayFills[o] /\ MayFills[o] <= Qty[o]
         /\ Qty[o] \in Nat \ {0} /\ IsFiniteSet(seen[o])
         /\ o \notin approved => Booked[o] = 0 /\ vcum[o] = 0
<1>1. /\ vcum[o] \in 0 .. Qty[o] /\ Qty[o] \in Nat \ {0} /\ VenueSound(Qty[o], vlife[o], vcum[o])
      /\ seen[o] \in SUBSET (1 .. vcum[o]) /\ linked[o] \in SUBSET seen[o] /\ vcum[o] \in Nat
  BY DeskParts DEF IInv, OrderSound
<1>2. /\ Cardinality(seen[o]) \in 0 .. vcum[o] /\ Cardinality(linked[o]) \in 0 .. vcum[o]
      /\ Cardinality(linked[o]) <= Cardinality(seen[o])
  BY <1>1, LotsCount
<1>3. MayFill(o) \in {Qty[o], vcum[o]}
  BY DEF MayFill
<1>4. IsFiniteSet(seen[o])
  <2>1. IsFiniteSet(1 .. vcum[o])
    BY <1>1, FS_Interval
  <2>2. QED
    BY <1>1, <2>1, FS_Subset
<1>5. o \notin approved => vcum[o] = 0
  BY <1>1 DEF IInv, Untouched, VenueSound
<1>6. Booked[o] = Cardinality(seen[o]) /\ MayFills[o] = MayFill(o)
  BY DEF Booked, MayFills
<1>7. QED
  BY <1>1, <1>2, <1>3, <1>4, <1>5, <1>6

\* The sums over the orders are numbers.
LEMMA SumParts ==
  ASSUME IInv
  PROVE  /\ \A side : Total(Booked, OnSide(side)) \in Nat /\ Total(vcum, OnSide(side)) \in Nat
         /\ Total(Booked, Sells) \in Nat /\ Total(MayFills, Sells) \in Nat
         /\ \A side : Total(Booked, OnSide(side)) <= Total(vcum, OnSide(side))
         /\ Total(vcum, OnSide("SELL")) <= Total(MayFills, Sells)
         /\ Total(Booked, OnSide("SELL")) <= Total(Booked, Sells)
<1>1. \A o \in Orders : /\ Booked[o] \in Nat /\ Booked[o] <= vcum[o] /\ vcum[o] \in Nat
                        /\ Booked[o] \in Int /\ vcum[o] \in Int
                        /\ MayFills[o] \in Nat /\ vcum[o] <= MayFills[o]
                        /\ (o \notin approved => Booked[o] = 0 /\ vcum[o] = 0)
  BY BookedParts
<1>2. ASSUME NEW side
      PROVE  /\ Total(Booked, OnSide(side)) \in Nat /\ Total(vcum, OnSide(side)) \in Nat
             /\ Total(Booked, OnSide(side)) <= Total(vcum, OnSide(side))
  <2>1. OnSide(side) \in SUBSET Orders /\ IsFiniteSet(OnSide(side))
    BY OrdersParts
  <2>2. OnSide(side) \in SUBSET OnSide(side)
    OBVIOUS
  <2>3. QED
    BY <1>1, <2>1, <2>2, TotalFinite, TotalGrows
<1>3. Sells \in SUBSET Orders /\ IsFiniteSet(Sells)
  BY OrdersParts
<1>4. Total(Booked, Sells) \in Nat /\ Total(MayFills, Sells) \in Nat
  BY <1>1, <1>3, TotalFinite
<1>5. /\ LotsOf(vcum, OnSide("SELL")) \subseteq LotsOf(vcum, Sells)
      /\ LotsOf(Booked, OnSide("SELL")) \subseteq LotsOf(Booked, Sells)
  <2>1. ASSUME NEW f, \A o \in OnSide("SELL") \ approved : f[o] = 0
        PROVE  LotsOf(f, OnSide("SELL")) \subseteq LotsOf(f, Sells)
    <3>1. ASSUME NEW l \in LotsOf(f, OnSide("SELL")) PROVE l \in LotsOf(f, Sells)
      <4>1. l = <<l[1], l[2]>> /\ l[1] \in OnSide("SELL") /\ l[2] \in 1 .. f[l[1]]
        BY LotIsPair
      <4>2. f[l[1]] # 0
        BY <4>1
      <4>3. l[1] \in Sells
        BY <2>1, <4>1, <4>2 DEF OnSide, Sells
      <4>4. QED
        BY <4>1, <4>3, LotParts
    <3>2. QED
      BY <3>1
  <2>2. QED
    BY <1>1, <2>1 DEF OnSide
<1>6. IsFiniteSet(LotsOf(vcum, Sells)) /\ IsFiniteSet(LotsOf(Booked, Sells))
  BY <1>1, <1>3, TotalFinite
<1>7. /\ Total(vcum, OnSide("SELL")) <= Total(vcum, Sells)
      /\ Total(Booked, OnSide("SELL")) <= Total(Booked, Sells)
  BY <1>5, <1>6, FS_Subset DEF Total
<1>8. Total(vcum, Sells) <= Total(MayFills, Sells) /\ Total(vcum, Sells) \in Nat
  <2>1. Sells \in SUBSET Sells
    OBVIOUS
  <2>2. QED
    BY <1>1, <1>3, <2>1, TotalGrows, TotalFinite
<1>9. Total(vcum, OnSide("SELL")) \in Nat
  BY <1>2
<1>10. Total(vcum, OnSide("SELL")) <= Total(MayFills, Sells)
  BY <1>4, <1>7, <1>8, <1>9
<1>11. QED
  BY <1>2, <1>4, <1>7, <1>10

\* Exits never close more than there is at the venue.
LEMMA NoOverClose ==
  ASSUME IInv, ExitsBooked
  PROVE  ExitsNeverOverClose
<1>1. ASSUME OnlyBuysEnter PROVE VenuePosition >= 0
  <2>1. Total(MayFills, Sells) <= Total(Booked, OnSide("BUY"))
    BY <1>1 DEF ExitsBooked
  <2>2. QED
    BY <2>1, SumParts DEF VenuePosition
<1>2. QED
  BY <1>1 DEF ExitsNeverOverClose

\* What may be sent of an order is not more after a step that approves nothing.
LEMMA MayFillShrinks ==
  ASSUME IInv, IInv', Onward, NEW o \in approved,
         \/ vlife'[o] = vlife[o] /\ vcum'[o] = vcum[o]
         \/ vlife[o] \in {"FLIGHT", "OPEN"} \/ MayBeSent(o),
         \/ io' = io
         \/ ~(io'.phase = "granted" /\ io'.ord = o /\ io'.cmd = 0)
         \/ orders[o].sub = "PENDING"
  PROVE  MayFill(o)' <= MayFill(o)
<1>1. /\ o \in Orders /\ orders[o] \in OrderState /\ orders'[o] \in OrderState
      /\ Moves(orders[o], orders'[o]) /\ LifeKept(orders[o], orders'[o])
      /\ Qty[o] \in Nat /\ vcum[o] \in Nat
  BY OrdersParts, DeskParts DEF Onward, IInv, TypeOK
<1>2. MayFill(o)' <= Qty[o] /\ MayFill(o)' \in Nat
  <2>1. MayFill(o)' \in {Qty[o], vcum'[o]}
    BY DEF MayFill
  <2>2. vcum'[o] \in 0 .. Qty[o]
    BY <1>1 DEF IInv, OrderSound, VenueSound
  <2>3. QED
    BY <1>1, <2>1, <2>2
<1>3. MayBeSent(o)' => MayBeSent(o)
  <2>1. orders'[o].life \notin TERMINAL => orders[o].life \notin TERMINAL
    BY <1>1 DEF LifeKept, TERMINAL
  <2>2. orders'[o].sub = "PENDING" => orders[o].sub = "PENDING"
    BY <1>1 DEF Moves, Cmds, CommandOf, Transition
  <2>3. QED
    BY <2>1, <2>2 DEF MayBeSent
<1>4. CASE vlife[o] \in {"FLIGHT", "OPEN"} \/ MayBeSent(o)
  <2>1. MayFill(o) = Qty[o]
    BY <1>4 DEF MayFill
  <2>2. QED
    BY <1>2, <2>1
<1>5. CASE ~(vlife[o] \in {"FLIGHT", "OPEN"} \/ MayBeSent(o))
  <2>1. vlife'[o] = vlife[o] /\ vcum'[o] = vcum[o] /\ ~MayBeSent(o)'
    BY <1>3, <1>5
  <2>2. MayFill(o)' = vcum[o] /\ MayFill(o) = vcum[o]
    BY <1>5, <2>1 DEF MayFill
  <2>3. QED
    BY <1>1, <2>2
<1>6. QED
  BY <1>4, <1>5

LEMMA MayFillNext ==
  ASSUME IInv', NEW o \in Orders
  PROVE  MayFill(o)' \in Nat
<1>1. MayFill(o)' \in {Qty[o], vcum'[o]}
  BY DEF MayFill
<1>2. vcum'[o] \in Nat /\ Qty[o] \in Nat
  BY DeskAssumption DEF IInv, TypeOK
<1>3. QED
  BY <1>1, <1>2

\* What a step that approves nothing may do to the books.
Bookkeeping ==
  \/ UNCHANGED <<external, position, seen>>
  \/ \E o \in approved, i \in Nat :
       /\ external' = external /\ seen' = [seen EXCEPT ![o] = @ \cup {i}]
       /\ position' = IF i \in seen[o] THEN position ELSE position + Signed(o, 1)
  \/ external' = external + 1 /\ seen' = seen

LEMMA StepBooks ==
  ASSUME IInv, [Next]_vars
  PROVE  \/ \E o \in Orders : Approve(o)
         \/ approved' = approved /\ Bookkeeping /\ \A o \in approved : MayFill(o)' <= MayFill(o)
<1>1. IInv' /\ Onward
  BY StepKeeps
<1> DEFINE Goal == approved' = approved /\ Bookkeeping /\ \A o \in approved : MayFill(o)' <= MayFill(o)
<1>2. ASSUME approved' = approved, Bookkeeping, UNCHANGED venue,
             \/ io' = io \/ io'.phase # "granted"
             \/ orders[io'.ord].sub = "PENDING" \/ io'.cmd # 0
      PROVE  Goal
  <2>1. vlife' = vlife /\ vcum' = vcum
    BY <1>2 DEF venue
  <2>2. QED
    BY <1>1, <1>2, <2>1, MayFillShrinks
<1>3. ASSUME NEW o \in Orders, NEW r, Fact(o, r), UNCHANGED external
      PROVE  approved' = approved /\ Bookkeeping
  BY <1>3 DEF Fact, Book, Bookkeeping
<1>4. Idle.phase = "idle"
  BY DEF Idle
<1>5. ASSUME NEW o \in Orders, CancelRequest(o) PROVE Goal
  <2>1. Fact(o, OnCancelRequested(orders[o])) /\ UNCHANGED <<io, venue, external>>
    BY <1>5 DEF CancelRequest
  <2> HIDE DEF Goal
  <2>2. QED
    BY <1>2, <1>3, <2>1
<1>6. CASE Dispatch
  <2>1. ASSUME NEW o \in approved, NEW k \in 0 .. Len(orders[o].can), Grant(o, k)
        PROVE  Goal
    <3>1. /\ o \in Orders /\ io'.ord = o /\ io'.cmd = k
          /\ k = 0 => orders[o].sub = "PENDING"
      BY <2>1, OrdersParts DEF Grant, CommandOf
    <3>2. Fact(o, OnDispatchStarted(orders[o], k)) /\ UNCHANGED <<venue, external>>
      BY <2>1 DEF Grant
    <3> HIDE DEF Goal
    <3>3. QED
      BY <1>2, <1>3, <3>1, <3>2
  <2>2. ASSUME NEW o \in approved, NEW k \in 0 .. Len(orders[o].can), ExpireQueued(o, k)
        PROVE  Goal
    <3>1. /\ o \in Orders /\ Fact(o, OnUnsentAborted(orders[o], k, "EXPIRED"))
          /\ UNCHANGED <<io, venue, external>>
      BY <2>2, OrdersParts DEF ExpireQueued
    <3> HIDE DEF Goal
    <3>2. QED
      BY <1>2, <1>3, <3>1
  <2>3. ASSUME NEW reason \in AbortReason, Abort(reason)
        PROVE  Goal
    <3>1. io.ord \in Orders /\ io'.phase # "granted" /\ UNCHANGED <<venue, external>>
      BY <1>4, <2>3 DEF Abort, IInv, TypeOK
    <3>2. approved' = approved /\ Bookkeeping
      <4>1. CASE Fact(io.ord, OnUnsentAborted(orders[io.ord], io.cmd, reason))
        BY <1>3, <3>1, <4>1
      <4>2. CASE UNCHANGED writer
        BY <3>1, <4>2 DEF writer, Bookkeeping
      <4>3. QED
        BY <2>3, <4>1, <4>2 DEF Abort
    <3> HIDE DEF Goal
    <3>3. QED
      BY <1>2, <3>1, <3>2
  <2>4. CASE Handoff
    <3>1. /\ io.phase = "granted" /\ Dispatchable(io.ord, io.cmd) /\ UNCHANGED <<writer, vcum, external>>
          /\ vlife' = IF io.cmd = 0 THEN [vlife EXCEPT ![io.ord] = "FLIGHT"] ELSE vlife
          /\ io' = [io EXCEPT !.phase = "sent"]
      BY <2>4 DEF Handoff
    <3>2. io'.phase # "granted"
      BY <3>1 DEF IInv, TypeOK
    <3>3. approved' = approved /\ Bookkeeping
      BY <3>1 DEF writer, Bookkeeping
    <3>4. ASSUME NEW o \in approved PROVE MayFill(o)' <= MayFill(o)
      <4>1. (vlife'[o] = vlife[o] /\ vcum'[o] = vcum[o]) \/ MayBeSent(o)
        <5>1. CASE io.cmd = 0 /\ io.ord = o
          BY <3>1, <5>1 DEF MayBeSent, Dispatchable
        <5>2. CASE ~(io.cmd = 0 /\ io.ord = o)
          BY <3>1, <5>2, OrdersParts DEF IInv, TypeOK
        <5>3. QED
          BY <5>1, <5>2
      <4>2. QED
        BY <1>1, <3>2, <4>1, MayFillShrinks
    <3>5. QED
      BY <3>3, <3>4
  <2>5. ASSUME NEW result \in TransportResult, Observe(result)
        PROVE  Goal
    <3>1. /\ io.ord \in Orders /\ io'.phase # "granted" /\ UNCHANGED <<venue, external>>
          /\ \E r : Fact(io.ord, r)
      BY <1>4, <2>5 DEF Observe, IInv, TypeOK
    <3> HIDE DEF Goal
    <3>2. QED
      BY <1>2, <1>3, <3>1
  <2>6. QED
    BY <1>6, <2>1, <2>2, <2>3, <2>4, <2>5 DEF Dispatch
<1>7. CASE Crash
  <2>1. UNCHANGED <<writer, venue, external>> /\ io'.phase # "granted"
    BY <1>4, <1>7 DEF Crash
  <2>2. approved' = approved /\ Bookkeeping
    BY <2>1 DEF writer, Bookkeeping
  <2> HIDE DEF Goal
  <2>3. Goal
    BY <1>2, <2>1, <2>2
  <2>4. QED
    BY <2>3 DEF Goal
<1>8. CASE VenueReports
  <2>1. ASSUME NEW o \in approved, NEW s, Report(o, s[1], s[2]) PROVE Goal
    <3>1. /\ o \in Orders /\ UNCHANGED <<io, venue, external>>
          /\ Fact(o, OnOrderReport(orders[o], Qty[o], s[1], s[2], TRUE))
      BY <2>1, OrdersParts DEF Report
    <3> HIDE DEF Goal
    <3>2. QED
      BY <1>2, <1>3, <3>1
  <2>2. ASSUME NEW o \in approved, NEW i \in 1 .. vcum[o], NEW client \in BOOLEAN,
               NEW venueId \in BOOLEAN, Execution(o, i, client, venueId)
        PROVE  Goal
    <3>1. /\ UNCHANGED <<io, venue, external>> /\ approved' = approved
          /\ seen' = [seen EXCEPT ![o] = @ \cup {i}]
          /\ position' = IF i \in seen[o] THEN position ELSE position + Signed(o, 1)
      BY <2>2 DEF Execution, Book
    <3>2. i \in Nat
      <4>1. vcum[o] \in Nat
        BY OrdersParts, DeskParts
      <4>2. QED
        BY <4>1
    <3>3. Bookkeeping
      BY <3>1, <3>2 DEF Bookkeeping
    <3> HIDE DEF Goal
    <3>4. QED
      BY <1>2, <3>1, <3>3
  <2>3. QED
    BY <1>8, <2>1, <2>2 DEF VenueReports
<1>9. CASE VenueStep
  <2>1. PICK p \in approved : VenueReceive(p) \/ VenueFill(p) \/ VenueCancel(p)
    BY <1>9 DEF VenueStep
  <2>2. /\ vlife[p] \in {"FLIGHT", "OPEN"} /\ UNCHANGED <<writer, io, external>>
        /\ \A o \in Orders \ {p} : vlife'[o] = vlife[o] /\ vcum'[o] = vcum[o]
    BY <2>1 DEF VenueReceive, VenueFill, VenueCancel, IInv, TypeOK
  <2>3. approved' = approved /\ Bookkeeping
    BY <2>2 DEF writer, Bookkeeping
  <2>4. ASSUME NEW o \in approved PROVE MayFill(o)' <= MayFill(o)
    <3>1. o \in Orders
      BY OrdersParts
    <3>2. QED
      BY <1>1, <2>2, <3>1, MayFillShrinks
  <2>5. QED
    BY <2>3, <2>4
<1>10. ASSUME NEW lots \in {-1, 1}, ExternalFill(lots) PROVE Goal
  <2>1. /\ external' = external + 1 /\ seen' = seen /\ approved' = approved
        /\ UNCHANGED <<io, venue>>
    BY <1>10 DEF ExternalFill, Book
  <2>2. Bookkeeping
    BY <2>1 DEF Bookkeeping
  <2> HIDE DEF Goal
  <2>3. QED
    BY <1>2, <2>1, <2>2
<1>11. CASE UNCHANGED vars
  <2>1. approved' = approved /\ Bookkeeping /\ UNCHANGED venue /\ io' = io
    BY <1>11 DEF vars, writer, Bookkeeping
  <2> HIDE DEF Goal
  <2>2. Goal
    BY <1>2, <2>1
  <2>3. QED
    BY <2>2 DEF Goal
<1>12. QED
  BY <1>5, <1>6, <1>7, <1>8, <1>9, <1>10, <1>11 DEF Next

\* A fill booked is one more on its side.
LEMMA BooksKeep ==
  ASSUME IInv, IInv', PositionBooked, Bookkeeping
  PROVE  /\ PositionBooked'
         /\ Total(Booked, OnSide("BUY"))' \in Nat
         /\ Total(Booked, OnSide("BUY")) <= Total(Booked, OnSide("BUY"))'
<1> DEFINE buys == Total(Booked, OnSide("BUY"))
           sells == Total(Booked, OnSide("SELL"))
<1>1. /\ \A o \in Orders : Booked[o] \in Nat
      /\ \A side : OnSide(side) \in SUBSET Orders /\ IsFiniteSet(OnSide(side))
      /\ buys \in Nat /\ sells \in Nat
      /\ position \in Int /\ external \in Nat /\ seen \in [Orders -> SUBSET Nat]
  BY BookedParts, SumParts, OrdersParts DEF IInv, TypeOK
<1>2. ASSUME seen' = seen, external' = 0 => external = 0 /\ position' = position
      PROVE  PositionBooked' /\ buys <= buys' /\ buys' \in Nat
  <2>1. Booked' = Booked
    BY <1>2 DEF Booked
  <2>2. buys' = buys /\ sells' = sells
    BY <2>1 DEF OnSide
  <2> HIDE DEF buys, sells
  <2>4. PositionBooked'
    BY <1>2, <2>2 DEF PositionBooked, buys, sells
  <2>5. buys <= buys' /\ buys' \in Nat
    BY <1>1, <2>2
  <2>6. QED
    BY <2>4, <2>5
<1>3. ASSUME NEW o \in approved, NEW i \in Nat, i \notin seen[o],
             external' = external, seen' = [seen EXCEPT ![o] = @ \cup {i}],
             position' = position + Signed(o, 1)
      PROVE  PositionBooked' /\ buys <= buys' /\ buys' \in Nat
  <2>1. /\ o \in Orders /\ Side[o] \in {"BUY", "SELL"} /\ IsFiniteSet(seen[o])
        /\ o \in OnSide(Side[o]) /\ \A side : o \in OnSide(side) => side = Side[o]
    BY OrdersParts, BookedParts, DeskAssumption DEF OnSide
  <2>2. /\ Booked'[o] = Booked[o] + 1
        /\ \A p \in Orders \ {o} : Booked'[p] = Booked[p]
    <3>1. seen'[o] = seen[o] \cup {i} /\ \A p \in Orders \ {o} : seen'[p] = seen[p]
      BY <1>1, <1>3, <2>1
    <3>2. Cardinality(seen[o] \cup {i}) = Cardinality(seen[o]) + 1
      BY <1>3, <2>1, FS_AddElement
    <3>3. QED
      BY <2>1, <3>1, <3>2 DEF Booked
  <2>3. ASSUME NEW side \in {"BUY", "SELL"}
        PROVE  Total(Booked', OnSide(side))
                 = Total(Booked, OnSide(side)) + (IF side = Side[o] THEN 1 ELSE 0)
    <3> DEFINE S == OnSide(side)
    <3>1. S \in SUBSET Orders /\ IsFiniteSet(S) /\ Total(Booked, S) \in Nat
      BY <1>1
    <3>2. CASE side = Side[o]
      <4>1. /\ o \in S /\ \A p \in S : Booked[p] \in Nat
            /\ \A p \in S \ {o} : Booked'[p] = Booked[p]
        BY <1>1, <2>1, <2>2, <3>1, <3>2
      <4> HIDE DEF S
      <4>2. Total(Booked', S) = Total(Booked, S) + 1
        BY <2>2, <3>1, <4>1, TotalAddLot
      <4>3. QED
        BY <3>2, <4>2 DEF S
    <3>3. CASE side # Side[o]
      <4>1. \A p \in S : Booked'[p] = Booked[p]
        BY <2>1, <2>2, <3>1, <3>3
      <4> HIDE DEF S
      <4>2. Total(Booked', S) = Total(Booked, S)
        BY <4>1, TotalSame
      <4>3. QED
        BY <3>1, <3>3, <4>2 DEF S
    <3>4. QED
      BY <3>2, <3>3
  <2>4. /\ buys' = buys + (IF Side[o] = "BUY" THEN 1 ELSE 0)
        /\ sells' = sells + (IF Side[o] = "SELL" THEN 1 ELSE 0)
    BY <2>3 DEF OnSide
  <2>5. Signed(o, 1) = IF Side[o] = "BUY" THEN 1 ELSE -1
    BY DEF Signed
  <2> HIDE DEF buys, sells
  <2>6. external = 0 => position = buys - sells
    BY DEF PositionBooked, buys, sells
  <2>7. external' = 0 => position' = buys' - sells'
    BY <1>1, <1>3, <2>1, <2>4, <2>5, <2>6
  <2>8. PositionBooked'
    BY <2>7 DEF PositionBooked, buys, sells
  <2>9. buys <= buys' /\ buys' \in Nat
    BY <1>1, <2>4
  <2>10. QED
    BY <2>8, <2>9
<1>4. ASSUME NEW o \in approved, NEW i \in Nat, i \in seen[o],
             seen' = [seen EXCEPT ![o] = @ \cup {i}]
      PROVE  seen' = seen
  <2>1. seen[o] \cup {i} = seen[o]
    BY <1>4
  <2>2. QED
    BY <1>1, <1>4, <2>1
<1>5. ASSUME UNCHANGED <<external, position, seen>>
      PROVE  PositionBooked' /\ buys <= buys' /\ buys' \in Nat
  <2> HIDE DEF buys, sells
  <2>1. QED
    BY <1>2, <1>5
<1>6. ASSUME NEW o \in approved, NEW i \in Nat, external' = external,
             seen' = [seen EXCEPT ![o] = @ \cup {i}],
             position' = IF i \in seen[o] THEN position ELSE position + Signed(o, 1)
      PROVE  PositionBooked' /\ buys <= buys' /\ buys' \in Nat
  <2>1. CASE i \in seen[o]
    <3>1. seen' = seen /\ position' = position
      BY <1>4, <1>6, <2>1
    <3> HIDE DEF buys
    <3>2. QED
      BY <1>2, <1>6, <3>1
  <2>2. CASE i \notin seen[o]
    <3>1. position' = position + Signed(o, 1)
      BY <1>6, <2>2
    <3> HIDE DEF buys
    <3>2. QED
      BY <1>3, <1>6, <2>2, <3>1
  <2>3. QED
    BY <2>1, <2>2
<1>7. ASSUME external' = external + 1, seen' = seen
      PROVE  PositionBooked' /\ buys <= buys' /\ buys' \in Nat
  <2>1. external' # 0
    BY <1>1, <1>7
  <2> HIDE DEF buys
  <2>2. QED
    BY <1>2, <1>7, <2>1 DEF buys
<1> HIDE DEF buys, sells
<1>8. PositionBooked' /\ buys <= buys' /\ buys' \in Nat
  BY <1>5, <1>6, <1>7 DEF Bookkeeping
<1>9. QED
  BY <1>8 DEF buys

\* An exit that is approved is covered by what was bought and not reserved.
LEMMA ApprovedIsCovered ==
  ASSUME IInv, ExitInv, NEW o \in Orders, o \notin approved, ReduceOnly[o], MayClose(o),
         OnlyBuysEnter
  PROVE  /\ Side[o] = "SELL"
         /\ Total(MayFills, Sells) + Qty[o] <= Total(Booked, OnSide("BUY"))
<1> DEFINE buys == Total(Booked, OnSide("BUY"))
           sold == Total(Booked, Sells)
           may == Total(MayFills, Sells)
           held == [p \in approved |-> resv[p].rem]
           reserved == Total(held, Sells)
<1>1. /\ \A p \in approved : ReduceOnly[p] <=> Side[p] = "SELL"
      /\ may <= buys /\ external = 0
  BY DEF ExitInv, ExitsBooked, OnlyBuysEnter
<1>2. Sells = {p \in approved : ReduceOnly[p]}
  BY <1>1 DEF Sells
<1>3. /\ Sells \in SUBSET approved /\ Sells \in SUBSET Orders /\ IsFiniteSet(Sells)
      /\ \A p \in Sells : /\ Booked[p] \in Nat /\ MayFills[p] \in Nat
                          /\ Booked[p] \in Int /\ Booked[p] <= MayFills[p]
  <2>1. Sells \in SUBSET approved /\ Sells \in SUBSET Orders /\ IsFiniteSet(Sells)
    BY OrdersParts
  <2>2. ASSUME NEW p \in Sells
        PROVE  /\ Booked[p] \in Nat /\ MayFills[p] \in Nat
               /\ Booked[p] \in Int /\ Booked[p] <= MayFills[p]
    BY <2>1, BookedParts
  <2>3. QED
    BY <2>1, <2>2
<1>4. /\ buys \in Nat /\ sold \in Nat /\ may \in Nat /\ sold <= may
      /\ Total(Booked, OnSide("SELL")) \in Nat /\ Total(Booked, OnSide("SELL")) <= sold
  <2>1. Sells \in SUBSET Sells
    OBVIOUS
  <2>2. sold <= may
    BY <1>3, <2>1, TotalGrows
  <2>3. QED
    BY <2>2, SumParts
<1>5. position = buys - Total(Booked, OnSide("SELL")) /\ position \in Int
  BY <1>1 DEF ExitInv, PositionBooked, IInv, TypeOK
<1>6. ClosingReserved = reserved
  BY <1>2 DEF ClosingReserved
<1>7. \A p \in Sells : /\ held[p] \in Nat /\ Served[p] \in Nat /\ Served[p] \in Int
                       /\ Served[p] <= held[p]
                       /\ held[p] = Lates(p) + Served[p] /\ Lates(p) \in Nat
  <2>1. ASSUME NEW p \in Sells
        PROVE  /\ held[p] \in Nat /\ Served[p] \in Nat /\ Served[p] \in Int
               /\ Served[p] <= held[p]
               /\ held[p] = Lates(p) + Served[p] /\ Lates(p) \in Nat
    <3>1. /\ p \in approved /\ ReduceOnly[p] /\ held[p] = resv[p].rem
      BY <1>2
    <3>2. /\ Lates(p) \in Nat /\ Served[p] \in Nat /\ resv[p].rem = Lates(p) + Served[p]
      BY <3>1, ReserveParts, ClaimsServed
    <3> HIDE DEF held
    <3>3. QED
      BY <3>1, <3>2
  <2>2. QED
    BY <2>1
<1> HIDE DEF held
<1>8. reserved \in Nat
  BY <1>3, <1>7, TotalFinite
<1>9. /\ Qty[o] \in Nat \ {0} /\ Qty[o] <= Abs(position) - reserved
      /\ (Side[o] = "SELL") = (position > 0)
  BY <1>6, DeskAssumption DEF MayClose
<1> HIDE DEF buys, sold, may, reserved
<1>10. position > 0 /\ Abs(position) = position /\ Side[o] = "SELL"
       /\ reserved < position /\ Qty[o] <= position - reserved
  BY <1>1, <1>4, <1>5, <1>8, <1>9 DEF Abs
<1>11. Claims = Sells
  BY <1>1, <1>10 DEF Claims, Sells, Eligible
<1>12. Total(Served, Claims) <= reserved /\ Total(Served, Claims) \in Nat
  <2>1. Claims \in SUBSET Sells
    BY <1>11
  <2>2. Total(Served, Claims) <= Total(held, Sells)
    BY <1>3, <1>7, <1>11, <2>1, TotalGrows
  <2>3. Total(Served, Claims) \in Nat
    BY <1>3, <1>7, <1>11, TotalFinite
  <2>4. QED
    BY <2>2, <2>3 DEF reserved
<1>13. \A p \in Sells : Served[p] = Wanted[p]
  BY <1>8, <1>10, <1>11, <1>12, ClaimsServed
<1>14. \A p \in Sells : MayFills[p] <= Booked[p] + held[p]
  <2>1. ASSUME NEW p \in Sells PROVE MayFills[p] <= Booked[p] + held[p]
    <3>1. p \in approved /\ p \in Orders
      BY <1>3
    <3>2. held[p] = ReservedLots(orders[p], Qty[p])
      BY <1>7, <1>13, <3>1, ReserveParts
    <3>3. MayFills[p] - Cardinality(linked[p]) <= ReservedLots(orders[p], Qty[p])
      BY <3>1, FillBound DEF MayFills
    <3>4. Cardinality(linked[p]) \in Nat /\ Cardinality(linked[p]) <= Booked[p]
      BY <3>1, BookedParts
    <3>5. QED
      BY <1>3, <1>7, <3>2, <3>3, <3>4
  <2>2. QED
    BY <2>1
<1>15. may <= sold + reserved
  <2>1. Total(MayFills, Sells) <= Total(Booked, Sells) + Total(held, Sells)
    BY <1>3, <1>7, <1>14, TotalOfTwo
  <2>2. QED
    BY <2>1 DEF may, sold, reserved
<1>16. sold = Total(Booked, OnSide("SELL"))
  <2>1. Sells \in SUBSET OnSide("SELL")
    BY <1>3 DEF Sells, OnSide
  <2>2. /\ IsFiniteSet(OnSide("SELL")) /\ \A p \in OnSide("SELL") : Booked[p] \in Nat
    BY OrdersParts, BookedParts DEF OnSide
  <2>3. \A p \in Sells : Booked[p] \in Int /\ Booked[p] <= Booked[p]
    BY <1>3
  <2>4. sold <= Total(Booked, OnSide("SELL"))
    BY <2>1, <2>2, <2>3, TotalGrows DEF sold
  <2>5. QED
    BY <1>4, <2>4
<1>17. may + Qty[o] <= buys
  BY <1>4, <1>5, <1>8, <1>9, <1>10, <1>15, <1>16
<1>18. QED
  BY <1>10, <1>17 DEF may, buys

\* Approving keeps what is known of the exits.
LEMMA ApproveKeepsExits ==
  ASSUME IInv, IInv', ExitInv, NEW o \in Orders, Approve(o)
  PROVE  ExitInv'
<1>1. /\ o \notin approved /\ approved' = approved \cup {o}
      /\ UNCHANGED <<orders, seen, linked, position, io, vlife, vcum, external>>
      /\ IF ReduceOnly[o] THEN MayClose(o) ELSE MayEnter(o)
  BY DEF Approve, venue
<1>2. Booked' = Booked /\ MayFills' = MayFills
  BY <1>1 DEF Booked, MayFills, MayFill, MayBeSent
<1>3. PositionBooked'
  BY <1>1, <1>2 DEF ExitInv, PositionBooked, OnSide
<1>4. ASSUME OnlyBuysEnter' PROVE OnlyBuysEnter
  BY <1>1, <1>4 DEF OnlyBuysEnter
<1>5. ASSUME OnlyBuysEnter'
      PROVE  /\ \A p \in approved' : ReduceOnly[p] => Side[p] = "SELL"
             /\ Total(MayFills, Sells') <= Total(Booked, OnSide("BUY"))
  <2>1. /\ \A p \in approved : ReduceOnly[p] => Side[p] = "SELL"
        /\ Total(MayFills, Sells) <= Total(Booked, OnSide("BUY"))
        /\ OnlyBuysEnter
    BY <1>4, <1>5 DEF ExitInv, ExitsBooked
  <2>2. CASE ReduceOnly[o]
    <3>1. /\ Side[o] = "SELL"
          /\ Total(MayFills, Sells) + Qty[o] <= Total(Booked, OnSide("BUY"))
      BY <1>1, <2>1, <2>2, ApprovedIsCovered
    <3>2. Sells' = Sells \cup {o} /\ o \notin Sells
      BY <1>1, <3>1 DEF Sells
    <3>3. Total(MayFills, Sells \cup {o}) = Total(MayFills, Sells) + MayFills[o]
      <4>1. IsFiniteSet(Sells) /\ \A p \in Sells \cup {o} : MayFills[p] \in Nat
        BY OrdersParts, BookedParts
      <4>2. QED
        BY <3>2, <4>1, TotalAddOrder
    <3>4. /\ MayFills[o] <= Qty[o] /\ MayFills[o] \in Nat /\ Qty[o] \in Nat
          /\ Total(MayFills, Sells) \in Nat /\ Total(Booked, OnSide("BUY")) \in Nat
      BY BookedParts, SumParts
    <3>5. Total(MayFills, Sells') <= Total(Booked, OnSide("BUY"))
      BY <3>1, <3>2, <3>3, <3>4
    <3>6. QED
      BY <1>1, <2>1, <3>1, <3>5
  <2>3. CASE ~ReduceOnly[o]
    <3>1. Side[o] = "BUY"
      BY <1>1, <1>5, <2>3 DEF OnlyBuysEnter
    <3>2. Sells' = Sells
      BY <1>1, <3>1 DEF Sells
    <3>3. QED
      BY <1>1, <2>1, <2>3, <3>2
  <2>4. QED
    BY <2>2, <2>3
<1>6. ExitsBooked'
  BY <1>2, <1>5 DEF ExitsBooked, OnSide
<1>7. QED
  BY <1>3, <1>6 DEF ExitInv

\* Every step keeps it.
LEMMA StepKeepsExits ==
  ASSUME IInv, ExitInv, [Next]_vars
  PROVE  ExitInv'
<1>1. IInv'
  BY StepKeeps
<1>2. ASSUME NEW o \in Orders, Approve(o) PROVE ExitInv'
  BY <1>1, <1>2, ApproveKeepsExits
<1>3. ASSUME approved' = approved, Bookkeeping, \A o \in approved : MayFill(o)' <= MayFill(o)
      PROVE  ExitInv'
  <2>1. /\ PositionBooked' /\ Total(Booked, OnSide("BUY"))' \in Nat
        /\ Total(Booked, OnSide("BUY")) <= Total(Booked, OnSide("BUY"))'
    BY <1>1, <1>3, BooksKeep DEF ExitInv
  <2>2. external' \in Nat /\ external \in Nat /\ external' >= external
    BY <1>1, <1>3 DEF Bookkeeping, IInv, TypeOK
  <2>3. Sells' = Sells /\ (OnlyBuysEnter' => OnlyBuysEnter)
    BY <1>3, <2>2 DEF Sells, OnlyBuysEnter
  <2>4. Total(MayFills', Sells) <= Total(MayFills, Sells)
    <3>1. \A o \in Sells : MayFills[o] \in Nat /\ MayFills'[o] \in Int /\ MayFills'[o] <= MayFills[o]
      <4>1. ASSUME NEW o \in Sells
            PROVE  MayFills[o] \in Nat /\ MayFills'[o] \in Int /\ MayFills'[o] <= MayFills[o]
        <5>1. o \in approved /\ o \in Orders
          BY OrdersParts
        <5>2. MayFills[o] = MayFill(o) /\ MayFills'[o] = MayFill(o)'
          BY <5>1 DEF MayFills
        <5>3. MayFill(o) \in Nat /\ MayFill(o)' \in Nat
          BY <1>1, <5>1, FillBound, MayFillNext
        <5>4. QED
          BY <1>3, <5>1, <5>2, <5>3
      <4>2. QED
        BY <4>1
    <3>2. IsFiniteSet(Sells) /\ Sells \in SUBSET Sells
      BY OrdersParts
    <3>3. QED
      BY <3>1, <3>2, TotalGrows
  <2>5. /\ Total(MayFills, Sells) \in Nat /\ Total(Booked, OnSide("BUY")) \in Nat
        /\ Total(MayFills', Sells) \in Nat
    <3>1. IsFiniteSet(Sells) /\ \A o \in Sells : MayFills'[o] \in Nat
      <4>1. ASSUME NEW o \in Sells PROVE MayFills'[o] \in Nat
        <5>1. o \in approved /\ o \in Orders
          BY OrdersParts
        <5>2. MayFill(o)' \in Nat
          BY <1>1, <5>1, MayFillNext
        <5>3. QED
          BY <5>1, <5>2 DEF MayFills
      <4>2. QED
        BY <4>1, OrdersParts
    <3>2. QED
      BY <3>1, SumParts, TotalFinite
  <2>6. ExitsBooked'
    <3>1. ASSUME OnlyBuysEnter'
          PROVE  /\ \A o \in approved' : ReduceOnly[o] => Side[o] = "SELL"
                 /\ Total(MayFills', Sells') <= Total(Booked, OnSide("BUY"))'
      <4>1. /\ \A o \in approved : ReduceOnly[o] => Side[o] = "SELL"
            /\ Total(MayFills, Sells) <= Total(Booked, OnSide("BUY"))
        BY <2>3, <3>1 DEF ExitInv, ExitsBooked
      <4>2. QED
        BY <1>3, <2>1, <2>3, <2>4, <2>5, <4>1
    <3>2. QED
      BY <3>1 DEF ExitsBooked
  <2>7. QED
    BY <2>1, <2>6 DEF ExitInv
<1>4. QED
  BY <1>2, <1>3, StepBooks

\* Nothing was sold at first.
LEMMA InitExits ==
  ASSUME Init
  PROVE  ExitInv
<1>1. /\ Sells = {} /\ approved = {} /\ position = 0
      /\ \A o \in Orders : Booked[o] = 0
  BY FS_EmptySet DEF Init, Sells, Booked
<1>2. \A f, S : (\A o \in S : f[o] = 0) => Total(f, S) = 0
  <2>1. ASSUME NEW f, NEW S, \A o \in S : f[o] = 0 PROVE LotsOf(f, S) = {}
    <3>1. ASSUME NEW l \in LotsOf(f, S) PROVE FALSE
      <4>1. l[1] \in S /\ l[2] \in 1 .. f[l[1]]
        BY LotIsPair
      <4>2. QED
        BY <2>1, <4>1
    <3>2. QED
      BY <3>1
  <2>2. QED
    BY <2>1, FS_EmptySet DEF Total
<1>3. \A side : Total(Booked, OnSide(side)) = 0
  BY <1>1, <1>2 DEF OnSide
<1>4. Total(MayFills, Sells) = 0
  BY <1>1, <1>2
<1>5. QED
  BY <1>1, <1>3, <1>4 DEF ExitInv, PositionBooked, ExitsBooked

\* What exits reserve is never more than the position, and the venue never
\* closes more than was opened: ClosingPool of execution_reducer, and
\* concurrent reduce-only orders at a venue that does not enforce it
\* (ExitsWithinPosition).
THEOREM ExitsAlwaysWithin == Spec => []ExitsWithinPosition
<1>1. Init => IInv /\ ExitInv
  BY InitSound, InitExits
<1>2. IInv /\ ExitInv /\ [Next]_vars => (IInv /\ ExitInv)'
  BY StepKeeps, StepKeepsExits
<1>3. IInv /\ ExitInv => ExitsWithinPosition
  BY PoolHolds, NoOverClose DEF ExitInv, ExitsWithinPosition
<1>4. QED
  BY <1>1, <1>2, <1>3, PTL DEF Spec
=============================================================================
