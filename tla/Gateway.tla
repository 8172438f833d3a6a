------------------------------ MODULE Gateway ------------------------------
(***************************************************************************)
(* execution/router.py: the fenced dispatch of committed commands.  A      *)
(* session is one AccountOwnership with its DispatchAuthority and Router.  *)
(* Its loop awaits twice for each row (preparation, response), and between *)
(* those awaits anything may be committed: a cancel, a report, a policy    *)
(* change, the end of the session, a crash, or the latch of the engine.    *)
(*                                                                         *)
(* Orders and their commands are the records of OMS; a submission is       *)
(* command 0 of its order, and cancel attempt k is command k.              *)
(***************************************************************************)
EXTENDS OMS, FiniteSets

CONSTANTS Orders,       \* client order ids
          Entries,      \* the ones that are not reduce-only
          Sessions,
          MaxCancels,   \* cancel attempts per order
          MaxEpoch,     \* sessions started
          MaxPolicy     \* changes of the risk or latch version

ASSUME GatewayAssumption ==
  /\ Orders \subseteq Nat /\ Orders # {} /\ Entries \subseteq Orders /\ MaxCancels \in Nat
  /\ MaxEpoch \in Nat /\ MaxPolicy \in Nat

Commands == Orders \X (0 .. MaxCancels)

\* Orders of one lot whose executions are booked elsewhere (OrderDesk).
Lots == 1

VARIABLES approved,   \* orders the account writer knows
          orders,     \* their state, with the outbox status of each command
          stamp,      \* gateway_fence and risk_version a command was made with
          epoch,      \* durable gateway_epoch
          latched,    \* Engine._latched: a failed commit stops the writer
          session,    \* [Sessions -> the volatile state of one session]
          policy,     \* GatewayPolicy: versions, and the orders it admits
          expired,    \* commands whose expires_at has passed
          sends       \* [Commands -> Nat] handoffs so far

store == <<approved, orders, stamp, epoch>>
vars == <<store, latched, session, policy, expired, sends>>

Stamp == [fence : Nat, risk : Nat]

\* pc: down, idle, next (between rows), prepare (a permit is out), await (the
\* response).  rows is the rest of the snapshot Outbox.pending returned.
SessionState ==
  [pc : {"down", "idle", "next", "prepare", "await"}, epoch : Nat,
   active : BOOLEAN, fresh : BOOLEAN, rows : SUBSET Commands,
   row : Commands, latch : Nat]

Down == [pc |-> "down", epoch |-> 0, active |-> FALSE, fresh |-> FALSE,
         rows |-> {}, row |-> CHOOSE c \in Commands : TRUE, latch |-> 0]

TypeOK ==
  /\ approved \in SUBSET Orders
  /\ orders \in [Orders -> OrderState]
  /\ stamp \in [Commands -> Stamp]
  /\ epoch \in Nat
  /\ latched \in BOOLEAN
  /\ session \in [Sessions -> SessionState]
  /\ policy \in [risk : Nat, latch : Nat, admits : SUBSET Orders]
  /\ expired \in SUBSET Commands
  /\ sends \in [Commands -> Nat]

Init ==
  /\ approved = {}
  /\ orders = [o \in Orders |-> NewOrder]
  /\ stamp = [c \in Commands |-> [fence |-> 0, risk |-> 0]]
  /\ epoch = 0
  /\ latched = FALSE
  /\ session = [s \in Sessions |-> Down]
  /\ policy = [risk |-> 0, latch |-> 0, admits |-> Orders]
  /\ expired = {}
  /\ sends = [c \in Commands |-> 0]

Exists(c) == c[1] \in approved /\ (c[2] = 0 \/ c[2] \in DOMAIN orders[c[1]].can)
Status(c) == CommandOf(orders[c[1]], c[2])
Queued(c) == Exists(c) /\ Status(c) = "PENDING"
----------------------------------------------------------------------------
(* The account writer: one committed engine cycle per fact.                *)

Commit(o, r) ==
  /\ ~latched
  /\ orders' = [orders EXCEPT ![o] = Project(r, Lots, 0)]
  /\ UNCHANGED <<epoch, latched>>

\* A commit that fails leaves the store as it was and latches the engine.
CommitFails ==
  /\ latched' = TRUE
  /\ UNCHANGED store

Approve(o) ==
  /\ ~latched /\ o \notin approved
  /\ approved' = approved \cup {o}
  /\ stamp' = [stamp EXCEPT ![<<o, 0>>] = [fence |-> epoch, risk |-> policy.risk]]
  /\ UNCHANGED <<orders, epoch, latched, session, policy, expired, sends>>

CancelRequest(o) ==
  LET k == Len(orders[o].can) + 1 IN
  /\ o \in approved /\ ~CancelIgnored(orders[o]) /\ k <= MaxCancels
  /\ Commit(o, OnCancelRequested(orders[o]))
  /\ stamp' = IF orders[o].started
                THEN [stamp EXCEPT ![<<o, k>>] = [fence |-> epoch, risk |-> policy.risk]]
                ELSE stamp
  /\ UNCHANGED <<approved, session, policy, expired, sends>>

\* A private stream or recovery report of an order that may have arrived.
Report(o, status) ==
  /\ o \in approved /\ sends[<<o, 0>>] > 0
  /\ Commit(o, OnOrderReport(orders[o], Lots, status, IF status = "FILLED" THEN 1 ELSE 0, TRUE))
  /\ UNCHANGED <<approved, stamp, session, policy, expired, sends>>
----------------------------------------------------------------------------
(* AccountOwnership.                                                       *)

\* The file lock admits one active owner; each start takes a new epoch.
Start(s) ==
  /\ session[s].pc = "down" /\ epoch < MaxEpoch
  /\ \A t \in Sessions : ~session[t].active
  /\ epoch' = epoch + 1
  /\ session' = [session EXCEPT ![s] = [Down EXCEPT !.pc = "idle", !.epoch = epoch + 1,
                                                    !.active = TRUE, !.fresh = TRUE]]
  /\ UNCHANGED <<approved, orders, stamp, latched, policy, expired, sends>>

\* Close gives up ownership while the loop may still be inside an await.
Close(s) ==
  /\ session[s].active
  /\ session' = [session EXCEPT ![s].active = FALSE]
  /\ UNCHANGED <<store, latched, policy, expired, sends>>

\* The heartbeat ages past its timeout, or is renewed in time again.
Heartbeat(s) ==
  /\ session[s].active
  /\ session' = [session EXCEPT ![s].fresh = ~session[s].fresh]
  /\ UNCHANGED <<store, latched, policy, expired, sends>>

\* Every permit and every loop dies with the process; the store survives.
Crash ==
  /\ \E s \in Sessions : session[s].pc # "down"
  /\ session' = [s \in Sessions |-> Down]
  /\ latched' = FALSE
  /\ UNCHANGED <<store, policy, expired, sends>>
----------------------------------------------------------------------------
(* DispatchAuthority.                                                      *)

\* The order still waits for exactly this command.
OrderAwaits(c) ==
  /\ orders[c[1]].life \notin TERMINAL
  /\ orders[c[1]].pend = IF c[2] = 0 THEN "SUBMIT" ELSE "CANCEL"

\* ownership.validate
OwnershipValid(s, c) ==
  /\ session[s].active /\ session[s].fresh
  /\ session[s].epoch = stamp[c].fence /\ epoch = stamp[c].fence

\* DispatchAuthority._check
Check(s, c) ==
  /\ c \notin expired
  /\ OwnershipValid(s, c)
  /\ stamp[c].risk = policy.risk
  /\ c[2] = 0 => c[1] \in policy.admits
  /\ OrderAwaits(c)

\* (faulty) what held at the grant is trusted after the preparation.
GrantIsEnough(s, c) == OrderAwaits(c)

\* The second check of consume, with the permit's latch version.
Recheck(s, c) == Check(s, c) /\ policy.latch = session[s].latch

Goto(s, pc) == session' = [session EXCEPT ![s].pc = pc]

Drop(s, c) == session' = [session EXCEPT ![s].rows = @ \ {c}]

\* dispatch_ready takes the snapshot of pending rows.  The caller drives the
\* session that owns the account; a loop begun before Close goes on after it.
Begin(s) ==
  /\ session[s].pc = "idle" /\ session[s].active
  /\ session' = [session EXCEPT ![s].pc = "next",
                                ![s].rows = {c \in Commands : Queued(c)}]
  /\ UNCHANGED <<store, latched, policy, expired, sends>>

Done(s) ==
  /\ session[s].pc = "next" /\ session[s].rows = {}
  /\ Goto(s, "idle")
  /\ UNCHANGED <<store, latched, policy, expired, sends>>

Working(s, c) == session[s].pc = "next" /\ c \in session[s].rows

\* The permit of c is minted only after its claim is durable.
Grant(s, c) ==
  /\ Working(s, c) /\ Status(c) = "PENDING" /\ Check(s, c)
  /\ \/ /\ Commit(c[1], OnDispatchStarted(orders[c[1]], c[2]))
        /\ session' = [session EXCEPT ![s].pc = "prepare", ![s].row = c,
                                      ![s].rows = @ \ {c}, ![s].latch = policy.latch]
        /\ UNCHANGED <<approved, stamp>>
     \/ CommitFails /\ Goto(s, "idle")
  /\ UNCHANGED <<policy, expired, sends>>

\* (faulty) the fence is validated before the expiry.
ExpireOwnRow(s, c) ==
  /\ Working(s, c) /\ Status(c) = "PENDING" /\ c \in expired
  /\ OwnershipValid(s, c)
  /\ \/ /\ Commit(c[1], OnUnsentAborted(orders[c[1]], c[2], "EXPIRED"))
        /\ Drop(s, c)
        /\ UNCHANGED <<approved, stamp>>
     \/ CommitFails /\ Goto(s, "idle")
  /\ UNCHANGED <<policy, expired, sends>>

\* An expired row that is still PENDING is aborted, whatever its fence.
ExpireRow(s, c) ==
  /\ Working(s, c) /\ Status(c) = "PENDING" /\ c \in expired
  /\ \/ /\ Commit(c[1], OnUnsentAborted(orders[c[1]], c[2], "EXPIRED"))
        /\ Drop(s, c)
        /\ UNCHANGED <<approved, stamp>>
     \/ CommitFails /\ Goto(s, "idle")
  /\ UNCHANGED <<policy, expired, sends>>

\* Any other refusal leaves the row for a later call.
SkipRow(s, c) ==
  /\ Working(s, c)
  /\ c \notin expired \/ Status(c) # "PENDING"
  /\ ~(Status(c) = "PENDING" /\ Check(s, c))
  /\ Drop(s, c)
  /\ UNCHANGED <<store, latched, policy, expired, sends>>

\* (faulty) a boundary error leaves the permit usable.
HandoffKeepingPermit(s) ==
  LET c == session[s].row IN
  /\ session[s].pc = "prepare"
  /\ Recheck(s, c) /\ Status(c) = "UNKNOWN"
  /\ sends' = [sends EXCEPT ![c] = Smaller(@ + 1, 2)]
  /\ \E pc \in {"await", "prepare"} : Goto(s, pc)
  /\ UNCHANGED <<store, latched, policy, expired>>

\* Preparation done: consume the permit and hand off, without an await.  A
\* boundary error that may have sent bytes ends the call (pc "idle").
Handoff(s) ==
  LET c == session[s].row IN
  /\ session[s].pc = "prepare"
  /\ Recheck(s, c) /\ Status(c) = "UNKNOWN"
  /\ sends' = [sends EXCEPT ![c] = @ + 1]
  /\ \E pc \in {"await", "idle"} : Goto(s, pc)
  /\ UNCHANGED <<store, latched, policy, expired>>

\* Preparation failed, a check was refused, the task was cancelled (pc
\* "idle"), or the boundary proved that no byte left: abort_unsent.
AbortUnsent(s, reason) ==
  LET c == session[s].row IN
  /\ session[s].pc = "prepare"
  /\ reason = "EXPIRED" => c \in expired
  /\ reason = "CANCELED" => c[2] = 0 /\ orders[c[1]].pend = "CANCEL"
  /\ \/ /\ IF Status(c) = "UNKNOWN"
             THEN /\ Commit(c[1], OnUnsentAborted(orders[c[1]], c[2], reason))
                  /\ UNCHANGED <<approved, stamp>>
             ELSE UNCHANGED <<store, latched>>
        /\ \E pc \in {"next", "idle"} : Goto(s, pc)
     \/ Status(c) = "UNKNOWN" /\ CommitFails /\ Goto(s, "idle")
  /\ UNCHANGED <<policy, expired, sends>>

\* The response, or the timeout that stands for it, is observed once.
Observe(s, result) ==
  LET c == session[s].row  r == orders[c[1]] IN
  /\ session[s].pc = "await"
  /\ \/ /\ Commit(c[1], IF c[2] = 0 THEN OnSubmitResult(r, result)
                                    ELSE OnCancelResult(r, c[2], result))
        /\ Goto(s, "next")
        /\ UNCHANGED <<approved, stamp>>
     \/ CommitFails /\ Goto(s, "idle")
  /\ UNCHANGED <<policy, expired, sends>>
----------------------------------------------------------------------------
(* What the policy provider and the clock do meanwhile.                    *)

PolicyChange ==
  /\ policy.risk + policy.latch < MaxPolicy
  /\ \E admits \in {{}, Orders \ Entries, Orders} :
       \/ policy' = [policy EXCEPT !.latch = @ + 1, !.admits = admits]
       \/ policy' = [policy EXCEPT !.risk = @ + 1, !.admits = admits]
  /\ UNCHANGED <<store, latched, session, expired, sends>>

Expire(c) ==
  /\ Exists(c) /\ c \notin expired
  /\ expired' = expired \cup {c}
  /\ UNCHANGED <<store, latched, session, policy, sends>>

SessionStep(s) ==
  \/ Begin(s) \/ Done(s) \/ Handoff(s)
  \/ \E c \in Commands : Grant(s, c) \/ ExpireRow(s, c) \/ SkipRow(s, c)
  \/ \E reason \in AbortReason : AbortUnsent(s, reason)
  \/ \E result \in TransportResult : Observe(s, result)

WriterStep ==
  \E o \in Orders :
    \/ Approve(o) \/ CancelRequest(o)
    \/ \E status \in {"OPEN", "FILLED", "CANCELED"} : Report(o, status)

Next ==
  \/ \E s \in Sessions : SessionStep(s) \/ Start(s) \/ Close(s) \/ Heartbeat(s)
  \/ WriterStep \/ Crash \/ PolicyChange
  \/ \E c \in Commands : Expire(c)

Spec == Init /\ [][Next]_vars

\* The event loop runs the session and every expiry passes.
FairSpec ==
  /\ Spec
  /\ \A s \in Sessions : WF_vars(SessionStep(s))
  /\ \A c \in Commands : WF_vars(Expire(c))
----------------------------------------------------------------------------
(* Properties.                                                             *)

\* No command is handed to the transport twice, across sessions, crashes,
\* failed commits and revoked permits.
AtMostOneHandoff == \A c \in Commands : sends[c] <= 1

\* What was written off as unsent was never sent: the release of its order
\* and reservation rests on proof, not on a missing answer.
UnsentMeansUnsent ==
  \A c \in Commands : Exists(c) /\ Status(c) \in WrittenOff => sends[c] = 0

\* What the desk knows of its commands is what left it: none twice, and none
\* of those it wrote off (Router.dispatch).
HandoffsCounted == TypeOK /\ AtMostOneHandoff /\ UnsentMeansUnsent

\* A command on the wire is authorized at that moment, not at the moment its
\* permit was granted: nothing was committed or changed during preparation
\* that forbids it.
HandoffAuthorized ==
  [][\A c \in Commands : sends'[c] # sends[c] =>
       /\ c[2] = 0 => orders[c[1]].can = <<>> /\ c[1] \in policy.admits
       /\ stamp[c].fence = epoch /\ stamp[c].risk = policy.risk
       /\ c \notin expired]_vars

\* No queued command waits for ever: it is sent, settled, or expires and gives
\* its reserve back, even when its fence or its risk version is out of date.
\* Only a latched engine or a gateway nobody runs leaves it queued.
QueuedSettles ==
  \A c \in Commands : Queued(c) ~>
    (~Queued(c) \/ latched \/ \A s \in Sessions : ~session[s].active)

\* Every command follows the abstract delivery protocol.
DeliveryOf(c) ==
  IF sends[c] > 1 THEN "duplicate"
  ELSE IF sends[c] = 1 THEN "sent"
  ELSE IF ~Exists(c) THEN "none"
  ELSE IF Status(c) \in {"PENDING", "UNKNOWN"} THEN "queued" ELSE "withdrawn"

D == INSTANCE Delivery WITH delivery <- [c \in Commands |-> DeliveryOf(c)]

ImplementsDelivery == D!DeliverySpec
============================================================================
