--------------------------- MODULE Gateway_proofs ---------------------------
(***************************************************************************)
(* The gateway hands every command off at most once, writes off only what  *)
(* was never sent, and implements the delivery protocol, for any number of *)
(* orders, cancel attempts and sessions.                                   *)
(***************************************************************************)
EXTENDS Gateway, OMS_proofs

\* A command that left the queue for good, by a durable claim.
Claimed(c) == Exists(c) /\ Status(c) # "PENDING" /\ orders[c[1]].started

\* The rows a session still has to visit are commands that exist.
RowsExist == \A s \in Sessions : \A c \in session[s].rows : Exists(c)

\* Whatever was handed off was claimed, once, and is not written off.
SentIsClaimed ==
  \A c \in Commands : sends[c] > 0 =>
    sends[c] = 1 /\ Claimed(c) /\ Status(c) \notin WrittenOff

\* A permit is for a command that was claimed and has not been handed off.
PermitUnsent ==
  \A s \in Sessions : session[s].pc = "prepare" =>
    Claimed(session[s].row) /\ sends[session[s].row] = 0

\* No two sessions hold a permit for the same command.
OnePermit ==
  \A s, t \in Sessions :
    /\ session[s].pc = "prepare" /\ session[t].pc = "prepare"
    /\ session[s].row = session[t].row
    => s = t

\* A session awaits the response to what it has handed off.
AwaitsSent ==
  \A s \in Sessions : session[s].pc = "await" =>
    Exists(session[s].row) /\ sends[session[s].row] = 1

\* Orders the writer does not know are as new, and cancels of the others are
\* opened one after the other.
OrdersOrderly ==
  \A o \in Orders : /\ o \notin approved => orders[o] = NewOrder
                    /\ LastOpen(orders[o]) /\ CancelShown(orders[o])

IInv ==
  /\ TypeOK /\ RowsExist /\ SentIsClaimed /\ PermitUnsent
  /\ OnePermit /\ AwaitsSent /\ OrdersOrderly
-----------------------------------------------------------------------------
(* What a step does to the durable store.                                  *)

\* Commands and orders go forward; only commands of `off` are newly written
\* off and only commands of `again` are newly open.
Advance(off, again) ==
  /\ approved' \in SUBSET Orders /\ orders' \in [Orders -> OrderState]
  /\ \A c \in Commands : Exists(c) => Exists(c)'
  /\ \A c \in Commands : Claimed(c) => Claimed(c)'
  /\ \A c \in Commands :
       Exists(c) /\ Status(c)' \in WrittenOff => Status(c) \in WrittenOff \/ c \in off
  /\ \A c \in Commands :
       Exists(c) /\ Status(c)' \in Open => Status(c) \in Open \/ c \in again
  /\ OrdersOrderly'

\* A step that sends nothing, writes off only what was not sent and opens
\* again only what was.
StoreStep ==
  /\ sends' = sends
  /\ \E off, again \in SUBSET Commands :
       /\ Advance(off, again)
       /\ \A c \in off : sends[c] = 0
       /\ \A c \in again : sends[c] = 1

\* The set of commands stays the same.
SameExists == \A c \in Commands : Exists(c)' <=> Exists(c)

\* A command is an order it belongs to and a number.
LEMMA CommandParts ==
  ASSUME NEW c \in Commands
  PROVE  c[1] \in Orders /\ c[2] \in 0 .. MaxCancels /\ c = <<c[1], c[2]>>
  BY DEF Commands

\* A step that leaves the store as it is.
LEMMA StoreStays ==
  ASSUME IInv, UNCHANGED <<approved, orders>>
  PROVE  Advance({}, {}) /\ SameExists
<1>1. TypeOK /\ OrdersOrderly
  BY DEF IInv
<1>2. \A c \in Commands : (Exists(c)' <=> Exists(c)) /\ Status(c)' = Status(c)
  BY DEF Exists, Status
<1>3. \A c \in Commands : Claimed(c) => Claimed(c)'
  BY <1>2 DEF Claimed
<1>4. OrdersOrderly'
  BY <1>1 DEF OrdersOrderly
<1>5. QED
  BY <1>1, <1>2, <1>3, <1>4 DEF Advance, SameExists, TypeOK

\* One committed fact about an order the writer knows.
LEMMA CommitAdvances ==
  ASSUME IInv, NEW o \in approved, NEW t, NEW off, NEW again,
         Evolves(orders[o], t, off, again), Commit(o, t), approved' = approved
  PROVE  /\ Advance({<<o, k>> : k \in off}, {<<o, k>> : k \in again})
         /\ SameExists
<1> DEFINE r == orders[o]
           p == Project(t, Lots, 0)
<1>1. TypeOK /\ OrdersOrderly
  BY DEF IInv
<1>2. o \in Orders /\ r \in OrderState /\ t \in OrderState
  BY <1>1 DEF TypeOK, Evolves
<1>3. /\ Evolves(t, p, {}, {}) /\ CancelShown(p)
      /\ p.can = t.can /\ p.sub = t.sub /\ p.started = t.started
  BY <1>2, ProjectEvolves DEF Lots
<1>4. orders' = [orders EXCEPT ![o] = p]
  BY DEF Commit
<1> HIDE DEF p
<1>5. p \in OrderState /\ Len(p.can) = Len(r.can) /\ DOMAIN p.can = DOMAIN r.can
  BY <1>2, <1>3, OrderParts DEF Evolves, Keeps
<1>6. \A k \in Cmds(r) :
        /\ CommandOf(p, k) = "PENDING" => CommandOf(r, k) = "PENDING"
        /\ CommandOf(p, k) \in WrittenOff => CommandOf(r, k) \in WrittenOff \/ k \in off
        /\ CommandOf(p, k) \in Open => CommandOf(r, k) \in Open \/ k \in again
  BY <1>3 DEF Evolves, Keeps, CommandOf
<1>7. orders' \in [Orders -> OrderState] /\ orders'[o] = p
  BY <1>1, <1>2, <1>4, <1>5 DEF TypeOK
<1>8. \A u \in Orders \ {o} : orders'[u] = orders[u]
  BY <1>1, <1>4 DEF TypeOK
<1>9. \A c \in Commands : Exists(c)' <=> Exists(c)
  BY <1>5, <1>7, <1>8, CommandParts DEF Exists
<1>10. ASSUME NEW c \in Commands, Exists(c)
       PROVE  /\ Status(c)' = "PENDING" => Status(c) = "PENDING"
              /\ Status(c)' \in WrittenOff =>
                   Status(c) \in WrittenOff \/ c \in {<<o, k>> : k \in off}
              /\ Status(c)' \in Open =>
                   Status(c) \in Open \/ c \in {<<o, k>> : k \in again}
              /\ orders[c[1]].started => orders'[c[1]].started
  <2>1. CASE c[1] = o
    <3>1. c[2] \in Cmds(r)
      BY <2>1, <1>10 DEF Exists, Cmds
    <3>2. Status(c) = CommandOf(r, c[2]) /\ Status(c)' = CommandOf(p, c[2])
      BY <2>1, <1>7 DEF Status
    <3>3. c = <<o, c[2]>>
      BY <2>1, CommandParts
    <3>4. r.started => p.started
      BY <1>3 DEF Evolves, Keeps
    <3>5. QED
      BY <2>1, <3>1, <3>2, <3>3, <3>4, <1>6, <1>7
  <2>2. CASE c[1] # o
    BY <2>2, <1>8, CommandParts DEF Status
  <2>3. QED
    BY <2>1, <2>2
<1>11. \A c \in Commands : Claimed(c) => Claimed(c)'
  BY <1>9, <1>10 DEF Claimed
<1>12. LastOpen(p)
  <2>1. LastOpen(r)
    BY <1>1, <1>2 DEF OrdersOrderly
  <2>2. QED
    BY <2>1, <1>3 DEF Evolves
<1>13. OrdersOrderly'
  BY <1>1, <1>3, <1>7, <1>8, <1>12 DEF OrdersOrderly
<1>14. QED
  BY <1>1, <1>7, <1>9, <1>10, <1>11, <1>13 DEF Advance, SameExists, TypeOK

-----------------------------------------------------------------------------
(* The store part of every action.                                         *)

\* A step that leaves the store and the handoffs as they are.
LEMMA IdleStore ==
  ASSUME IInv, UNCHANGED <<approved, orders>>, sends' = sends
  PROVE  StoreStep /\ SameExists
  BY StoreStays DEF StoreStep

\* A committed fact that writes off only what was not sent and opens again
\* only what was.
LEMMA FactStore ==
  ASSUME IInv, NEW o \in approved, NEW t,
         NEW off \in SUBSET (0 .. MaxCancels), NEW again \in SUBSET (0 .. MaxCancels),
         Evolves(orders[o], t, off, again), Commit(o, t), approved' = approved,
         sends' = sends,
         \A k \in off : sends[<<o, k>>] = 0,
         \A k \in again : sends[<<o, k>>] = 1
  PROVE  StoreStep /\ SameExists
<1> DEFINE offc == {<<o, k>> : k \in off}
           againc == {<<o, k>> : k \in again}
<1>1. o \in Orders
  BY DEF IInv, TypeOK
<1>2. offc \in SUBSET Commands /\ againc \in SUBSET Commands
  BY <1>1 DEF Commands
<1>3. Advance(offc, againc) /\ SameExists
  BY CommitAdvances
<1>4. (\A c \in offc : sends[c] = 0) /\ (\A c \in againc : sends[c] = 1)
  OBVIOUS
<1> HIDE DEF offc, againc
<1>5. QED
  BY <1>2, <1>3, <1>4 DEF StoreStep

\* Approve adds the submission of its order to the commands, and nothing else.
LEMMA ApproveStore ==
  ASSUME IInv, NEW o \in Orders, Approve(o)
  PROVE  /\ StoreStep
         /\ \A c \in Commands : Exists(c)' <=> Exists(c) \/ c = <<o, 0>>
<1>1. /\ TypeOK /\ OrdersOrderly /\ approved' = approved \cup {o} /\ orders' = orders
      /\ sends' = sends /\ o \notin approved
  BY DEF IInv, Approve
<1>2. orders[o].can = <<>>
  BY <1>1 DEF OrdersOrderly, NewOrder
<1>3. \A c \in Commands : Exists(c)' <=> Exists(c) \/ c = <<o, 0>>
  BY <1>1, <1>2, CommandParts DEF Exists
<1>4. \A c \in Commands : Status(c)' = Status(c)
  BY <1>1 DEF Status
<1>5. \A c \in Commands : Claimed(c) => Claimed(c)'
  BY <1>1, <1>3, <1>4 DEF Claimed
<1>6. OrdersOrderly'
  BY <1>1 DEF OrdersOrderly
<1>7. Advance({}, {})
  BY <1>1, <1>3, <1>4, <1>5, <1>6 DEF Advance, TypeOK
<1>8. QED
  BY <1>1, <1>3, <1>7 DEF StoreStep

\* CancelRequest of an order whose transport started adds one attempt to the
\* commands and changes no other.
LEMMA CancelQueuedStore ==
  ASSUME IInv, NEW o \in Orders, CancelRequest(o), orders[o].started
  PROVE  LET new == <<o, Len(orders[o].can) + 1>> IN
         /\ StoreStep /\ new \in Commands /\ ~Exists(new)
         /\ \A c \in Commands : Exists(c)' <=> Exists(c) \/ c = new
         /\ \A c \in Commands : Exists(c) => Status(c)' = Status(c)
         /\ \A c \in Commands : c = new => Status(c)' = "PENDING"
<1> DEFINE r == orders[o]
           t == OnCancelRequested(r)
           p == Project(t, Lots, 0)
           n == Len(r.can) + 1
<1>1. TypeOK /\ OrdersOrderly
  BY DEF IInv
<1>2. /\ o \in approved /\ ~CancelIgnored(r) /\ n <= MaxCancels /\ approved' = approved
      /\ orders' = [orders EXCEPT ![o] = p] /\ sends' = sends
  BY DEF CancelRequest, Commit
<1>3. r \in OrderState /\ CancelShown(r) /\ LastOpen(r)
  BY <1>1 DEF TypeOK, OrdersOrderly
<1>4. /\ t \in OrderState /\ t.started = r.started /\ t.sub = r.sub
      /\ t.can = Append(r.can, "PENDING") /\ Len(t.can) = n
      /\ \A k \in Cmds(r) : CommandOf(t, k) = CommandOf(r, k)
      /\ LastOpen(t)
  BY <1>2, <1>3, CancelQueued
<1> HIDE DEF t
<1>5. /\ Evolves(t, p, {}, {}) /\ CancelShown(p)
      /\ p.can = t.can /\ p.sub = t.sub /\ p.started = t.started
  <2>1. t \in OrderState
    BY <1>4
  <2>2. QED
    BY <2>1, ProjectEvolves DEF Lots
<1> HIDE DEF p
<1>6. p \in OrderState /\ LastOpen(p)
  BY <1>4, <1>5 DEF Evolves
<1>7. /\ Len(r.can) \in Nat /\ DOMAIN r.can = 1 .. Len(r.can) /\ DOMAIN p.can = 1 .. n
      /\ p.can[n] = "PENDING"
  <2>1. /\ DOMAIN r.can = 1 .. Len(r.can) /\ Len(r.can) \in Nat
        /\ r.can \in Seq(CommandStatus) /\ "PENDING" \in CommandStatus
    BY <1>3, OrderParts DEF CommandStatus
  <2>2. DOMAIN p.can = 1 .. n
    BY <1>4, <1>5, <1>6, OrderParts
  <2>3. p.can[n] = "PENDING"
    BY <2>1, <1>4, <1>5, AppendProperties
  <2>4. QED
    BY <2>1, <2>2, <2>3
<1>8. \A k \in Cmds(r) : CommandOf(p, k) = CommandOf(r, k)
  BY <1>4, <1>5 DEF CommandOf
<1>9. orders' \in [Orders -> OrderState] /\ orders'[o] = p
  BY <1>1, <1>2, <1>6 DEF TypeOK
<1>10. \A u \in Orders \ {o} : orders'[u] = orders[u]
  BY <1>1, <1>2 DEF TypeOK
<1>11. <<o, n>> \in Commands /\ ~Exists(<<o, n>>)
  BY <1>2, <1>7 DEF Commands, Exists
<1>12. \A c \in Commands : Exists(c)' <=> Exists(c) \/ c = <<o, n>>
  <2> SUFFICES ASSUME NEW c \in Commands
               PROVE  Exists(c)' <=> Exists(c) \/ c = <<o, n>>
    OBVIOUS
  <2>1. CASE c[1] = o
    <3>1. c = <<o, c[2]>> /\ c[2] \in 0 .. MaxCancels
      BY <2>1, CommandParts
    <3>2. Exists(c)' <=> c[2] = 0 \/ c[2] \in 1 .. n
      BY <2>1, <1>2, <1>7, <1>9 DEF Exists
    <3>3. Exists(c) <=> c[2] = 0 \/ c[2] \in 1 .. Len(r.can)
      BY <2>1, <1>2, <1>7 DEF Exists
    <3>4. c = <<o, n>> <=> c[2] = n
      BY <3>1
    <3>5. QED
      BY <3>1, <3>2, <3>3, <3>4, <1>7
  <2>2. CASE c[1] # o
    BY <2>2, <1>2, <1>10, CommandParts DEF Exists
  <2>3. QED
    BY <2>1, <2>2
<1>13. \A c \in Commands : Exists(c) =>
         Status(c)' = Status(c) /\ (orders[c[1]].started => orders'[c[1]].started)
  <2> SUFFICES ASSUME NEW c \in Commands, Exists(c)
               PROVE  Status(c)' = Status(c) /\ (orders[c[1]].started => orders'[c[1]].started)
    OBVIOUS
  <2>1. CASE c[1] = o
    BY <2>1, <1>4, <1>5, <1>8, <1>9 DEF Exists, Status, Cmds
  <2>2. CASE c[1] # o
    BY <2>2, <1>10, CommandParts DEF Status
  <2>3. QED
    BY <2>1, <2>2
<1>14. \A c \in Commands : c = <<o, n>> => Status(c)' = "PENDING"
  BY <1>7, <1>9 DEF Status, CommandOf
<1>15. \A c \in Commands : Claimed(c) => Claimed(c)'
  BY <1>12, <1>13 DEF Claimed
<1>16. OrdersOrderly'
  BY <1>1, <1>2, <1>5, <1>6, <1>9, <1>10 DEF OrdersOrderly
<1>17. Advance({}, {})
  BY <1>1, <1>2, <1>9, <1>12, <1>13, <1>15, <1>16 DEF Advance, TypeOK
<1>18. StoreStep
  BY <1>2, <1>17 DEF StoreStep
<1>19. QED
  BY <1>11, <1>12, <1>13, <1>14, <1>18

\* Any cancel request is such a step: it writes off a submission that was
\* never claimed, or queues one more attempt.
LEMMA CancelRequestStore ==
  ASSUME IInv, NEW o \in Orders, CancelRequest(o)
  PROVE  StoreStep /\ (~orders[o].started => SameExists)
<1>1. CASE orders[o].started
  BY <1>1, CancelQueuedStore
<1>2. CASE ~orders[o].started
  <2>1. /\ TypeOK /\ SentIsClaimed
        /\ o \in approved /\ ~CancelIgnored(orders[o]) /\ approved' = approved
        /\ Commit(o, OnCancelRequested(orders[o])) /\ sends' = sends
    BY DEF IInv, CancelRequest
  <2>2. Evolves(orders[o], OnCancelRequested(orders[o]), {0}, {})
    BY <2>1, <1>2, CancelUnstarted DEF TypeOK
  <2>3. <<o, 0>> \in Commands /\ 0 \in 0 .. MaxCancels
    BY GatewayAssumption DEF Commands
  <2>4. sends[<<o, 0>>] = 0
    BY <2>1, <2>3, <1>2 DEF SentIsClaimed, Claimed, TypeOK
  <2>5. {0} \in SUBSET (0 .. MaxCancels) /\ {} \in SUBSET (0 .. MaxCancels)
    BY <2>3
  <2>6. StoreStep /\ SameExists
    BY <2>1, <2>2, <2>4, <2>5, FactStore
  <2>7. QED
    BY <2>6
<1>3. QED
  BY <1>1, <1>2

\* A report.
LEMMA ReportStore ==
  ASSUME IInv, NEW o \in Orders, NEW status \in Lifecycle, Report(o, status)
  PROVE  StoreStep /\ SameExists
<1> DEFINE t == OnOrderReport(orders[o], Lots, status, IF status = "FILLED" THEN 1 ELSE 0, TRUE)
<1>1. TypeOK /\ o \in approved /\ Commit(o, t) /\ approved' = approved /\ sends' = sends
  BY DEF IInv, Report
<1>2. Evolves(orders[o], t, {}, {})
  BY <1>1, ReportEvolves DEF TypeOK, Lots
<1> HIDE DEF t
<1>3. {} \in SUBSET (0 .. MaxCancels)
  OBVIOUS
<1>4. QED
  BY <1>1, <1>2, <1>3, FactStore

\* Claiming a queued command: it leaves the queue and was not sent.
LEMMA GrantStore ==
  ASSUME IInv, NEW c \in Commands, Exists(c), Status(c) = "PENDING",
         Commit(c[1], OnDispatchStarted(orders[c[1]], c[2])),
         approved' = approved, sends' = sends
  PROVE  /\ StoreStep /\ SameExists
         /\ Claimed(c)' /\ sends[c] = 0
<1> DEFINE o == c[1]
           r == orders[o]
           t == OnDispatchStarted(r, c[2])
           p == Project(t, Lots, 0)
<1>1. /\ TypeOK /\ SentIsClaimed /\ o \in Orders /\ o \in approved /\ r \in OrderState
      /\ c[2] \in Cmds(r)
  BY CommandParts DEF IInv, TypeOK, Exists, Cmds
<1>2. CommandOf(r, c[2]) = "PENDING"
  BY DEF Status
<1>3. Evolves(r, t, {}, {}) /\ CommandOf(t, c[2]) = "UNKNOWN" /\ t.started
  BY <1>1, <1>2, DispatchStartedEvolves
<1>4. t \in OrderState
  BY <1>3 DEF Evolves
<1> HIDE DEF t
<1>5. Evolves(t, p, {}, {}) /\ p.can = t.can /\ p.sub = t.sub /\ p.started = t.started
  BY <1>4, ProjectEvolves DEF Lots
<1>6. orders' = [orders EXCEPT ![o] = p]
  BY DEF Commit, t
<1> HIDE DEF p
<1>7. StoreStep /\ SameExists
  <2>1. {} \in SUBSET (0 .. MaxCancels)
    OBVIOUS
  <2>2. Commit(o, t)
    BY DEF t
  <2>3. QED
    BY <1>1, <1>3, <2>1, <2>2, FactStore
<1>8. orders'[o] = p
  BY <1>1, <1>6 DEF TypeOK
<1>9. Claimed(c)'
  <2>1. Exists(c)'
    BY <1>7 DEF SameExists
  <2>2. CommandOf(p, c[2]) = CommandOf(t, c[2])
    BY <1>5 DEF CommandOf
  <2>3. Status(c)' = "UNKNOWN"
    BY <1>3, <1>8, <2>2 DEF Status
  <2>4. orders'[c[1]].started
    BY <1>3, <1>5, <1>8
  <2>5. QED
    BY <2>1, <2>3, <2>4 DEF Claimed
<1>10. sends[c] = 0
  BY <1>1 DEF SentIsClaimed, Claimed, TypeOK
<1>11. QED
  BY <1>7, <1>9, <1>10

\* Writing off a command that was not sent.
LEMMA AbortStore ==
  ASSUME IInv, NEW c \in Commands, NEW reason \in AbortReason, Exists(c), sends[c] = 0,
         Commit(c[1], OnUnsentAborted(orders[c[1]], c[2], reason)),
         approved' = approved, sends' = sends
  PROVE  StoreStep /\ SameExists
<1> DEFINE t == OnUnsentAborted(orders[c[1]], c[2], reason)
<1>1. /\ c[1] \in Orders /\ c[1] \in approved /\ orders[c[1]] \in OrderState
      /\ c[2] \in Cmds(orders[c[1]]) /\ c[2] \in 0 .. MaxCancels
      /\ c = <<c[1], c[2]>>
  BY CommandParts DEF IInv, TypeOK, Exists, Cmds
<1>2. Evolves(orders[c[1]], t, {c[2]}, {})
  BY <1>1, UnsentAbortedEvolves
<1> HIDE DEF t
<1>3. {c[2]} \in SUBSET (0 .. MaxCancels) /\ {} \in SUBSET (0 .. MaxCancels)
  BY <1>1
<1>4. \A k \in {c[2]} : sends[<<c[1], k>>] = 0
  BY <1>1
<1>5. Commit(c[1], t)
  BY DEF t
<1>6. QED
  BY <1>1, <1>2, <1>3, <1>4, <1>5, FactStore

\* Booking the answer to a command that was sent.
LEMMA ObserveStore ==
  ASSUME IInv, NEW c \in Commands, NEW result \in TransportResult, Exists(c), sends[c] = 1,
         Commit(c[1], IF c[2] = 0 THEN OnSubmitResult(orders[c[1]], result)
                                  ELSE OnCancelResult(orders[c[1]], c[2], result)),
         approved' = approved, sends' = sends
  PROVE  StoreStep /\ SameExists
<1> DEFINE o == c[1]
           r == orders[o]
           t == IF c[2] = 0 THEN OnSubmitResult(r, result) ELSE OnCancelResult(r, c[2], result)
<1>1. /\ o \in Orders /\ o \in approved /\ r \in OrderState /\ LastOpen(r)
      /\ c[2] \in 0 .. MaxCancels /\ c = <<o, c[2]>>
      /\ c[2] # 0 => c[2] \in DOMAIN r.can
  BY CommandParts DEF IInv, TypeOK, OrdersOrderly, Exists
<1>2. Commit(o, t)
  OBVIOUS
<1>3. PICK again \in SUBSET {c[2]} : Evolves(r, t, {}, again)
  <2>1. CASE c[2] = 0
    BY <2>1, <1>1, SubmitResultEvolves
  <2>2. CASE c[2] # 0
    <3> DEFINE open == r.pend = "CANCEL" /\ r.can[c[2]] \in Unresolved \cup {"CANCELED"}
    <3>1. Evolves(r, t, {}, IF open THEN {Len(r.can)} ELSE {})
      BY <2>2, <1>1, CancelResultEvolves
    <3>2. open => c[2] = Len(r.can)
      BY <2>2, <1>1 DEF LastOpen
    <3>3. QED
      BY <3>1, <3>2
  <2>3. QED
    BY <2>1, <2>2
<1> HIDE DEF t
<1>4. again \in SUBSET (0 .. MaxCancels) /\ {} \in SUBSET (0 .. MaxCancels)
  BY <1>1
<1>5. \A k \in again : sends[<<o, k>>] = 1
  BY <1>1
<1>6. QED
  BY <1>1, <1>2, <1>3, <1>4, <1>5, FactStore

-----------------------------------------------------------------------------
(* The session part.                                                       *)

\* No session gains a row, a permit or a response to wait for.
Quiet ==
  \A s \in Sessions :
    /\ session'[s].rows \subseteq session[s].rows
    /\ session'[s].pc = "prepare" => session[s].pc = "prepare" /\ session'[s].row = session[s].row
    /\ session'[s].pc = "await" => session[s].pc = "await" /\ session'[s].row = session[s].row

\* What every store step preserves.
LEMMA StoreInv ==
  ASSUME IInv, StoreStep, TypeOK'
  PROVE  /\ SentIsClaimed' /\ OrdersOrderly'
         /\ \A c \in Commands : Exists(c) => Exists(c)'
         /\ \A c \in Commands : Claimed(c) => Claimed(c)'
<1>1. PICK off, again \in SUBSET Commands :
        /\ Advance(off, again)
        /\ \A c \in off : sends[c] = 0
        /\ \A c \in again : sends[c] = 1
  BY DEF StoreStep
<1>2. /\ OrdersOrderly'
      /\ \A c \in Commands : Exists(c) => Exists(c)'
      /\ \A c \in Commands : Claimed(c) => Claimed(c)'
      /\ \A c \in Commands :
           Exists(c) /\ Status(c)' \in WrittenOff => Status(c) \in WrittenOff \/ c \in off
  BY <1>1 DEF Advance
<1>3. sends' = sends
  BY DEF StoreStep
<1>4. SentIsClaimed'
  <2> SUFFICES ASSUME NEW c \in Commands, sends[c] > 0
               PROVE  sends[c] = 1 /\ Claimed(c)' /\ Status(c)' \notin WrittenOff
    BY <1>3 DEF SentIsClaimed
  <2>1. sends[c] = 1 /\ Claimed(c) /\ Status(c) \notin WrittenOff
    BY DEF IInv, SentIsClaimed
  <2>2. c \notin off
    BY <2>1, <1>1
  <2>3. QED
    BY <2>1, <2>2, <1>2 DEF Claimed
<1>5. QED
  BY <1>2, <1>4

\* A store step under quiet sessions.
LEMMA QuietInv ==
  ASSUME IInv, StoreStep, Quiet, TypeOK'
  PROVE  IInv'
<1>1. /\ SentIsClaimed' /\ OrdersOrderly' /\ sends' = sends
      /\ \A c \in Commands : Exists(c) => Exists(c)'
      /\ \A c \in Commands : Claimed(c) => Claimed(c)'
  BY StoreInv DEF StoreStep
<1>2. /\ \A s \in Sessions : session[s].rows \subseteq Commands /\ session[s].row \in Commands
      /\ RowsExist /\ PermitUnsent /\ OnePermit /\ AwaitsSent
  BY DEF IInv, TypeOK, SessionState
<1>3. RowsExist'
  <2> SUFFICES ASSUME NEW s \in Sessions, NEW c \in session'[s].rows
               PROVE  Exists(c)'
    BY DEF RowsExist
  <2>1. c \in session[s].rows
    BY DEF Quiet
  <2>2. c \in Commands /\ Exists(c)
    BY <2>1, <1>2 DEF RowsExist
  <2>3. QED
    BY <2>2, <1>1
<1>4. PermitUnsent'
  <2> SUFFICES ASSUME NEW s \in Sessions, session'[s].pc = "prepare", NEW c, c = session'[s].row
               PROVE  Claimed(c)' /\ sends'[c] = 0
    BY DEF PermitUnsent
  <2>1. session[s].pc = "prepare" /\ c = session[s].row
    BY DEF Quiet
  <2>2. c \in Commands /\ Claimed(c) /\ sends[c] = 0
    BY <2>1, <1>2 DEF PermitUnsent
  <2>3. QED
    BY <2>2, <1>1
<1>5. OnePermit'
  BY <1>2 DEF OnePermit, Quiet
<1>6. AwaitsSent'
  <2> SUFFICES ASSUME NEW s \in Sessions, session'[s].pc = "await", NEW c, c = session'[s].row
               PROVE  Exists(c)' /\ sends'[c] = 1
    BY DEF AwaitsSent
  <2>1. session[s].pc = "await" /\ c = session[s].row
    BY DEF Quiet
  <2>2. c \in Commands /\ Exists(c) /\ sends[c] = 1
    BY <2>1, <1>2 DEF AwaitsSent
  <2>3. QED
    BY <2>2, <1>1
<1>7. QED
  BY <1>1, <1>3, <1>4, <1>5, <1>6 DEF IInv

\* A store step keeps the type of the store.
LEMMA StoreType ==
  ASSUME StoreStep
  PROVE  approved' \in SUBSET Orders /\ orders' \in [Orders -> OrderState]
  BY DEF StoreStep, Advance

\* A session that is down.
LEMMA DownType == Down \in SessionState /\ Down.pc = "down" /\ Down.rows = {}
<1>1. PICK o \in Orders : TRUE
  BY GatewayAssumption
<1>2. <<o, 0>> \in Commands
  BY GatewayAssumption DEF Commands
<1>3. (CHOOSE c \in Commands : TRUE) \in Commands
  BY <1>2
<1>4. QED
  BY <1>3 DEF Down, SessionState

\* The initial states satisfy the invariant.
LEMMA InitInv == Init => IInv
<1> SUFFICES ASSUME Init PROVE IInv
  OBVIOUS
<1>1. NewOrder \in OrderState /\ NewOrder.can = <<>> /\ DOMAIN NewOrder.can = {}
  <2>1. <<>> \in Seq(CommandStatus)
    OBVIOUS
  <2>2. QED
    BY <2>1 DEF NewOrder, OrderState, Lifecycle, PendingAction, Knowledge, CommandStatus
<1>2. Down \in SessionState
  BY DownType
<1>3. TypeOK
  BY <1>1, <1>2 DEF Init, TypeOK, Stamp
<1>4. RowsExist /\ PermitUnsent /\ OnePermit /\ AwaitsSent
  BY DEF Init, Down, RowsExist, PermitUnsent, OnePermit, AwaitsSent
<1>5. SentIsClaimed
  BY DEF Init, SentIsClaimed
<1>6. OrdersOrderly
  BY <1>1 DEF Init, OrdersOrderly, LastOpen, CancelShown, HasCancel
<1>7. QED
  BY <1>3, <1>4, <1>5, <1>6 DEF IInv

\* Approving an order (OMS.approve) keeps the invariant.
LEMMA ApproveInv == ASSUME IInv, NEW o \in Orders, Approve(o) PROVE IInv'
<1>1. StoreStep
  BY ApproveStore
<1>2. Quiet
  BY DEF Approve, Quiet
<1>3. TypeOK'
  BY <1>1, StoreType DEF IInv, TypeOK, Approve, Stamp
<1>4. QED
  BY <1>1, <1>2, <1>3, QuietInv

\* A cancel request, booked or queued, keeps the invariant.
LEMMA CancelRequestInv == ASSUME IInv, NEW o \in Orders, CancelRequest(o) PROVE IInv'
<1>1. StoreStep
  BY CancelRequestStore
<1>2. Quiet
  BY DEF CancelRequest, Quiet
<1>3. TypeOK'
  <2>1. /\ epoch' = epoch /\ latched' = latched
        /\ UNCHANGED <<session, policy, expired, sends>>
    BY DEF CancelRequest, Commit
  <2>2. stamp' \in [Commands -> Stamp]
    BY DEF IInv, TypeOK, CancelRequest, Stamp
  <2>3. QED
    BY <2>1, <2>2, <1>1, StoreType DEF IInv, TypeOK
<1>4. QED
  BY <1>1, <1>2, <1>3, QuietInv

\* An order report keeps the invariant and creates no command.
LEMMA ReportInv ==
  ASSUME IInv, NEW o \in Orders, NEW status \in {"OPEN", "FILLED", "CANCELED"}, Report(o, status)
  PROVE  IInv' /\ StoreStep /\ SameExists
<1>1. StoreStep /\ SameExists
  BY ReportStore DEF Lifecycle
<1>2. Quiet
  BY DEF Report, Quiet
<1>3. TypeOK'
  <2>1. epoch' = epoch /\ latched' = latched /\ UNCHANGED <<stamp, session, policy, expired, sends>>
    BY DEF Report, Commit
  <2>2. QED
    BY <2>1, <1>1, StoreType DEF IInv, TypeOK
<1>4. QED
  BY <1>1, <1>2, <1>3, QuietInv
-----------------------------------------------------------------------------
(* Steps that leave the store alone.                                       *)

\* Starting and closing a session, its heartbeat and the end of a loop keep the
\* invariant.
LEMMA OwnershipInv ==
  ASSUME IInv, NEW s \in Sessions, Start(s) \/ Close(s) \/ Heartbeat(s) \/ Done(s)
  PROVE  IInv' /\ StoreStep /\ SameExists
<1>1. UNCHANGED <<approved, orders, sends>>
  BY DEF Start, Close, Heartbeat, Done, store
<1>2. StoreStep /\ SameExists
  BY <1>1, IdleStore
<1>3. TypeOK /\ Down \in SessionState
  BY DownType DEF IInv
<1>4. Quiet /\ session' \in [Sessions -> SessionState]
  <2>1. \A t \in Sessions \ {s} : session'[t] = session[t]
    BY <1>3 DEF Start, Close, Heartbeat, Done, Goto, TypeOK
  <2>2. session \in [Sessions -> SessionState] /\ session[s] \in SessionState
    BY <1>3 DEF TypeOK
  <2>3. CASE Start(s)
    <3> DEFINE new == [Down EXCEPT !.pc = "idle", !.epoch = epoch + 1,
                                   !.active = TRUE, !.fresh = TRUE]
    <3>1. new \in SessionState /\ new.pc = "idle" /\ new.rows = {}
      <4>1. epoch + 1 \in Nat
        BY <1>3 DEF TypeOK
      <4>2. QED
        BY <4>1, DownType DEF SessionState
    <3>2. session' = [session EXCEPT ![s] = new]
      BY <2>3 DEF Start
    <3> HIDE DEF new
    <3>3. QED
      BY <3>1, <3>2, <2>2 DEF Quiet
  <2>4. CASE Close(s)
    BY <2>2, <2>4 DEF Close, Quiet, SessionState
  <2>5. CASE Heartbeat(s)
    BY <2>2, <2>5 DEF Heartbeat, Quiet, SessionState
  <2>6. CASE Done(s)
    BY <2>2, <2>6 DEF Done, Goto, Quiet, SessionState
  <2>7. QED
    BY <2>3, <2>4, <2>5, <2>6
<1>5. TypeOK'
  BY <1>3, <1>4 DEF TypeOK, Start, Close, Heartbeat, Done, store
<1>6. QED
  BY <1>2, <1>4, <1>5, QuietInv

\* A crash, a change of policy and the passing of an expiry keep the invariant.
LEMMA EnvironmentInv ==
  ASSUME IInv, Crash \/ PolicyChange \/ \E c \in Commands : Expire(c)
  PROVE  IInv' /\ StoreStep /\ SameExists
<1>1. UNCHANGED <<approved, orders, sends>>
  BY DEF Crash, PolicyChange, Expire, store
<1>2. StoreStep /\ SameExists
  BY <1>1, IdleStore
<1>3. TypeOK /\ Down \in SessionState
  BY DownType DEF IInv
<1>4. Quiet
  BY DEF Crash, PolicyChange, Expire, Quiet, Down
<1>5. TypeOK'
  <2>1. CASE Crash
    BY <2>1, <1>3 DEF TypeOK, Crash, store
  <2>2. CASE PolicyChange
    <3>1. policy' \in [risk : Nat, latch : Nat, admits : SUBSET Orders]
      <4>1. policy \in [risk : Nat, latch : Nat, admits : SUBSET Orders]
        BY <1>3 DEF TypeOK
      <4>2. PICK admits \in {{}, Orders \ Entries, Orders} :
              \/ policy' = [policy EXCEPT !.latch = @ + 1, !.admits = admits]
              \/ policy' = [policy EXCEPT !.risk = @ + 1, !.admits = admits]
        BY <2>2 DEF PolicyChange
      <4>3. admits \in SUBSET Orders /\ policy.risk + 1 \in Nat /\ policy.latch + 1 \in Nat
        BY <4>1, GatewayAssumption
      <4>4. QED
        BY <4>1, <4>2, <4>3
    <3>2. QED
      BY <2>2, <3>1, <1>3 DEF TypeOK, PolicyChange, store
  <2>3. CASE \E c \in Commands : Expire(c)
    BY <2>3, <1>3 DEF TypeOK, Expire, store
  <2>4. QED
    BY <2>1, <2>2, <2>3
<1>6. QED
  BY <1>2, <1>4, <1>5, QuietInv

-----------------------------------------------------------------------------
(* The steps of the dispatch loop.                                         *)

\* A loop step that changes only the session, to one that is quiet.
LEMMA GotoQuiet ==
  ASSUME IInv, NEW s \in Sessions, NEW new \in SessionState,
         session' = [session EXCEPT ![s] = new],
         new.rows \subseteq session[s].rows, new.pc \in {"idle", "next"}
  PROVE  Quiet /\ session' \in [Sessions -> SessionState]
  BY DEF IInv, TypeOK, Quiet

\* Begin takes the queued commands as its rows.
LEMMA BeginInv ==
  ASSUME IInv, NEW s \in Sessions, Begin(s)
  PROVE  IInv' /\ StoreStep /\ SameExists
<1> DEFINE queued == {c \in Commands : Queued(c)}
           new == [session[s] EXCEPT !.pc = "next", !.rows = queued]
<1>1. UNCHANGED <<approved, orders, sends>> /\ TypeOK /\ RowsExist
  BY DEF Begin, store, IInv
<1>2. StoreStep /\ SameExists
  BY <1>1, IdleStore
<1>3. queued \in SUBSET Commands /\ \A c \in queued : c \in Commands /\ Exists(c)
  BY DEF Queued
<1>4. session' = [session EXCEPT ![s] = new]
  BY DEF Begin
<1>5. session[s] \in SessionState /\ session \in [Sessions -> SessionState]
  BY <1>1 DEF TypeOK
<1> HIDE DEF queued
<1>6. new \in SessionState /\ new.pc = "next" /\ new.rows = queued
  BY <1>3, <1>5 DEF SessionState
<1> HIDE DEF new
<1>7. TypeOK'
  BY <1>1, <1>4, <1>5, <1>6 DEF TypeOK, Begin, store
<1>8. /\ session'[s] = new
      /\ \A t \in Sessions \ {s} : session'[t] = session[t]
  BY <1>4, <1>5
<1>9. /\ SentIsClaimed' /\ OrdersOrderly'
      /\ \A c \in Commands : Exists(c) => Exists(c)'
      /\ \A c \in Commands : Claimed(c) => Claimed(c)'
  BY <1>2, <1>7, StoreInv
<1>10. RowsExist'
  <2> SUFFICES ASSUME NEW t \in Sessions, NEW c \in session'[t].rows
               PROVE  Exists(c)'
    BY DEF RowsExist
  <2>1. c \in Commands /\ Exists(c)
    BY <1>1, <1>3, <1>6, <1>8 DEF RowsExist, TypeOK, SessionState
  <2>2. QED
    BY <2>1, <1>9
<1>11. PermitUnsent' /\ OnePermit' /\ AwaitsSent'
  <2>1. \A t \in Sessions : session'[t].pc \in {"prepare", "await"} =>
          t # s /\ session'[t] = session[t]
    BY <1>6, <1>8
  <2>2. \A c : (Exists(c)' <=> Exists(c)) /\ (Claimed(c)' <=> Claimed(c))
    BY <1>1 DEF Exists, Claimed, Status
  <2>3. PermitUnsent /\ OnePermit /\ AwaitsSent
    BY DEF IInv
  <2>4. OnePermit'
    BY <2>1, <2>3 DEF OnePermit
  <2>5. PermitUnsent'
    <3> SUFFICES ASSUME NEW t \in Sessions, session'[t].pc = "prepare", NEW c, c = session'[t].row
                 PROVE  Claimed(c)' /\ sends'[c] = 0
      BY DEF PermitUnsent
    <3>1. QED
      BY <1>1, <2>1, <2>2, <2>3 DEF PermitUnsent
  <2>6. AwaitsSent'
    <3> SUFFICES ASSUME NEW t \in Sessions, session'[t].pc = "await", NEW c, c = session'[t].row
                 PROVE  Exists(c)' /\ sends'[c] = 1
      BY DEF AwaitsSent
    <3>1. QED
      BY <1>1, <2>1, <2>2, <2>3 DEF AwaitsSent
  <2>7. QED
    BY <2>4, <2>5, <2>6
<1>12. QED
  BY <1>2, <1>7, <1>9, <1>10, <1>11 DEF IInv

\* The row a working session looks at is a command that exists.
LEMMA WorkingRow ==
  ASSUME IInv, NEW s \in Sessions, NEW c \in Commands, Working(s, c)
  PROVE  Exists(c) /\ TypeOK /\ session[s] \in SessionState
  BY DEF IInv, RowsExist, Working, TypeOK

\* Leaving a refused row for a later call keeps the invariant.
LEMMA SkipRowInv ==
  ASSUME IInv, NEW s \in Sessions, NEW c \in Commands, SkipRow(s, c)
  PROVE  IInv' /\ StoreStep /\ SameExists
<1> DEFINE new == [session[s] EXCEPT !.rows = @ \ {c}]
<1>1. UNCHANGED <<approved, orders, sends>> /\ TypeOK /\ session[s] \in SessionState
  BY WorkingRow DEF SkipRow, store
<1>2. StoreStep /\ SameExists
  BY <1>1, IdleStore
<1>3. session' = [session EXCEPT ![s] = new] /\ session[s].pc = "next"
  BY DEF SkipRow, Drop, Working
<1>4. new \in SessionState /\ new.pc = "next" /\ new.rows \subseteq session[s].rows
  BY <1>1, <1>3 DEF SessionState
<1> HIDE DEF new
<1>5. Quiet /\ session' \in [Sessions -> SessionState]
  BY <1>3, <1>4, GotoQuiet
<1>6. TypeOK'
  BY <1>1, <1>5 DEF TypeOK, SkipRow, store
<1>7. QED
  BY <1>2, <1>5, <1>6, QuietInv

\* A commit that fails latches the engine and ends the loop.
LEMMA FailedCommitInv ==
  ASSUME IInv, NEW s \in Sessions, CommitFails, Goto(s, "idle"),
         UNCHANGED <<policy, expired, sends>>
  PROVE  IInv' /\ StoreStep /\ SameExists
<1> DEFINE new == [session[s] EXCEPT !.pc = "idle"]
<1>1. /\ UNCHANGED <<approved, orders, stamp, epoch>> /\ latched' = TRUE /\ TypeOK
      /\ session[s] \in SessionState
  BY DEF CommitFails, store, IInv, TypeOK
<1>2. StoreStep /\ SameExists
  BY <1>1, IdleStore
<1>3. session' = [session EXCEPT ![s] = new]
  BY DEF Goto
<1>4. new \in SessionState /\ new.pc = "idle" /\ new.rows \subseteq session[s].rows
  BY <1>1 DEF SessionState
<1> HIDE DEF new
<1>5. Quiet /\ session' \in [Sessions -> SessionState]
  BY <1>3, <1>4, GotoQuiet
<1>6. TypeOK'
  BY <1>1, <1>5 DEF TypeOK
<1>7. QED
  BY <1>2, <1>5, <1>6, QuietInv

\* Aborting an expired row keeps the invariant: the row was PENDING, so unsent.
LEMMA ExpireRowInv ==
  ASSUME IInv, NEW s \in Sessions, NEW c \in Commands, ExpireRow(s, c)
  PROVE  IInv' /\ StoreStep /\ SameExists
<1>1. /\ Exists(c) /\ TypeOK /\ session[s] \in SessionState /\ Status(c) = "PENDING"
      /\ sends' = sends /\ policy' = policy /\ expired' = expired
      /\ session[s].pc = "next"
  BY WorkingRow DEF ExpireRow, Working
<1>2. sends[c] = 0
  BY <1>1 DEF IInv, SentIsClaimed, Claimed, TypeOK
<1>3. CASE /\ Commit(c[1], OnUnsentAborted(orders[c[1]], c[2], "EXPIRED"))
           /\ Drop(s, c) /\ UNCHANGED <<approved, stamp>>
  <2> DEFINE new == [session[s] EXCEPT !.rows = @ \ {c}]
  <2>1. StoreStep /\ SameExists
    BY <1>1, <1>2, <1>3, AbortStore DEF AbortReason
  <2>2. session' = [session EXCEPT ![s] = new]
    BY <1>3 DEF Drop
  <2>3. new \in SessionState /\ new.pc = "next" /\ new.rows \subseteq session[s].rows
    BY <1>1 DEF SessionState
  <2> HIDE DEF new
  <2>4. Quiet /\ session' \in [Sessions -> SessionState]
    BY <2>2, <2>3, GotoQuiet
  <2>5. epoch' = epoch /\ latched' = latched /\ stamp' = stamp
    BY <1>3 DEF Commit
  <2>6. TypeOK'
    BY <1>1, <2>1, <2>4, <2>5, StoreType DEF TypeOK
  <2>7. QED
    BY <2>1, <2>4, <2>6, QuietInv
<1>4. CASE CommitFails /\ Goto(s, "idle")
  BY <1>1, <1>4, FailedCommitInv
<1>5. QED
  BY <1>3, <1>4 DEF ExpireRow


\* A committed fact after which the session goes on at pc.
LEMMA FactInv ==
  ASSUME IInv, NEW s \in Sessions, NEW pc \in {"idle", "next"}, StoreStep, SameExists,
         Goto(s, pc), UNCHANGED <<stamp, epoch, latched, policy, expired, sends>>
  PROVE  IInv' /\ StoreStep /\ SameExists
<1> DEFINE new == [session[s] EXCEPT !.pc = pc]
<1>1. TypeOK /\ session[s] \in SessionState
  BY DEF IInv, TypeOK
<1>2. session' = [session EXCEPT ![s] = new]
  BY DEF Goto
<1>3. new \in SessionState /\ new.pc = pc /\ new.rows \subseteq session[s].rows
  BY <1>1 DEF SessionState
<1> HIDE DEF new
<1>4. Quiet /\ session' \in [Sessions -> SessionState]
  BY <1>2, <1>3, GotoQuiet
<1>5. TypeOK'
  BY <1>1, <1>4, StoreType DEF TypeOK
<1>6. QED
  BY <1>4, <1>5, QuietInv

\* The row of a session that holds a permit or awaits a response.
LEMMA HeldRow ==
  ASSUME IInv, NEW s \in Sessions, session[s].pc \in {"prepare", "await"}
  PROVE  LET c == session[s].row IN
         /\ c \in Commands /\ Exists(c)
         /\ session[s].pc = "prepare" => sends[c] = 0
         /\ session[s].pc = "await" => sends[c] = 1
  BY DEF IInv, TypeOK, SessionState, PermitUnsent, AwaitsSent, Claimed

\* Giving a permit back keeps the invariant: its command was not handed off.
LEMMA AbortUnsentInv ==
  ASSUME IInv, NEW s \in Sessions, NEW reason \in AbortReason, AbortUnsent(s, reason)
  PROVE  IInv' /\ StoreStep /\ SameExists
<1> DEFINE c == session[s].row
<1>1. session[s].pc = "prepare" /\ UNCHANGED <<policy, expired, sends>>
  BY DEF AbortUnsent
<1>2. c \in Commands /\ Exists(c) /\ sends[c] = 0
  BY <1>1, HeldRow
<1>3. CASE CommitFails /\ Goto(s, "idle")
  BY <1>1, <1>3, FailedCommitInv
<1>4. ASSUME NEW pc \in {"idle", "next"}, Goto(s, pc), Status(c) = "UNKNOWN",
             Commit(c[1], OnUnsentAborted(orders[c[1]], c[2], reason)),
             UNCHANGED <<approved, stamp>>
      PROVE  IInv' /\ StoreStep /\ SameExists
  <2>1. StoreStep /\ SameExists
    BY <1>1, <1>2, <1>4, AbortStore
  <2>2. epoch' = epoch /\ latched' = latched
    BY <1>4 DEF Commit
  <2>3. QED
    BY <1>1, <1>4, <2>1, <2>2, FactInv
<1>5. ASSUME NEW pc \in {"idle", "next"}, Goto(s, pc), UNCHANGED <<store, latched>>
      PROVE  IInv' /\ StoreStep /\ SameExists
  <2>1. UNCHANGED <<approved, orders, stamp, epoch, latched>>
    BY <1>5 DEF store
  <2>2. StoreStep /\ SameExists
    BY <1>1, <2>1, IdleStore
  <2>3. QED
    BY <1>1, <1>5, <2>1, <2>2, FactInv
<1>6. QED
  BY <1>3, <1>4, <1>5 DEF AbortUnsent

\* Booking an answer keeps the invariant: it reopens no command that was settled.
LEMMA ObserveInv ==
  ASSUME IInv, NEW s \in Sessions, NEW result \in TransportResult, Observe(s, result)
  PROVE  IInv' /\ StoreStep /\ SameExists
<1> DEFINE c == session[s].row
           t == IF c[2] = 0 THEN OnSubmitResult(orders[c[1]], result)
                            ELSE OnCancelResult(orders[c[1]], c[2], result)
<1>1. session[s].pc = "await" /\ UNCHANGED <<policy, expired, sends>>
  BY DEF Observe
<1>2. c \in Commands /\ Exists(c) /\ sends[c] = 1
  BY <1>1, HeldRow
<1>3. CASE CommitFails /\ Goto(s, "idle")
  BY <1>1, <1>3, FailedCommitInv
<1>4. CASE Commit(c[1], t) /\ Goto(s, "next") /\ UNCHANGED <<approved, stamp>>
  <2>1. StoreStep /\ SameExists
    BY <1>1, <1>2, <1>4, ObserveStore
  <2>2. epoch' = epoch /\ latched' = latched
    BY <1>4 DEF Commit
  <2>3. QED
    BY <1>1, <1>4, <2>1, <2>2, FactInv
<1>5. QED
  BY <1>3, <1>4 DEF Observe


\* A grant keeps the invariant: no other session has a permit for a PENDING row.
LEMMA GrantInv ==
  ASSUME IInv, NEW s \in Sessions, NEW c \in Commands, Grant(s, c)
  PROVE  IInv' /\ StoreStep /\ SameExists
<1>1. /\ Exists(c) /\ TypeOK /\ session[s] \in SessionState /\ Status(c) = "PENDING"
      /\ session \in [Sessions -> SessionState]
      /\ sends' = sends /\ policy' = policy /\ expired' = expired
  BY WorkingRow DEF Grant, TypeOK
<1>2. CASE CommitFails /\ Goto(s, "idle")
  BY <1>1, <1>2, FailedCommitInv
<1>3. CASE /\ Commit(c[1], OnDispatchStarted(orders[c[1]], c[2]))
           /\ session' = [session EXCEPT ![s].pc = "prepare", ![s].row = c,
                                         ![s].rows = @ \ {c}, ![s].latch = policy.latch]
           /\ UNCHANGED <<approved, stamp>>
  <2> DEFINE new == [session[s] EXCEPT !.pc = "prepare", !.row = c,
                                       !.rows = @ \ {c}, !.latch = policy.latch]
  <2>1. StoreStep /\ SameExists /\ Claimed(c)' /\ sends[c] = 0
    BY <1>1, <1>3, GrantStore
  <2>2. session' = [session EXCEPT ![s] = new]
    BY <1>3
  <2>3. /\ new \in SessionState /\ new.pc = "prepare" /\ new.row = c
        /\ new.rows \subseteq session[s].rows
    <3>1. policy.latch \in Nat
      BY <1>1 DEF TypeOK
    <3>2. QED
      BY <1>1, <3>1 DEF SessionState
  <2> HIDE DEF new
  <2>4. /\ session' \in [Sessions -> SessionState] /\ session'[s] = new
        /\ \A t \in Sessions \ {s} : session'[t] = session[t]
    BY <1>1, <2>2, <2>3
  <2>5. epoch' = epoch /\ latched' = latched /\ stamp' = stamp
    BY <1>3 DEF Commit
  <2>6. TypeOK'
    BY <1>1, <2>1, <2>4, <2>5, StoreType DEF TypeOK
  <2>7. /\ SentIsClaimed' /\ OrdersOrderly'
        /\ \A d \in Commands : Exists(d) => Exists(d)'
        /\ \A d \in Commands : Claimed(d) => Claimed(d)'
    BY <2>1, <2>6, StoreInv
  <2>8. RowsExist /\ PermitUnsent /\ OnePermit /\ AwaitsSent
    BY DEF IInv
  <2>9. \A t \in Sessions : session[t].rows \subseteq Commands /\ session[t].row \in Commands
    BY <1>1 DEF SessionState
  <2>10. RowsExist'
    <3> SUFFICES ASSUME NEW t \in Sessions, NEW d \in session'[t].rows
                 PROVE  Exists(d)'
      BY DEF RowsExist
    <3>1. d \in session[t].rows
      BY <2>3, <2>4
    <3>2. QED
      BY <3>1, <2>7, <2>8, <2>9 DEF RowsExist
  <2>11. PermitUnsent'
    <3> SUFFICES ASSUME NEW t \in Sessions, session'[t].pc = "prepare",
                        NEW d, d = session'[t].row
                 PROVE  Claimed(d)' /\ sends'[d] = 0
      BY DEF PermitUnsent
    <3>1. CASE t = s
      BY <3>1, <1>1, <2>1, <2>3, <2>4
    <3>2. CASE t # s
      BY <3>2, <1>1, <2>4, <2>7, <2>8, <2>9 DEF PermitUnsent
    <3>3. QED
      BY <3>1, <3>2
  <2>12. OnePermit'
    <3>1. \A t \in Sessions : session[t].pc = "prepare" => session[t].row # c
      BY <1>1, <2>8 DEF PermitUnsent, Claimed
    <3>2. QED
      BY <3>1, <2>3, <2>4, <2>8 DEF OnePermit
  <2>13. AwaitsSent'
    <3> SUFFICES ASSUME NEW t \in Sessions, session'[t].pc = "await",
                        NEW d, d = session'[t].row
                 PROVE  Exists(d)' /\ sends'[d] = 1
      BY DEF AwaitsSent
    <3>1. t # s
      BY <2>3, <2>4
    <3>2. QED
      BY <3>1, <1>1, <2>4, <2>7, <2>8, <2>9 DEF AwaitsSent
  <2>14. QED
    BY <2>1, <2>6, <2>7, <2>10, <2>11, <2>12, <2>13 DEF IInv
<1>4. QED
  BY <1>2, <1>3 DEF Grant

\* The handoff: the permit is consumed with the send.
LEMMA HandoffInv ==
  ASSUME IInv, NEW s \in Sessions, Handoff(s)
  PROVE  IInv'
<1> DEFINE c == session[s].row
<1>1. /\ session[s].pc = "prepare" /\ Status(c) = "UNKNOWN"
      /\ sends' = [sends EXCEPT ![c] = @ + 1]
      /\ UNCHANGED <<approved, orders, stamp, epoch, latched, policy, expired>>
  BY DEF Handoff, store
<1>2. PICK pc \in {"await", "idle"} : Goto(s, pc)
  BY DEF Handoff
<1>3. /\ TypeOK /\ RowsExist /\ SentIsClaimed /\ PermitUnsent /\ OnePermit
      /\ AwaitsSent /\ OrdersOrderly
      /\ session \in [Sessions -> SessionState] /\ sends \in [Commands -> Nat]
  BY DEF IInv, TypeOK
<1>4. c \in Commands /\ Claimed(c) /\ Exists(c) /\ sends[c] = 0
  BY <1>1, <1>3 DEF PermitUnsent, SessionState, Claimed
<1>5. /\ sends' \in [Commands -> Nat] /\ sends'[c] = 1
      /\ \A d \in Commands \ {c} : sends'[d] = sends[d]
  BY <1>1, <1>3, <1>4
<1> DEFINE new == [session[s] EXCEPT !.pc = pc]
<1>6. session' = [session EXCEPT ![s] = new]
  BY <1>2 DEF Goto
<1>7. new \in SessionState /\ new.pc = pc /\ new.rows = session[s].rows /\ new.row = c
  BY <1>3 DEF SessionState
<1> HIDE DEF new
<1>8. /\ session' \in [Sessions -> SessionState] /\ session'[s] = new
      /\ \A t \in Sessions \ {s} : session'[t] = session[t]
  BY <1>3, <1>6, <1>7
<1>9. TypeOK'
  BY <1>1, <1>3, <1>5, <1>8 DEF TypeOK
<1>10. \A d : (Exists(d)' <=> Exists(d)) /\ (Claimed(d)' <=> Claimed(d)) /\ Status(d)' = Status(d)
  BY <1>1 DEF Exists, Claimed, Status
<1>11. \A t \in Sessions : session[t].row \in Commands
  BY <1>3 DEF SessionState
<1>12. RowsExist'
  <2> SUFFICES ASSUME NEW t \in Sessions, NEW d \in session'[t].rows
               PROVE  Exists(d)'
    BY DEF RowsExist
  <2>1. d \in session[t].rows
    BY <1>7, <1>8
  <2>2. QED
    BY <2>1, <1>3, <1>10 DEF RowsExist
<1>13. SentIsClaimed'
  <2> SUFFICES ASSUME NEW d \in Commands, sends'[d] > 0
               PROVE  sends'[d] = 1 /\ Claimed(d)' /\ Status(d)' \notin WrittenOff
    BY DEF SentIsClaimed
  <2>1. CASE d = c
    BY <2>1, <1>1, <1>4, <1>5, <1>10 DEF WrittenOff
  <2>2. CASE d # c
    BY <2>2, <1>3, <1>5, <1>10 DEF SentIsClaimed
  <2>3. QED
    BY <2>1, <2>2
<1>14. PermitUnsent'
  <2> SUFFICES ASSUME NEW t \in Sessions, session'[t].pc = "prepare", NEW d, d = session'[t].row
               PROVE  Claimed(d)' /\ sends'[d] = 0
    BY DEF PermitUnsent
  <2>1. t # s /\ session'[t] = session[t]
    BY <1>7, <1>8
  <2>2. d # c
    BY <2>1, <1>1, <1>3 DEF OnePermit
  <2>3. QED
    BY <2>1, <2>2, <1>3, <1>5, <1>10, <1>11 DEF PermitUnsent
<1>15. OnePermit'
  BY <1>3, <1>7, <1>8 DEF OnePermit
<1>16. AwaitsSent'
  <2> SUFFICES ASSUME NEW t \in Sessions, session'[t].pc = "await", NEW d, d = session'[t].row
               PROVE  Exists(d)' /\ sends'[d] = 1
    BY DEF AwaitsSent
  <2>1. CASE t = s
    BY <2>1, <1>4, <1>5, <1>7, <1>8, <1>10
  <2>2. CASE t # s
    <3>1. d \in Commands /\ Exists(d) /\ sends[d] = 1
      BY <2>2, <1>3, <1>8, <1>11 DEF AwaitsSent
    <3>2. d # c
      BY <3>1, <1>4
    <3>3. QED
      BY <3>1, <3>2, <1>5, <1>10
  <2>3. QED
    BY <2>1, <2>2
<1>17. OrdersOrderly'
  BY <1>1, <1>3 DEF OrdersOrderly
<1>18. QED
  BY <1>9, <1>12, <1>13, <1>14, <1>15, <1>16, <1>17 DEF IInv

-----------------------------------------------------------------------------
(* The theorems.                                                           *)

\* Every step keeps the invariant, and is either a settling of the store, a
\* new command, or a handoff.
LEMMA StepInv ==
  ASSUME IInv, Next
  PROVE  /\ IInv'
         /\ \/ StoreStep /\ SameExists
            \/ \E o \in Orders : Approve(o)
            \/ \E o \in Orders : CancelRequest(o) /\ orders[o].started
            \/ \E s \in Sessions : Handoff(s)
<1>1. ASSUME NEW s \in Sessions, SessionStep(s)
      PROVE  IInv' /\ ((StoreStep /\ SameExists) \/ Handoff(s))
  <2>1. CASE Begin(s)
    BY <2>1, BeginInv
  <2>2. CASE Done(s)
    BY <2>2, OwnershipInv
  <2>3. CASE Handoff(s)
    BY <2>3, HandoffInv
  <2>4. ASSUME NEW c \in Commands, Grant(s, c) \/ ExpireRow(s, c) \/ SkipRow(s, c)
        PROVE  IInv' /\ StoreStep /\ SameExists
    BY <2>4, GrantInv, ExpireRowInv, SkipRowInv
  <2>5. ASSUME NEW reason \in AbortReason, AbortUnsent(s, reason)
        PROVE  IInv' /\ StoreStep /\ SameExists
    BY <2>5, AbortUnsentInv
  <2>6. ASSUME NEW result \in TransportResult, Observe(s, result)
        PROVE  IInv' /\ StoreStep /\ SameExists
    BY <2>6, ObserveInv
  <2>7. QED
    BY <1>1, <2>1, <2>2, <2>3, <2>4, <2>5, <2>6 DEF SessionStep
<1>2. ASSUME NEW s \in Sessions, Start(s) \/ Close(s) \/ Heartbeat(s)
      PROVE  IInv' /\ StoreStep /\ SameExists
  BY <1>2, OwnershipInv
<1>3. ASSUME NEW o \in Orders, Approve(o)
      PROVE  IInv'
  BY <1>3, ApproveInv
<1>4. ASSUME NEW o \in Orders, CancelRequest(o)
      PROVE  IInv' /\ ((StoreStep /\ SameExists) \/ orders[o].started)
  BY <1>4, CancelRequestInv, CancelRequestStore
<1>5. ASSUME NEW o \in Orders, NEW status \in {"OPEN", "FILLED", "CANCELED"}, Report(o, status)
      PROVE  IInv' /\ StoreStep /\ SameExists
  BY <1>5, ReportInv
<1>6. CASE Crash \/ PolicyChange \/ \E c \in Commands : Expire(c)
  BY <1>6, EnvironmentInv
<1>7. QED
  BY <1>1, <1>2, <1>3, <1>4, <1>5, <1>6 DEF Next, WriterStep

\* The conjunction of the parts above is an inductive invariant.
THEOREM Invariant == Spec => []IInv
<1>1. Init => IInv
  BY InitInv
<1>2. IInv /\ [Next]_vars => IInv'
  <2>1. IInv /\ Next => IInv'
    BY StepInv
  <2>2. IInv /\ UNCHANGED vars => IInv'
    BY DEF IInv, TypeOK, RowsExist, SentIsClaimed, PermitUnsent, OnePermit, AwaitsSent,
           OrdersOrderly, Claimed, Exists, Status, vars, store
  <2>3. QED
    BY <2>1, <2>2
<1>3. QED
  BY <1>1, <1>2, PTL DEF Spec

\* No command is handed to the transport twice, across sessions, crashes,
\* timeouts and failed commits, which is why dispatch_ready never retries; and
\* an order is released as never sent only if that is so, which is what
\* abort_unsent and the expiry and cancellation of queued commands rest on.
THEOREM HandoffsAlwaysCounted == Spec => []HandoffsCounted
<1>1. IInv => AtMostOneHandoff
  BY DEF IInv, TypeOK, SentIsClaimed, AtMostOneHandoff
<1>2. IInv => UnsentMeansUnsent
  BY DEF IInv, TypeOK, SentIsClaimed, UnsentMeansUnsent
<1>3. IInv => HandoffsCounted
  BY <1>1, <1>2 DEF IInv, HandoffsCounted
<1> QED
  BY <1>3, Invariant, PTL

-----------------------------------------------------------------------------
(* The gateway implements the delivery protocol.                           *)

\* The delivery state of a command under the invariant.
LEMMA DeliveryCases ==
  ASSUME IInv, NEW c \in Commands
  PROVE  /\ sends[c] \in {0, 1}
         /\ sends[c] = 1 => DeliveryOf(c) = "sent"
         /\ sends[c] = 0 /\ ~Exists(c) => DeliveryOf(c) = "none"
         /\ sends[c] = 0 /\ Exists(c) /\ Status(c) \in Open => DeliveryOf(c) = "queued"
         /\ sends[c] = 0 /\ Exists(c) /\ Status(c) \notin Open => DeliveryOf(c) = "withdrawn"
         /\ sends[c] = 1 => Exists(c)
  BY DEF IInv, TypeOK, SentIsClaimed, Claimed, DeliveryOf, Open

\* The same in the next state.
LEMMA DeliveryCasesNext ==
  ASSUME IInv', NEW c \in Commands
  PROVE  /\ sends'[c] \in {0, 1}
         /\ sends'[c] = 1 => DeliveryOf(c)' = "sent"
         /\ sends'[c] = 0 /\ ~Exists(c)' => DeliveryOf(c)' = "none"
         /\ sends'[c] = 0 /\ Exists(c)' /\ Status(c)' \in Open => DeliveryOf(c)' = "queued"
         /\ sends'[c] = 0 /\ Exists(c)' /\ Status(c)' \notin Open => DeliveryOf(c)' = "withdrawn"
  BY DEF IInv, TypeOK, SentIsClaimed, Claimed, DeliveryOf, Open

\* A step that settles commands withdraws some that were queued, at most.
LEMMA SettlingWithdraws ==
  ASSUME IInv, IInv', StoreStep, SameExists
  PROVE  D!DeliveryNext
<1> DEFINE gone == {c \in Commands : DeliveryOf(c) = "queued" /\ DeliveryOf(c)' = "withdrawn"}
<1>1. PICK off, again \in SUBSET Commands :
        /\ Advance(off, again)
        /\ \A c \in again : sends[c] = 1
  BY DEF StoreStep
<1>2. sends' = sends
  BY DEF StoreStep
<1>3. ASSUME NEW c \in Commands, c \notin gone
      PROVE  DeliveryOf(c)' = DeliveryOf(c)
  <2>1. CASE sends[c] = 1
    BY <2>1, <1>2, DeliveryCases, DeliveryCasesNext
  <2>2. CASE sends[c] = 0 /\ ~Exists(c)
    BY <2>2, <1>2, DeliveryCases, DeliveryCasesNext DEF SameExists
  <2>3. CASE sends[c] = 0 /\ Exists(c) /\ Status(c) \in Open
    <3>1. DeliveryOf(c) = "queued" /\ sends'[c] = 0 /\ Exists(c)'
      BY <2>3, <1>2, DeliveryCases DEF SameExists
    <3>2. DeliveryOf(c)' # "withdrawn"
      BY <3>1, <1>3
    <3>3. QED
      BY <3>1, <3>2, DeliveryCasesNext
  <2>4. CASE sends[c] = 0 /\ Exists(c) /\ Status(c) \notin Open
    <3>1. DeliveryOf(c) = "withdrawn" /\ sends'[c] = 0 /\ Exists(c)'
      BY <2>4, <1>2, DeliveryCases DEF SameExists
    <3>2. Status(c)' \notin Open
      BY <2>4, <1>1 DEF Advance
    <3>3. QED
      BY <3>1, <3>2, DeliveryCasesNext
  <2>5. QED
    BY <2>1, <2>2, <2>3, <2>4, DeliveryCases
<1>4. gone \in SUBSET Commands
  OBVIOUS
<1>5. D!Withdraw(gone)
  BY <1>3 DEF D!Withdraw
<1>6. QED
  BY <1>4, <1>5 DEF D!DeliveryNext

\* A step that adds one queued command and changes no other enqueues it.
LEMMA NewCommandEnqueues ==
  ASSUME NEW new \in Commands, DeliveryOf(new) = "none", DeliveryOf(new)' = "queued",
         \A c \in Commands : c # new => DeliveryOf(c)' = DeliveryOf(c)
  PROVE  D!DeliveryNext
  BY DEF D!DeliveryNext, D!Enqueue

\* Every step of the gateway is a step of the protocol, or changes nothing of
\* it.
LEMMA StepDelivers ==
  ASSUME IInv, IInv', Next
  PROVE  D!DeliveryNext
<1>1. CASE StoreStep /\ SameExists
  BY <1>1, SettlingWithdraws
<1>2. ASSUME NEW o \in Orders, Approve(o)
      PROVE  D!DeliveryNext
  <2> DEFINE new == <<o, 0>>
  <2>1. /\ o \notin approved /\ orders' = orders /\ sends' = sends
        /\ orders[o].sub = "PENDING"
    BY <1>2 DEF Approve, IInv, OrdersOrderly, NewOrder
  <2>2. new \in Commands /\ \A c \in Commands : Exists(c)' <=> Exists(c) \/ c = new
    BY <1>2, ApproveStore, GatewayAssumption DEF Commands
  <2>3. /\ \A c \in Commands : Status(c)' = Status(c)
        /\ ~Exists(new) /\ Exists(new)' /\ Status(new) = "PENDING"
    BY <2>1, <2>2 DEF Status, CommandOf, Exists
  <2> HIDE DEF new
  <2>4. sends[new] = 0
    BY <2>2, <2>3, DeliveryCases
  <2>5. DeliveryOf(new) = "none" /\ DeliveryOf(new)' = "queued"
    BY <2>1, <2>2, <2>3, <2>4, DeliveryCases, DeliveryCasesNext DEF Open
  <2>6. ASSUME NEW c \in Commands, c # new
        PROVE  DeliveryOf(c)' = DeliveryOf(c)
    BY <2>1, <2>2, <2>3, <2>6, DeliveryCases, DeliveryCasesNext
  <2>7. QED
    BY <2>2, <2>5, <2>6, NewCommandEnqueues
<1>3. ASSUME NEW o \in Orders, CancelRequest(o), orders[o].started
      PROVE  D!DeliveryNext
  <2>1. PICK new \in Commands :
          /\ ~Exists(new)
          /\ \A c \in Commands : Exists(c)' <=> Exists(c) \/ c = new
          /\ \A c \in Commands : Exists(c) => Status(c)' = Status(c)
          /\ Status(new)' = "PENDING"
    <3>1. PICK n : n = <<o, Len(orders[o].can) + 1>>
      OBVIOUS
    <3>2. QED
      BY <3>1, <1>3, CancelQueuedStore
  <2>2. sends' = sends
    BY <1>3 DEF CancelRequest
  <2>3. sends[new] = 0
    BY <2>1, DeliveryCases
  <2>4. DeliveryOf(new) = "none" /\ DeliveryOf(new)' = "queued"
    BY <2>1, <2>2, <2>3, DeliveryCases, DeliveryCasesNext DEF Open
  <2>5. ASSUME NEW c \in Commands, c # new
        PROVE  DeliveryOf(c)' = DeliveryOf(c)
    BY <2>1, <2>2, <2>5, DeliveryCases, DeliveryCasesNext
  <2>6. QED
    BY <2>1, <2>4, <2>5, NewCommandEnqueues
<1>4. ASSUME NEW s \in Sessions, Handoff(s)
      PROVE  D!DeliveryNext
  <2>1. PICK c \in Commands :
          /\ Exists(c) /\ Status(c) = "UNKNOWN" /\ sends[c] = 0
          /\ sends' = [sends EXCEPT ![c] = @ + 1]
    BY <1>4, HeldRow DEF Handoff
  <2>2. UNCHANGED <<approved, orders>>
    BY <1>4 DEF Handoff, store
  <2>3. \A d \in Commands : (Exists(d)' <=> Exists(d)) /\ Status(d)' = Status(d)
    BY <2>2 DEF Exists, Status
  <2>4. sends'[c] = 1 /\ \A d \in Commands \ {c} : sends'[d] = sends[d]
    BY <2>1 DEF IInv, TypeOK
  <2>5. DeliveryOf(c) = "queued" /\ DeliveryOf(c)' = "sent"
    BY <2>1, <2>4, DeliveryCases, DeliveryCasesNext DEF Open
  <2>6. ASSUME NEW d \in Commands, d # c
        PROVE  DeliveryOf(d)' = DeliveryOf(d)
    BY <2>3, <2>4, <2>6, DeliveryCases, DeliveryCasesNext
  <2>7. D!Send(c)
    BY <2>5, <2>6 DEF D!Send
  <2>8. QED
    BY <2>7 DEF D!DeliveryNext
<1>5. QED
  BY <1>1, <1>2, <1>3, <1>4, StepInv

\* Seen as the delivery states of its commands, the gateway is an at-most-once
\* delivery service with withdrawal (Delivery.tla): the detailed specification
\* of router.py implements the abstract one.
THEOREM DeliveryImplemented == Spec => ImplementsDelivery
<1>1. Init => D!DeliveryInit
  BY DEF Init, D!DeliveryInit, DeliveryOf, Exists
<1>2. IInv /\ IInv' /\ [Next]_vars =>
        [D!DeliveryNext]_([c \in Commands |-> DeliveryOf(c)])
  <2>1. IInv /\ IInv' /\ Next => D!DeliveryNext
    BY StepDelivers
  <2>2. UNCHANGED vars => UNCHANGED [c \in Commands |-> DeliveryOf(c)]
    BY DEF vars, store, DeliveryOf, Exists, Status
  <2>3. QED
    BY <2>1, <2>2
<1>3. QED
  BY <1>1, <1>2, Invariant, PTL DEF Spec, ImplementsDelivery, D!DeliverySpec

-----------------------------------------------------------------------------
(***************************************************************************)
(* What is handed off is authorized at that moment, for any number of      *)
(* orders, cancel attempts and sessions.                                   *)
(*                                                                         *)
(* The policy, the fence and the expiry are checked by consume in the same *)
(* step.  That no cancel was requested is not: the check reads the pending *)
(* action of the order, and another session could have written the cancel  *)
(* off.  It can not, since a session that holds the account is alone in    *)
(* reading the outbox.                                                     *)
(***************************************************************************)

\* The file lock: one session owns the account.
OneActive ==
  \A s, t \in Sessions : session[s].active /\ session[t].active => s = t

\* A submission nobody claimed has no transport and no cancel attempt.
Bare(r) == r.sub = "PENDING" => ~r.started /\ r.can = <<>>

SubmissionsBare == \A o \in Orders : Bare(orders[o])

\* Every cancel attempt is still queued, and shows as the pending action.
CancelsQueued(r) ==
  /\ \A k \in DOMAIN r.can : r.can[k] = "PENDING"
  /\ r.can # <<>> => r.pend = "CANCEL"

\* What the loop of a session may still act on.
InHand(s) ==
  session[s].rows \cup (IF session[s].pc \in {"prepare", "await"} THEN {session[s].row} ELSE {})

NoCancelInHand(o) == \A t \in Sessions : \A c \in InHand(t) : c[1] = o => c[2] = 0

\* While the owner prepares a submission, cancels of its order only queue up.
PermitUncontested ==
  \A s \in Sessions : \A o \in Orders :
    session[s].active /\ session[s].pc = "prepare" /\ session[s].row = <<o, 0>> =>
      CancelsQueued(orders[o]) /\ NoCancelInHand(o)

AInv == OneActive /\ SubmissionsBare /\ PermitUncontested
-----------------------------------------------------------------------------
(* Unclaimed submissions.                                                  *)

\* A fact committed to an order leaves every unclaimed submission bare, if it
\* leaves that one so.
LEMMA CommitBare ==
  ASSUME TypeOK, SubmissionsBare, NEW o \in Orders, NEW t \in OrderState, Bare(t), Commit(o, t)
  PROVE  SubmissionsBare' /\ \A u \in Orders \ {o} : orders'[u] = orders[u]
<1> DEFINE p == Project(t, Lots, 0)
<1>1. p.can = t.can /\ p.sub = t.sub /\ p.started = t.started
  BY ProjectEvolves DEF Lots
<1>2. orders' = [orders EXCEPT ![o] = p]
  BY DEF Commit
<1> HIDE DEF p
<1>3. Bare(p)
  BY <1>1 DEF Bare
<1>4. QED
  BY <1>2, <1>3 DEF SubmissionsBare, TypeOK

\* Every fact leaves an order bare that it finds so.
LEMMA FactBare ==
  ASSUME NEW r \in OrderState, Bare(r)
  PROVE  /\ \A status \in Lifecycle, lots \in Nat :
              Bare(OnOrderReport(r, Lots, status, lots, TRUE))
         /\ \A result \in TransportResult : Bare(OnSubmitResult(r, result))
         /\ \A result \in TransportResult, k \in DOMAIN r.can : Bare(OnCancelResult(r, k, result))
         /\ \A k \in Cmds(r) : Bare(OnDispatchStarted(r, k))
         /\ \A k \in Cmds(r), reason \in AbortReason : Bare(OnUnsentAborted(r, k, reason))
<1>1. \A k \in DOMAIN r.can : r.can # <<>>
  BY OrderParts
<1>2. ASSUME NEW status \in Lifecycle, NEW lots \in Nat
      PROVE  Bare(OnOrderReport(r, Lots, status, lots, TRUE))
  <2>1. OnOrderReport(r, Lots, status, lots, TRUE).sub # "PENDING"
    <3>1. Settle(r.sub) # "PENDING"
      BY DEF Settle, Unresolved
    <3>2. QED
      BY <3>1 DEF OnOrderReport, ResolveCommands, ResolveSubmit, OrderState
  <2>2. QED
    BY <2>1 DEF Bare
<1>3. ASSUME NEW result \in TransportResult
      PROVE  Bare(OnSubmitResult(r, result))
  <2>1. StatusOf(result) # "PENDING"
    BY DEF StatusOf, TransportResult
  <2>2. QED
    BY <2>1 DEF Bare, OnSubmitResult, OrderState
<1>4. ASSUME NEW result \in TransportResult, NEW k \in DOMAIN r.can
      PROVE  Bare(OnCancelResult(r, k, result))
  <2>1. OnCancelResult(r, k, result).sub = r.sub
    BY DEF OnCancelResult, OrderState
  <2>2. QED
    BY <2>1, <1>1 DEF Bare
<1>5. ASSUME NEW k \in Cmds(r)
      PROVE  Bare(OnDispatchStarted(r, k))
  <2>1. OnDispatchStarted(r, k).sub = IF k = 0 THEN "UNKNOWN" ELSE r.sub
    BY DEF OnDispatchStarted, SetCommand, OrderState
  <2>2. QED
    BY <2>1, <1>1 DEF Bare, Cmds
<1>6. ASSUME NEW k \in Cmds(r), NEW reason \in AbortReason
      PROVE  Bare(OnUnsentAborted(r, k, reason))
  <2>1. CASE k = 0
    <3>1. Settle(IF reason = "DISPATCH_INVALIDATED" THEN "BLOCKED" ELSE reason) # "PENDING"
      BY DEF Settle, AbortReason, Unresolved
    <3>2. OnUnsentAborted(r, k, reason).sub # "PENDING"
      BY <2>1, <3>1 DEF OnUnsentAborted, ResolveCommands, OrderState
    <3>3. QED
      BY <3>2 DEF Bare
  <2>2. CASE k # 0
    <3>1. OnUnsentAborted(r, k, reason).sub = r.sub
      BY <2>2 DEF OnUnsentAborted, SetCommand, OrderState
    <3>2. QED
      BY <2>2, <3>1, <1>1 DEF Bare, Cmds
  <2>3. QED
    BY <2>1, <2>2
<1>7. QED
  BY <1>2, <1>3, <1>4, <1>5, <1>6

\* The row a session may act on belongs to an order the writer knows.
LEMMA RowOrder ==
  ASSUME IInv, NEW c \in Commands, Exists(c)
  PROVE  /\ c[1] \in Orders /\ orders[c[1]] \in OrderState
         /\ c[2] \in Cmds(orders[c[1]])
         /\ c[2] # 0 => c[2] \in DOMAIN orders[c[1]].can
  BY CommandParts DEF IInv, TypeOK, Exists, Cmds

\* An order of which a session has a command keeps its state, unless the step
\* is about a command of that order.
LEMMA SessionCommit ==
  ASSUME IInv, SubmissionsBare, NEW s \in Sessions, SessionStep(s)
  PROVE  /\ SubmissionsBare'
         /\ \/ orders' = orders
            \/ \E c \in Commands : /\ Exists(c)
                                   /\ \A u \in Orders \ {c[1]} : orders'[u] = orders[u]
                                   /\ \/ Grant(s, c) \/ ExpireRow(s, c)
                                      \/ /\ session[s].pc \in {"prepare", "await"}
                                         /\ c = session[s].row
<1> DEFINE Same == orders' = orders
           Row(c) == /\ Exists(c) /\ SubmissionsBare'
                     /\ \A u \in Orders \ {c[1]} : orders'[u] = orders[u]
<1>1. Same => SubmissionsBare'
  BY DEF SubmissionsBare
<1>2. TypeOK
  BY DEF IInv
<1>3. ASSUME NEW c \in Commands, Exists(c), NEW t, Commit(c[1], t), t \in OrderState, Bare(t)
      PROVE  Row(c)
  BY <1>3, <1>2, RowOrder, CommitBare
<1>4. CASE Begin(s) \/ Done(s) \/ Handoff(s)
  BY <1>4, <1>1 DEF Begin, Done, Handoff, store
<1>5. ASSUME NEW c \in Commands, Grant(s, c)
      PROVE  Same \/ Row(c)
  <2>1. Exists(c) /\ Status(c) = "PENDING"
    BY <1>5, WorkingRow DEF Grant
  <2>2. /\ orders[c[1]] \in OrderState /\ c[2] \in Cmds(orders[c[1]]) /\ Bare(orders[c[1]])
        /\ CommandOf(orders[c[1]], c[2]) = "PENDING"
    BY <2>1, RowOrder DEF SubmissionsBare, Status
  <2>3. OnDispatchStarted(orders[c[1]], c[2]) \in OrderState
    BY <2>2, DispatchStartedEvolves DEF Evolves
  <2>4. Bare(OnDispatchStarted(orders[c[1]], c[2]))
    BY <2>2, FactBare
  <2>5. CASE Commit(c[1], OnDispatchStarted(orders[c[1]], c[2]))
    BY <2>1, <2>3, <2>4, <2>5, <1>3
  <2>6. CASE CommitFails
    BY <2>6 DEF CommitFails, store
  <2>7. QED
    BY <1>5, <2>5, <2>6 DEF Grant
<1>6. ASSUME NEW c \in Commands, ExpireRow(s, c)
      PROVE  Same \/ Row(c)
  <2>1. Exists(c) /\ "EXPIRED" \in AbortReason
    BY <1>6, WorkingRow DEF ExpireRow, AbortReason
  <2>2. orders[c[1]] \in OrderState /\ c[2] \in Cmds(orders[c[1]]) /\ Bare(orders[c[1]])
    BY <2>1, RowOrder DEF SubmissionsBare
  <2>3. OnUnsentAborted(orders[c[1]], c[2], "EXPIRED") \in OrderState
    BY <2>1, <2>2, UnsentAbortedEvolves DEF Evolves
  <2>4. Bare(OnUnsentAborted(orders[c[1]], c[2], "EXPIRED"))
    BY <2>1, <2>2, FactBare
  <2>5. CASE Commit(c[1], OnUnsentAborted(orders[c[1]], c[2], "EXPIRED"))
    BY <2>1, <2>3, <2>4, <2>5, <1>3
  <2>6. CASE CommitFails
    BY <2>6 DEF CommitFails, store
  <2>7. QED
    BY <1>6, <2>5, <2>6 DEF ExpireRow
<1>7. ASSUME NEW c \in Commands, SkipRow(s, c)
      PROVE  Same
  BY <1>7 DEF SkipRow, store
<1>8. ASSUME NEW reason \in AbortReason, AbortUnsent(s, reason)
      PROVE  session[s].pc = "prepare" /\ (Same \/ Row(session[s].row))
  <2> DEFINE c == session[s].row
             t == OnUnsentAborted(orders[c[1]], c[2], reason)
  <2>1. session[s].pc = "prepare"
    BY <1>8 DEF AbortUnsent
  <2>2. c \in Commands /\ Exists(c)
    BY <2>1, HeldRow
  <2>3. orders[c[1]] \in OrderState /\ c[2] \in Cmds(orders[c[1]]) /\ Bare(orders[c[1]])
    BY <2>2, RowOrder DEF SubmissionsBare
  <2>4. t \in OrderState
    BY <2>3, UnsentAbortedEvolves DEF Evolves
  <2>5. Bare(t)
    BY <2>3, FactBare
  <2>6. CASE Commit(c[1], t)
    BY <2>1, <2>2, <2>4, <2>5, <2>6, <1>3
  <2>7. CASE CommitFails \/ UNCHANGED <<store, latched>>
    BY <2>1, <2>7 DEF CommitFails, store
  <2>8. QED
    BY <1>8, <2>6, <2>7 DEF AbortUnsent
<1>9. ASSUME NEW result \in TransportResult, Observe(s, result)
      PROVE  session[s].pc = "await" /\ (Same \/ Row(session[s].row))
  <2> DEFINE c == session[s].row
             r == orders[c[1]]
             t == IF c[2] = 0 THEN OnSubmitResult(r, result) ELSE OnCancelResult(r, c[2], result)
  <2>1. session[s].pc = "await"
    BY <1>9 DEF Observe
  <2>2. c \in Commands /\ Exists(c)
    BY <2>1, HeldRow
  <2>3. r \in OrderState /\ Bare(r) /\ (c[2] # 0 => c[2] \in DOMAIN r.can)
    BY <2>2, RowOrder DEF SubmissionsBare
  <2>4. t \in OrderState
    BY <2>3, SubmitResultEvolves, CancelResultEvolves DEF Evolves
  <2>5. Bare(t)
    BY <2>3, FactBare
  <2>6. CASE Commit(c[1], t)
    BY <2>1, <2>2, <2>4, <2>5, <2>6, <1>3
  <2>7. CASE CommitFails
    BY <2>1, <2>7 DEF CommitFails, store
  <2>8. QED
    BY <1>9, <2>6, <2>7 DEF Observe
<1>10. ASSUME session[s].pc \in {"prepare", "await"}
       PROVE  session[s].row \in Commands
  BY <1>10, HeldRow
<1>11. QED
  BY <1>1, <1>4, <1>5, <1>6, <1>7, <1>8, <1>9, <1>10 DEF SessionStep
\* A cancel request touches its own order; a second attempt is never queued
\* while the first one is.
LEMMA RequestBare ==
  ASSUME IInv, SubmissionsBare, NEW o \in Orders, CancelRequest(o)
  PROVE  /\ SubmissionsBare' /\ \A u \in Orders \ {o} : orders'[u] = orders[u]
         /\ orders[o].started /\ CancelsQueued(orders[o]) => CancelsQueued(orders'[o])
<1> DEFINE r == orders[o]
           t == OnCancelRequested(r)
           p == Project(t, Lots, 0)
<1>1. /\ TypeOK /\ r \in OrderState /\ Bare(r) /\ CancelShown(r)
      /\ o \in approved /\ ~CancelIgnored(r) /\ Commit(o, t)
  BY DEF IInv, TypeOK, OrdersOrderly, SubmissionsBare, CancelRequest
<1>2. t \in OrderState
  BY <1>1, CancelUnstarted, CancelQueued DEF Evolves
<1>3. Bare(t)
  <2>1. CASE r.started
    BY <2>1, <1>1, CancelQueued DEF Bare
  <2>2. CASE ~r.started
    <3>1. t.sub = "CANCELED"
      BY <2>2, <1>1 DEF OnCancelRequested, OrderState
    <3>2. QED
      BY <3>1 DEF Bare
  <2>3. QED
    BY <2>1, <2>2
<1>4. SubmissionsBare' /\ \A u \in Orders \ {o} : orders'[u] = orders[u]
  BY <1>1, <1>2, <1>3, CommitBare
<1>5. ASSUME r.started, CancelsQueued(r)
      PROVE  CancelsQueued(orders'[o])
  <2>1. r.can = <<>> /\ r.life \notin TERMINAL
    BY <1>1, <1>5 DEF CancelsQueued, CancelIgnored
  <2>2. t.can = Append(r.can, "PENDING") /\ t.life = r.life /\ t.pend = "CANCEL"
    BY <1>1, <1>5 DEF OnCancelRequested, OrderState
  <2>3. t.can = <<"PENDING">> /\ 1 \in DOMAIN t.can /\ t.can[1] = "PENDING"
    BY <2>1, <2>2
  <2>4. HasCancel(t, Unresolved)
    BY <2>3 DEF HasCancel, Unresolved
  <2> HIDE DEF t
  <2>5. p.can = t.can /\ p.pend = "CANCEL"
    <3>1. ProjectedLife(t, Lots, 0) = t.life
      BY DEF ProjectedLife, Lots
    <3>2. ProjectedPending(t, t.life) = "CANCEL"
      BY <2>1, <2>2, <2>4 DEF ProjectedPending
    <3>3. p.pend = ProjectedPending(t, t.life)
      BY <1>2, <3>1 DEF Project, Lots, OrderState
    <3>4. QED
      BY <1>2, <3>2, <3>3, ProjectEvolves DEF Lots
  <2>6. orders'[o] = p
    BY <1>1 DEF Commit, TypeOK, t
  <2> HIDE DEF p
  <2>7. DOMAIN p.can = {1} /\ p.can[1] = "PENDING"
    BY <2>3, <2>5
  <2>8. QED
    BY <2>5, <2>6, <2>7 DEF CancelsQueued
<1>6. QED
  BY <1>4, <1>5

\* A report touches its own order.
LEMMA ReportBare ==
  ASSUME IInv, SubmissionsBare, NEW o \in Orders,
         NEW status \in {"OPEN", "FILLED", "CANCELED"}, Report(o, status)
  PROVE  SubmissionsBare' /\ \A u \in Orders \ {o} : orders'[u] = orders[u]
<1> DEFINE lots == IF status = "FILLED" THEN 1 ELSE 0
           t == OnOrderReport(orders[o], Lots, status, lots, TRUE)
<1>1. TypeOK /\ orders[o] \in OrderState /\ Bare(orders[o]) /\ Commit(o, t)
  BY DEF IInv, TypeOK, SubmissionsBare, Report
<1>2. status \in Lifecycle /\ lots \in Nat /\ Lots \in Nat
  BY DEF Lifecycle, Lots
<1> HIDE DEF lots
<1>3. t \in OrderState
  BY <1>1, <1>2, ReportEvolves DEF Evolves
<1>4. Bare(t)
  BY <1>1, <1>2, FactBare
<1>5. QED
  BY <1>1, <1>3, <1>4, CommitBare
-----------------------------------------------------------------------------
(* The invariant.                                                          *)

\* Only Begin and Grant give a session something to act on, and Grant takes
\* it from its rows.
LEMMA InHandShrinks ==
  ASSUME TypeOK, Next, NEW s \in Sessions, ~Begin(s)
  PROVE  InHand(s)' \subseteq InHand(s)
<1>1. session \in [Sessions -> SessionState] /\ session[s] \in SessionState
  BY DEF TypeOK
<1>2. ASSUME session'[s].rows \subseteq session[s].rows,
             session'[s].pc \in {"prepare", "await"} =>
               \/ session'[s].row \in session[s].rows
               \/ session[s].pc \in {"prepare", "await"} /\ session'[s].row = session[s].row
      PROVE  InHand(s)' \subseteq InHand(s)
  BY <1>2 DEF InHand
<1>3. CASE session' = session
  BY <1>2, <1>3
<1>4. ASSUME NEW t \in Sessions, SessionStep(t)
      PROVE  InHand(s)' \subseteq InHand(s)
  <2>1. CASE t # s
    <3>1. session'[s] = session[s]
      BY <2>1, <1>1, <1>4 DEF SessionStep, Begin, Done, Handoff, Grant, ExpireRow, SkipRow,
           AbortUnsent, Observe, Goto, Drop
    <3>2. QED
      BY <3>1, <1>2
  <2>2. CASE t = s
    <3>1. ASSUME NEW pc \in {"idle", "next"}, Goto(s, pc)
          PROVE  InHand(s)' \subseteq InHand(s)
      BY <3>1, <1>1, <1>2 DEF Goto, SessionState
    <3>2. ASSUME NEW c \in Commands, Working(s, c), Drop(s, c)
          PROVE  InHand(s)' \subseteq InHand(s)
      BY <3>2, <1>1, <1>2 DEF Drop, Working, SessionState
    <3>3. CASE Handoff(s)
      BY <3>3, <1>1, <1>2 DEF Handoff, Goto, SessionState
    <3>4. ASSUME NEW c \in Commands, Grant(s, c)
          PROVE  InHand(s)' \subseteq InHand(s)
      <4>1. CASE Goto(s, "idle")
        BY <4>1, <3>1
      <4>2. CASE session' = [session EXCEPT ![s].pc = "prepare", ![s].row = c,
                                            ![s].rows = @ \ {c}, ![s].latch = policy.latch]
        BY <4>2, <3>4, <1>1, <1>2 DEF Grant, Working, SessionState
      <4>3. QED
        BY <3>4, <4>1, <4>2 DEF Grant
    <3>5. QED
      BY <2>2, <1>4, <3>1, <3>2, <3>3, <3>4
      DEF SessionStep, Done, ExpireRow, SkipRow, AbortUnsent, Observe
  <2>3. QED
    BY <2>1, <2>2
<1>5. ASSUME NEW t \in Sessions, Start(t) \/ Close(t) \/ Heartbeat(t)
      PROVE  InHand(s)' \subseteq InHand(s)
  <2>1. CASE t = s /\ Start(t)
    <3>1. session'[s].rows = {} /\ session'[s].pc = "idle"
      BY <2>1, <1>1, DownType DEF Start, SessionState
    <3>2. QED
      BY <3>1, <1>2
  <2>2. CASE t = s /\ (Close(t) \/ Heartbeat(t))
    BY <2>2, <1>1, <1>2 DEF Close, Heartbeat, SessionState
  <2>3. CASE t # s
    BY <2>3, <1>1, <1>2, <1>5 DEF Start, Close, Heartbeat
  <2>4. QED
    BY <1>5, <2>1, <2>2, <2>3
<1>6. CASE Crash
  BY <1>6, <1>2, DownType DEF Crash
<1>7. QED
  BY <1>3, <1>4, <1>5, <1>6
  DEF Next, WriterStep, Approve, CancelRequest, Report, PolicyChange, Expire
\* Only Start makes a session active, and only when no other is.
LEMMA OneActiveStep ==
  ASSUME TypeOK, OneActive, Next
  PROVE  /\ OneActive'
         /\ \A s \in Sessions : session'[s].active =>
              session[s].active \/ (Start(s) /\ session'[s].pc = "idle")
<1>1. session \in [Sessions -> SessionState] /\ \A s \in Sessions : session[s] \in SessionState
  BY DEF TypeOK
<1> DEFINE Kept == \A s \in Sessions : session'[s].active => session[s].active
<1>2. CASE session' = session
  BY <1>2 DEF OneActive
<1>3. ASSUME NEW t \in Sessions, SessionStep(t)
      PROVE  Kept
  <2>1. ASSUME NEW pc, Goto(t, pc)
        PROVE  Kept
    BY <2>1, <1>1 DEF Goto, SessionState
  <2>2. ASSUME NEW c, Drop(t, c)
        PROVE  Kept
    BY <2>2, <1>1 DEF Drop, SessionState
  <2>3. ASSUME NEW c \in Commands, Grant(t, c)
        PROVE  Kept
    BY <2>3, <2>1, <1>1 DEF Grant, SessionState
  <2>4. CASE Begin(t)
    BY <2>4, <1>1 DEF Begin, SessionState
  <2>5. QED
    BY <1>3, <2>1, <2>2, <2>3, <2>4
    DEF SessionStep, Done, Handoff, ExpireRow, SkipRow, AbortUnsent, Observe
<1>4. ASSUME NEW t \in Sessions, Close(t) \/ Heartbeat(t)
      PROVE  Kept
  BY <1>4, <1>1 DEF Close, Heartbeat, SessionState
<1>5. ASSUME Crash
      PROVE  Kept
  <2>1. ~Down.active
    BY DEF Down
  <2>2. \A s \in Sessions : session'[s] = Down
    BY <1>5 DEF Crash
  <2>3. QED
    BY <2>1, <2>2
<1>6. ASSUME NEW t \in Sessions, Start(t)
      PROVE  /\ \A s \in Sessions : session'[s].active => s = t
             /\ session'[t].pc = "idle"
  <2> DEFINE new == [Down EXCEPT !.pc = "idle", !.epoch = epoch + 1,
                                 !.active = TRUE, !.fresh = TRUE]
  <2>1. new.pc = "idle"
    BY DEF Down
  <2>2. session' = [session EXCEPT ![t] = new] /\ \A u \in Sessions : ~session[u].active
    BY <1>6 DEF Start
  <2> HIDE DEF new
  <2>3. QED
    BY <2>1, <2>2, <1>1
<1>7. Kept => OneActive'
  BY DEF OneActive
<1>8. QED
  BY <1>2, <1>3, <1>4, <1>5, <1>6, <1>7
  DEF Next, WriterStep, Approve, CancelRequest, Report, PolicyChange, Expire, OneActive

\* Submissions stay bare until they are claimed.
LEMMA BareStep ==
  ASSUME IInv, SubmissionsBare, Next
  PROVE  SubmissionsBare'
<1>1. orders' = orders => SubmissionsBare'
  BY DEF SubmissionsBare
<1>2. ASSUME NEW s \in Sessions, Start(s) \/ Close(s) \/ Heartbeat(s)
      PROVE  orders' = orders
  BY <1>2 DEF Start, Close, Heartbeat, store
<1>3. CASE \/ \E o \in Orders : Approve(o)
           \/ Crash \/ PolicyChange \/ \E c \in Commands : Expire(c)
  BY <1>1, <1>3 DEF Approve, Crash, PolicyChange, Expire, store
<1>4. QED
  BY <1>1, <1>2, <1>3, SessionCommit, RequestBare, ReportBare DEF Next, WriterStep

\* The permit of a submission that the owner granted just now.
LEMMA GrantUncontested ==
  ASSUME IInv, SubmissionsBare, NEW s \in Sessions, NEW o \in Orders, Grant(s, <<o, 0>>),
         <<o, 0>> \in Commands, session'[s].pc = "prepare"
  PROVE  CancelsQueued(orders'[o]) /\ NoCancelInHand(o)
<1> DEFINE r == orders[o]
           t == OnDispatchStarted(r, 0)
           p == Project(t, Lots, 0)
<1>1. /\ TypeOK /\ RowsExist /\ PermitUnsent /\ AwaitsSent /\ r \in OrderState
      /\ \A u \in Sessions : session[u] \in SessionState
  BY DEF IInv, TypeOK
<1>2. r.sub = "PENDING" /\ r.can = <<>> /\ DOMAIN r.can = {}
  BY <1>1 DEF Grant, Status, CommandOf, SubmissionsBare, Bare
<1>3. Commit(o, t)
  <2>1. ~Goto(s, "idle")
    BY <1>1 DEF Goto, TypeOK, SessionState
  <2>2. <<o, 0>>[1] = o /\ <<o, 0>>[2] = 0
    OBVIOUS
  <2>3. QED
    BY <2>1, <2>2 DEF Grant
<1>4. orders'[o] = p
  BY <1>1, <1>3 DEF Commit, TypeOK
<1>5. t.can = r.can /\ t \in OrderState
  <2>1. CommandOf(r, 0) = "PENDING" /\ 0 \in Cmds(r)
    BY <1>2 DEF CommandOf, Cmds
  <2>2. t \in OrderState
    BY <1>1, <2>1, DispatchStartedEvolves DEF Evolves
  <2>3. t.can = r.can
    BY <1>1 DEF OnDispatchStarted, SetCommand, OrderState
  <2>4. QED
    BY <2>2, <2>3
<1> HIDE DEF t
<1>6. p.can = <<>>
  <2>1. p.can = t.can
    BY <1>5, ProjectEvolves DEF Lots
  <2>2. QED
    BY <2>1, <1>2, <1>5
<1>7. CancelsQueued(orders'[o])
  BY <1>4, <1>6 DEF CancelsQueued
<1>8. NoCancelInHand(o)
  <2> SUFFICES ASSUME NEW u \in Sessions, NEW c \in InHand(u), c[1] = o
               PROVE  c[2] = 0
    BY DEF NoCancelInHand
  <2>1. Exists(c)
    BY <1>1 DEF InHand, RowsExist, PermitUnsent, AwaitsSent, Claimed
  <2>2. QED
    BY <2>1, <1>2 DEF Exists
<1>9. QED
  BY <1>7, <1>8

\* While the owner prepares a submission, only a cancel request touches it.
LEMMA PermitUncontestedStep ==
  ASSUME IInv, AInv, Next
  PROVE  PermitUncontested'
<1> SUFFICES ASSUME NEW s \in Sessions, NEW o \in Orders,
                    session'[s].active, session'[s].pc = "prepare", session'[s].row = <<o, 0>>
             PROVE  CancelsQueued(orders'[o]) /\ NoCancelInHand(o)'
  BY DEF PermitUncontested
<1>1. /\ TypeOK /\ PermitUnsent /\ OnePermit /\ AwaitsSent /\ OneActive /\ SubmissionsBare
      /\ <<o, 0>> \in Commands
      /\ session \in [Sessions -> SessionState] /\ \A u \in Sessions : session[u] \in SessionState
  BY GatewayAssumption DEF IInv, AInv, TypeOK, Commands
<1>2. session[s].active
  BY <1>1, OneActiveStep
<1>3. \A u \in Sessions : Begin(u) => FALSE
  <2> SUFFICES ASSUME NEW u \in Sessions, Begin(u)
               PROVE  FALSE
    OBVIOUS
  <2>1. u = s
    BY <1>1, <1>2 DEF Begin, OneActive
  <2>2. QED
    BY <2>1, <1>1 DEF Begin
<1>4. NoCancelInHand(o) => NoCancelInHand(o)'
  BY <1>1, <1>3, InHandShrinks DEF NoCancelInHand
<1>5. CASE Grant(s, <<o, 0>>)
  BY <1>1, <1>4, <1>5, GrantUncontested
<1>6. CASE session[s].pc = "prepare" /\ session[s].row = <<o, 0>>
  <2>1. CancelsQueued(orders[o]) /\ NoCancelInHand(o)
    BY <1>2, <1>6 DEF AInv, PermitUncontested
  <2>2. Claimed(<<o, 0>>) /\ sends[<<o, 0>>] = 0 /\ orders[o].started
    BY <1>1, <1>6 DEF PermitUnsent, Claimed
  <2>3. orders'[o] = orders[o] => CancelsQueued(orders'[o])
    BY <2>1
  <2>4. ASSUME NEW u \in Orders, CancelRequest(u)
        PROVE  CancelsQueued(orders'[o])
    BY <2>1, <2>2, <2>3, <2>4, <1>1, RequestBare
  <2>5. ASSUME NEW u \in Orders, NEW status \in {"OPEN", "FILLED", "CANCELED"}, Report(u, status)
        PROVE  CancelsQueued(orders'[o])
    <3>1. u # o
      BY <2>2, <2>5 DEF Report
    <3>2. QED
      BY <2>3, <2>5, <3>1, <1>1, ReportBare
  <2>6. ASSUME NEW u \in Sessions, SessionStep(u)
        PROVE  CancelsQueued(orders'[o])
    <3> SUFFICES ASSUME orders'[o] # orders[o]
                 PROVE  FALSE
      BY <2>3
    <3>1. PICK c \in Commands :
            /\ Exists(c)
            /\ \A v \in Orders \ {c[1]} : orders'[v] = orders[v]
            /\ \/ Grant(u, c) \/ ExpireRow(u, c)
               \/ session[u].pc \in {"prepare", "await"} /\ c = session[u].row
      BY <2>6, <1>1, SessionCommit
    <3>2. c[1] = o /\ c \in InHand(u)
      BY <3>1 DEF InHand, Grant, ExpireRow, Working
    <3>3. c = <<o, 0>>
      BY <3>2, <2>1, CommandParts DEF NoCancelInHand
    <3>4. CASE Grant(u, c) \/ ExpireRow(u, c)
      BY <3>3, <3>4, <2>2 DEF Grant, ExpireRow, Claimed
    <3>5. CASE session[u].pc = "await" /\ c = session[u].row
      BY <3>3, <3>5, <2>2, <1>1 DEF AwaitsSent
    <3>6. CASE session[u].pc = "prepare" /\ c = session[u].row
      <4>1. u = s
        BY <3>3, <3>6, <1>1, <1>6 DEF OnePermit
      <4>2. session'[s].pc # "prepare"
        <5>1. Handoff(s) \/ \E reason \in AbortReason : AbortUnsent(s, reason)
          BY <4>1, <3>6, <2>6
          DEF SessionStep, Begin, Done, Grant, ExpireRow, SkipRow, Observe, Working
        <5>2. \E pc \in {"await", "next", "idle"} : Goto(s, pc)
          BY <5>1 DEF Handoff, AbortUnsent
        <5>3. QED
          BY <5>2, <1>1 DEF Goto
      <4>3. QED
        BY <4>2
    <3>7. QED
      BY <3>1, <3>4, <3>5, <3>6
  <2>7. ASSUME \/ \E u \in Orders : Approve(u)
               \/ \E u \in Sessions : Start(u) \/ Close(u) \/ Heartbeat(u)
               \/ Crash \/ PolicyChange \/ \E c \in Commands : Expire(c)
        PROVE  CancelsQueued(orders'[o])
    <3>1. orders' = orders
      BY <2>7 DEF Approve, Start, Close, Heartbeat, Crash, PolicyChange, Expire, store
    <3>2. QED
      BY <2>3, <3>1
  <2>8. QED
    BY <2>1, <2>4, <2>5, <2>6, <2>7, <1>4 DEF Next, WriterStep
<1>7. \/ Grant(s, <<o, 0>>)
      \/ session[s].pc = "prepare" /\ session[s].row = <<o, 0>>
  <2>1. CASE session' = session
    BY <2>1
  <2>2. ASSUME NEW u \in Sessions, SessionStep(u)
        PROVE  \/ Grant(s, <<o, 0>>)
               \/ session[s].pc = "prepare" /\ session[s].row = <<o, 0>>
    <3>1. ASSUME NEW pc \in {"idle", "next", "await"}, Goto(u, pc)
          PROVE  session[s].pc = "prepare" /\ session[s].row = <<o, 0>>
      BY <3>1, <1>1 DEF Goto, SessionState
    <3>2. ASSUME NEW c, Drop(u, c)
          PROVE  session[s].pc = "prepare" /\ session[s].row = <<o, 0>>
      BY <3>2, <1>1 DEF Drop, SessionState
    <3>3. ASSUME NEW c \in Commands, Grant(u, c)
          PROVE  \/ Grant(s, <<o, 0>>)
                 \/ session[s].pc = "prepare" /\ session[s].row = <<o, 0>>
      <4>1. CASE Goto(u, "idle")
        BY <4>1, <3>1
      <4>2. CASE session' = [session EXCEPT ![u].pc = "prepare", ![u].row = c,
                                            ![u].rows = @ \ {c}, ![u].latch = policy.latch]
        <5>1. u = s => c = <<o, 0>>
          BY <4>2, <1>1 DEF SessionState
        <5>2. u # s => session'[s] = session[s]
          BY <4>2, <1>1
        <5>3. QED
          BY <3>3, <5>1, <5>2
      <4>3. QED
        BY <3>3, <4>1, <4>2 DEF Grant
    <3>4. QED
      BY <2>2, <3>1, <3>2, <3>3, <1>3
      DEF SessionStep, Done, Handoff, ExpireRow, SkipRow, AbortUnsent, Observe
  <2>3. ASSUME NEW u \in Sessions, Start(u) \/ Close(u) \/ Heartbeat(u)
        PROVE  session[s].pc = "prepare" /\ session[s].row = <<o, 0>>
    <3>1. CASE Close(u) \/ Heartbeat(u)
      BY <3>1, <1>1 DEF Close, Heartbeat, SessionState
    <3>2. CASE Start(u)
      <4>1. session'[s].active /\ ~session[s].active
        BY <3>2 DEF Start
      <4>2. QED
        BY <4>1, <1>2
    <3>3. QED
      BY <2>3, <3>1, <3>2
  <2>4. CASE Crash
    BY <2>4, DownType DEF Crash
  <2>5. QED
    BY <2>1, <2>2, <2>3, <2>4
    DEF Next, WriterStep, Approve, CancelRequest, Report, PolicyChange, Expire
<1>8. QED
  BY <1>5, <1>6, <1>7
-----------------------------------------------------------------------------
(* The theorem.                                                            *)

\* The owner is alone, and cancels of what it prepares only queue up.
THEOREM Authority == Spec => [](IInv /\ AInv)
<1>1. Init => AInv
  BY DEF Init, AInv, OneActive, SubmissionsBare, Bare, NewOrder, PermitUncontested, Down
<1>2. IInv /\ AInv /\ [Next]_vars => AInv'
  <2>1. IInv /\ AInv /\ Next => AInv'
    BY OneActiveStep, BareStep, PermitUncontestedStep DEF AInv, IInv
  <2>2. AInv /\ UNCHANGED vars => AInv'
    BY DEF AInv, OneActive, SubmissionsBare, PermitUncontested, NoCancelInHand, InHand,
           vars, store
  <2>3. QED
    BY <2>1, <2>2
<1>3. QED
  BY <1>1, <1>2, Invariant, PTL DEF Spec

\* A command on the wire is authorized at that moment: Router.dispatch_ready
\* hands nothing off that was canceled, expired, fenced off or forbidden
\* while it was prepared.
THEOREM HandoffsAuthorized == Spec => HandoffAuthorized
<1> DEFINE A == \A c \in Commands : sends'[c] # sends[c] =>
                  /\ c[2] = 0 => orders[c[1]].can = <<>> /\ c[1] \in policy.admits
                  /\ stamp[c].fence = epoch /\ stamp[c].risk = policy.risk
                  /\ c \notin expired
<1>1. ASSUME IInv, AInv, [Next]_vars
      PROVE  [A]_vars
  <2>1. CASE sends' = sends
    BY <2>1
  <2>2. CASE \E s \in Sessions : Handoff(s)
    <3>1. PICK s \in Sessions : Handoff(s)
      BY <2>2
    <3> DEFINE c == session[s].row
    <3>2. /\ session[s].pc = "prepare" /\ Check(s, c)
          /\ sends' = [sends EXCEPT ![c] = @ + 1] /\ sends \in [Commands -> Nat]
      BY <3>1, <1>1 DEF Handoff, Recheck, IInv, TypeOK
    <3>3. c \in Commands
      BY <3>2, <1>1, HeldRow
    <3>4. \A d \in Commands : sends'[d] # sends[d] => d = c
      BY <3>2
    <3>5. /\ stamp[c].fence = epoch /\ stamp[c].risk = policy.risk /\ c \notin expired
          /\ session[s].active /\ OrderAwaits(c)
          /\ c[2] = 0 => c[1] \in policy.admits
      BY <3>2 DEF Check, OwnershipValid
    <3>6. ASSUME c[2] = 0
          PROVE  orders[c[1]].can = <<>>
      <4>1. c[1] \in Orders /\ c = <<c[1], 0>>
        BY <3>3, <3>6, CommandParts
      <4>2. CancelsQueued(orders[c[1]])
        BY <3>2, <3>5, <4>1, <1>1 DEF AInv, PermitUncontested
      <4>3. QED
        BY <3>5, <3>6, <4>2 DEF CancelsQueued, OrderAwaits
    <3>7. QED
      BY <3>4, <3>5, <3>6
  <2>3. CASE Next
    <3>1. \/ sends' = sends
          \/ \E s \in Sessions : Handoff(s)
      BY <2>3, <1>1, StepInv DEF StoreStep, Approve, CancelRequest
    <3>2. QED
      BY <2>1, <2>2, <3>1
  <2>4. QED
    BY <2>3, <1>1
<1>2. [](IInv /\ AInv) /\ [][Next]_vars => [][A]_vars
  BY <1>1, PTL
<1>3. QED
  BY <1>2, Authority DEF Spec, HandoffAuthorized
============================================================================
