------------------------------ MODULE Recovery ------------------------------
(***************************************************************************)
(* The recovery of the account writer (execution/reconciliation.py) with   *)
(* the private stream and the read window of the Bitget adapter            *)
(* (venues/bitget_uta).  A recovery connects the stream, reads the venue   *)
(* one endpoint after another while the venue goes on, books what it read  *)
(* and what the stream buffered, and compares the ledger with the          *)
(* snapshot; two equal clean windows a second apart move the cursor.       *)
(*                                                                         *)
(* Every order has one lot and at most one execution; Delta is its effect  *)
(* on the position and Fee its cost.  A row is a transfer of one unit.     *)
(* Local time is up to Skew ahead of the venue's or behind it.  The sizes  *)
(* MaxClock, MaxRuns and MaxCrash bound the runs TLC explores.             *)
(***************************************************************************)
EXTENDS Integers, Sequences, FiniteSets, FiniteSetsExt

CONSTANTS Orders,      \* orders of the account at the venue
          KnownOrders,       \* the ones this account writer sent
          Rows,        \* transfers that may happen
          Delta,       \* Delta[o]: lots order o adds to the position
          Fee, FirstWallet, \* cost of an execution, the venue's wallet at first
          Opening,     \* the operator asks for the opening baseline
          Skew, Overlap, Timeout, Capacity,
          MaxClock, MaxRuns, MaxCrash

ASSUME RecoveryAssumption ==
  /\ KnownOrders \subseteq Orders /\ Delta \in [Orders -> Int]
  /\ IsFiniteSet(Orders \cup Rows) /\ Orders \cap Rows = {}
  /\ {Fee, FirstWallet, Skew, MaxClock, MaxRuns, MaxCrash} \subseteq Nat
  /\ {Overlap, Timeout, Capacity} \subseteq Nat \ {0}
  /\ Skew <= Overlap /\ Skew <= MaxClock

TERMINAL == {"FILLED", "CANCELED"}
NoTime == -1

VARIABLES
  clock,   \* local time in seconds
  ahead,   \* how far it is ahead of the venue's clock, or behind it
  vlife,   \* vlife[o]: state of the order at the venue
  vtime,   \* vtime[x]: the venue's stamp of an execution or a row, or NoTime
  stream,  \* the private session: ready, frames under way, buffered frames
  orders,  \* orders[o]: lifecycle the OMS knows, "UNKNOWN" before any report
  booked,  \* executions and rows in the ledger
  base,    \* amounts of opening baselines in the ledger
  rec,     \* the durable RecoveryProgress: status and cursor
  pc, run, w,   \* the running Reconciler.run: its step, locals and window
  runs, crashes

ledger == <<orders, booked, base>>
venue == <<vlife, vtime>>
time == <<clock, ahead>>
recoveryVars == <<time, venue, stream, ledger, rec, pc, run, w, runs, crashes>>

Fact == Orders \cup Rows
Happened == {x \in Fact : vtime[x] # NoTime}
SumOver(f, S) == FoldSet(LAMBDA x, sum : sum + f[x], 0, S)

\* What a set of facts does to the position and to the wallet.
Lots(facts) == SumOver(Delta, facts \cap Orders)
Cash(facts) == Cardinality(facts \cap Rows) - Fee * Cardinality(facts \cap Orders)

Frame == [kind : {"fill"}, o : Orders]
           \cup [kind : {"order"}, o : Orders, life : TERMINAL]
           \cup [kind : {"bad"}]

NoWindow == [open |-> {}, seen |-> [o \in Orders |-> "UNKNOWN"], facts |-> {},
             cash |-> 0, lots |-> 0, end |-> 0, before |-> {}]
NoRun == [opening |-> FALSE, since |-> 0, began |-> 0, previous |-> <<>>,
          stableAt |-> 0]

RecoveryInit ==
  /\ clock = Skew /\ ahead \in {Skew, -Skew}
  /\ vlife = [o \in Orders |-> "OPEN"]
  /\ vtime = [x \in Fact |-> NoTime]
  /\ stream = [ready |-> FALSE, wire |-> <<>>, buffer |-> <<>>]
  /\ orders = [o \in KnownOrders |-> "UNKNOWN"]
  /\ booked = {}
  /\ base = IF Opening THEN <<>> ELSE <<FirstWallet>>
  /\ rec = [status |-> "NONE", cursor |-> NoTime]
  /\ pc = "idle" /\ run = NoRun /\ w = NoWindow
  /\ runs = 0 /\ crashes = 0
----------------------------------------------------------------------------
(* The venue: executions, cancels and transfers at any moment, each        *)
(* execution reported as an order frame and a fill frame.                  *)

Sent(frames) ==
  stream' = IF stream.ready THEN [stream EXCEPT !.wire = @ \o frames] ELSE stream

VenueFill(o) ==
  /\ vlife[o] = "OPEN"
  /\ vlife' = [vlife EXCEPT ![o] = "FILLED"]
  /\ vtime' = [vtime EXCEPT ![o] = clock - ahead]
  /\ Sent(<<[kind |-> "order", o |-> o, life |-> "FILLED"], [kind |-> "fill", o |-> o]>>)
  /\ UNCHANGED <<time, ledger, rec, pc, run, w, runs, crashes>>

VenueCancel(o) ==
  /\ vlife[o] = "OPEN"
  /\ vlife' = [vlife EXCEPT ![o] = "CANCELED"]
  /\ Sent(<<[kind |-> "order", o |-> o, life |-> "CANCELED"]>>)
  /\ UNCHANGED <<time, vtime, ledger, rec, pc, run, w, runs, crashes>>

VenueTransfer(x) ==
  /\ vtime[x] = NoTime
  /\ vtime' = [vtime EXCEPT ![x] = clock - ahead]
  /\ UNCHANGED <<time, vlife, stream, ledger, rec, pc, run, w, runs, crashes>>

Tick ==
  /\ clock < MaxClock
  /\ clock' = clock + 1
  /\ UNCHANGED <<ahead, venue, stream, ledger, rec, pc, run, w, runs, crashes>>
----------------------------------------------------------------------------
(* StreamSession.                                                          *)

\* invalidate: not ready until the next connect; the buffer is kept.
Invalidated(s) == [s EXCEPT !.ready = FALSE, !.wire = <<>>]

Pump ==
  /\ stream.ready /\ stream.wire # <<>>
  /\ stream' = IF Len(stream.buffer) >= Capacity
       THEN Invalidated(stream)
       ELSE [stream EXCEPT !.wire = Tail(@), !.buffer = Append(@, Head(stream.wire))]
  /\ UNCHANGED <<time, venue, ledger, rec, pc, run, w, runs, crashes>>

\* A disconnect or a missed pong loses what is under way.
Disconnect ==
  /\ stream.ready
  /\ stream' = Invalidated(stream)
  /\ UNCHANGED <<time, venue, ledger, rec, pc, run, w, runs, crashes>>

\* A row that cannot be normalized arrives.
BadFrame ==
  /\ stream.ready /\ Len(stream.buffer) < Capacity
  /\ [kind |-> "bad"] \notin {stream.buffer[i] : i \in DOMAIN stream.buffer}
  /\ stream' = [stream EXCEPT !.buffer = Append(@, [kind |-> "bad"])]
  /\ UNCHANGED <<time, venue, ledger, rec, pc, run, w, runs, crashes>>
----------------------------------------------------------------------------
(* Reconciler.run up to the first read.                                    *)

\* recovery_reducer: the cursor never regresses and only convergence moves it.
Accepts(status, cursor) ==
  /\ rec.cursor # NoTime => cursor >= rec.cursor
  /\ status # "CONVERGED" => cursor = rec.cursor

\* The run ends without convergence.
Block == rec' = [rec EXCEPT !.status = "BLOCKED"] /\ pc' = "idle" /\ run' = NoRun /\ w' = NoWindow

\* (faulty) the next window starts where the last one ended.
SinceNoOverlap(cursor) == cursor

\* Where a window starts: Overlap before the cursor.
Since(cursor) == IF cursor >= Overlap THEN cursor - Overlap ELSE 0

Begin(startAt) ==
  /\ pc = "idle" /\ runs < MaxRuns
  /\ runs' = runs + 1
  /\ LET opening == Opening /\ base = <<>> /\ booked = {} /\ KnownOrders = {}
         from    == IF rec.cursor # NoTime THEN rec.cursor ELSE startAt
     IN  IF from = NoTime /\ ~opening
           THEN Block
           ELSE /\ rec' = [rec EXCEPT !.status = "RECONCILING"]
                /\ run' = [NoRun EXCEPT !.opening = opening, !.began = clock,
                             !.since = IF opening THEN clock ELSE Since(from)]
                /\ pc' = "connect"
                /\ w' = NoWindow
  /\ UNCHANGED <<time, venue, stream, ledger, crashes>>

\* StreamSession.connect: a ready session is kept; frames buffered by an
\* earlier one stay in the buffer.
Connect ==
  /\ pc = "connect"
  /\ stream' = IF stream.ready THEN stream ELSE [stream EXCEPT !.ready = TRUE]
  /\ pc' = "open"
  /\ UNCHANGED <<time, venue, ledger, rec, run, w, runs, crashes>>

\* Any await may fail or run into the timeout: connecting or reading.
InputFails ==
  /\ pc \in {"connect", "open", "orders", "history", "assets", "positions"}
  /\ Block
  /\ UNCHANGED <<time, venue, stream, ledger, runs, crashes>>
----------------------------------------------------------------------------
(* fetch_recovery_window, endpoint by endpoint.                            *)

\* The open orders; nothing is read while the stream is not healthy.
FetchOpen ==
  /\ pc = "open"
  /\ IF stream.ready
       THEN /\ w' = [NoWindow EXCEPT !.open = {o \in Orders : vlife[o] = "OPEN"},
                       !.end = clock, !.before = Happened]
            /\ pc' = "orders" /\ UNCHANGED <<rec, run>>
       ELSE Block
  /\ UNCHANGED <<time, venue, stream, ledger, runs, crashes>>

\* Every original order by its client id.
FetchOrders ==
  /\ pc = "orders"
  /\ w' = [w EXCEPT !.seen = [o \in Orders |-> IF o \in KnownOrders THEN vlife[o] ELSE "UNKNOWN"]]
  /\ pc' = "history"
  /\ UNCHANGED <<time, venue, stream, ledger, rec, run, runs, crashes>>

\* Executions and financial records stamped inside the window.
InWindow(x) == vtime[x] \in run.since .. w.end

FetchHistory ==
  /\ pc = "history"
  /\ w' = [w EXCEPT !.facts = {x \in Happened : InWindow(x)}]
  /\ pc' = "assets"
  /\ UNCHANGED <<time, venue, stream, ledger, rec, run, runs, crashes>>

FetchAssets ==
  /\ pc = "assets"
  /\ w' = [w EXCEPT !.cash = FirstWallet + Cash(Happened)]
  /\ pc' = "positions"
  /\ UNCHANGED <<time, venue, stream, ledger, rec, run, runs, crashes>>

FetchPositions ==
  /\ pc = "positions"
  /\ w' = [w EXCEPT !.lots = Lots(Happened)]
  /\ pc' = "judge"
  /\ UNCHANGED <<time, venue, stream, ledger, rec, run, runs, crashes>>
----------------------------------------------------------------------------
(* One iteration of the loop after the window arrived: no await until the  *)
(* sleep, so the stream and the ledger change only here.                   *)

Buffered == {stream.buffer[i] : i \in DOMAIN stream.buffer}
StreamFills == {f.o : f \in {g \in Buffered : g.kind = "fill"}}
Gap == [kind |-> "bad"] \in Buffered

\* Everything the OMS is told of an order in this window.
Reports(o) ==
  {w.seen[o]} \cup {f.life : f \in {g \in Buffered : g.kind = "order" /\ g.o = o}}

\* The order after its reports and executions: a terminal state stays,
\* except that fills prevail.
Told(o, facts) ==
  IF o \in facts \/ "FILLED" \in Reports(o) THEN "FILLED"
  ELSE IF orders[o] \in TERMINAL THEN orders[o]
  ELSE IF "CANCELED" \in Reports(o) THEN "CANCELED"
  ELSE IF "OPEN" \in Reports(o) THEN "OPEN" ELSE orders[o]

\* PortfolioComparison.compare: position lots and wallet.
Compare(facts) ==
  (IF Lots(facts) = w.lots THEN {} ELSE {"QUANTITY_DIVERGENCE"})
    \cup (IF SumSet({base[i] : i \in DOMAIN base}) + Cash(facts) = w.cash
            THEN {} ELSE {"BALANCE_DIVERGENCE"})

\* Checks of the opening baseline.
OpeningIssues(facts) ==
  (IF facts # {} \/ base # <<>> THEN {"OPENING_ACTIVITY_REQUIRES_REVIEW"} ELSE {})
    \cup (IF w.lots # 0 \/ w.open # {} THEN {"OPENING_NOT_FLAT"} ELSE {})

\* (faulty) reported executions are not required to be booked.
OrderIssuesLax(facts, told) ==
  (IF {o \in KnownOrders : told[o] \notin TERMINAL} # w.open
     THEN {"ACTIVE_ORDER_SET_MISMATCH"} ELSE {})

OrderIssues(facts, told) ==
  (IF w.open \subseteq KnownOrders THEN {} ELSE {"FOREIGN_ORDER"})
    \cup (IF {o \in KnownOrders : told[o] \notin TERMINAL} = w.open
            THEN {} ELSE {"ACTIVE_ORDER_SET_MISMATCH"})
    \cup (IF \A o \in KnownOrders : told[o] # "UNKNOWN" /\ (told[o] = "FILLED" => o \in facts)
            THEN {} ELSE {"MISSING_EXECUTION_HISTORY"})
    \cup (IF facts \cap Orders \subseteq KnownOrders THEN {} ELSE {"FOREIGN_EXECUTION"})

StreamIssues ==
  IF Gap \/ ~stream.ready THEN {"PRIVATE_STREAM"} ELSE {}

Issues(facts, told) ==
  StreamIssues \cup OrderIssues(facts, told)
    \cup (IF clock - run.began > Timeout THEN {"CONVERGENCE_TIMEOUT"} ELSE {})
    \cup (IF run.opening THEN OpeningIssues(facts) ELSE Compare(facts))

Fingerprint == <<w.cash, w.lots, w.open>>

Stable == run.previous = Fingerprint /\ clock - run.stableAt >= 1

\* Everything of the window and the buffer is booked, then judged.
Judge ==
  /\ pc = "judge"
  /\ LET facts  == booked \cup w.facts \cup StreamFills
         told   == [o \in KnownOrders |-> Told(o, facts)]
         issues == Issues(facts, told)
     IN  /\ booked' = facts /\ orders' = told
         /\ IF issues = {} /\ Stable
              THEN /\ base' = IF run.opening THEN Append(base, w.cash) ELSE base
                   /\ pc' = "record" /\ UNCHANGED run
              ELSE /\ run' = [run EXCEPT !.previous = IF issues = {} THEN Fingerprint ELSE <<>>,
                                         !.stableAt = clock]
                   /\ pc' = "sleep" /\ UNCHANGED base
  /\ stream' = IF Gap THEN [Invalidated(stream) EXCEPT !.buffer = <<>>]
                      ELSE [stream EXCEPT !.buffer = <<>>]
  /\ UNCHANGED <<time, venue, rec, w, runs, crashes>>

\* through_ms is the time the window was asked for.
Through == w.end

\* The CONVERGED record; a reducer that refuses it leaves the run blocked.
Converge ==
  /\ pc = "record"
  /\ IF Accepts("CONVERGED", Through)
       THEN /\ rec' = [status |-> "CONVERGED", cursor |-> Through]
            /\ pc' = "idle" /\ run' = NoRun /\ w' = NoWindow
       ELSE Block
  /\ UNCHANGED <<time, venue, stream, ledger, runs, crashes>>

\* Another iteration after a second, or the end of the patience.
Wake ==
  /\ pc = "sleep" /\ clock >= run.stableAt + 1
  /\ IF clock - run.began < Timeout
       THEN pc' = "open" /\ UNCHANGED <<rec, run, w>>
       ELSE Block
  /\ UNCHANGED <<time, venue, stream, ledger, runs, crashes>>
----------------------------------------------------------------------------
(* The process dies: between two steps, or with a part of the window       *)
(* committed; the clock may have been set right at the next start.         *)

Restarted(back) ==
  /\ crashes < MaxCrash
  /\ crashes' = crashes + 1
  /\ ahead >= back /\ clock' = clock - back /\ ahead' = ahead - back
  /\ pc' = "idle" /\ run' = NoRun /\ w' = NoWindow
  /\ stream' = [ready |-> FALSE, wire |-> <<>>, buffer |-> <<>>]
  /\ UNCHANGED <<venue, base, rec, runs>>

Crash(back) == Restarted(back) /\ UNCHANGED <<orders, booked>>

\* The order reports are committed before the executions, those before the
\* transfers.
CrashCommitting ==
  /\ pc = "judge"
  /\ \E fills \in SUBSET (w.facts \cap Orders) :
       /\ booked' = booked \cup fills
       /\ orders' = [o \in KnownOrders |->
            IF o \in booked' THEN "FILLED"
              ELSE IF orders[o] \in TERMINAL THEN orders[o] ELSE w.seen[o]]
  /\ Restarted(0)

RecoveryNext ==
  \/ \E o \in Orders : VenueFill(o) \/ VenueCancel(o)
  \/ \E x \in Rows : VenueTransfer(x)
  \/ Tick \/ Pump \/ Disconnect \/ BadFrame
  \/ \E startAt \in {NoTime, 0} : Begin(startAt)
  \/ Connect \/ InputFails
  \/ FetchOpen \/ FetchOrders \/ FetchHistory \/ FetchAssets \/ FetchPositions
  \/ Judge \/ Converge \/ Wake
  \/ \E back \in 0 .. Skew : Crash(back)
  \/ CrashCommitting

RecoverySpec == RecoveryInit /\ [][RecoveryNext]_recoveryVars
----------------------------------------------------------------------------
(* Properties.                                                             *)

RecoveryTypeOK ==
  /\ clock \in 0 .. MaxClock /\ ahead \in -Skew .. Skew
  /\ vlife \in [Orders -> {"OPEN"} \cup TERMINAL]
  /\ vtime \in [Fact -> {NoTime} \cup 0 .. MaxClock + Skew]
  /\ stream.ready \in BOOLEAN
  /\ stream.wire \in Seq(Frame) /\ stream.buffer \in Seq(Frame)
  /\ Len(stream.buffer) <= Capacity
  /\ orders \in [KnownOrders -> {"UNKNOWN", "OPEN"} \cup TERMINAL]
  /\ booked \subseteq Happened
  /\ rec.status \in {"NONE", "RECONCILING", "BLOCKED", "CONVERGED"}
  /\ rec.cursor \in {NoTime} \cup 0 .. MaxClock

\* The next window starts early enough: what the ledger still misses at a
\* cursor carries a stamp the next recovery asks for, though the venue's
\* clock lags and the stream died with its buffer.
NothingBehindCursor ==
  rec.cursor # NoTime /\ ~Opening =>
    \A x \in Happened \ booked : vtime[x] >= Since(rec.cursor)

\* The durable cursor moves only at a convergence and never back, also when
\* the clock was set back by a restart.
CursorOnlyForward ==
  [][rec'.cursor # rec.cursor =>
       /\ rec'.status = "CONVERGED"
       /\ rec.cursor = NoTime \/ rec'.cursor > rec.cursor]_recoveryVars

\* The cursor survives crashes, lost frames and clocks that are set
\* (Reconciler.run).
CursorHolds == [](RecoveryTypeOK /\ NothingBehindCursor) /\ CursorOnlyForward

\* Convergence is about the venue and not about itself: what had happened to the
\* orders of this writer when the last window was asked for is in the ledger,
\* whatever happened between its reads and whatever the stream lost.  So is all
\* else from the start of the window on, unless the local clock lags and the venue
\* stamped it after the end.
ConvergenceCovers ==
  pc = "record" /\ rec'.status = "CONVERGED" /\ ~run.opening =>
    /\ w.before \cap KnownOrders \subseteq booked
    /\ ahead >= 0 => \A x \in w.before : vtime[x] >= run.since => x \in booked

\* The wallet of the opening baseline is the wallet of a flat account the
\* venue still had when its last window was asked for, not a sum torn by
\* what happened between two reads.
OpeningAgrees ==
  pc = "record" /\ rec'.status = "CONVERGED" /\ run.opening =>
    /\ base = <<FirstWallet + Cash(w.before)>>
    /\ Lots(w.before) = 0

\* A recovery converges on what the venue had (Reconciler.run).
RecoveriesCover == [][ConvergenceCovers /\ OpeningAgrees]_recoveryVars

=============================================================================
