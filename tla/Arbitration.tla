---------------------------- MODULE Arbitration ----------------------------
(***************************************************************************)
(* The arbitration of the intents of one instrument (risk/arbitration.py). *)
(* Strategies submit batches of intents, redelivered ones among them; the  *)
(* arbitrator answers each intent once, and what it accepts becomes orders *)
(* whose fills, cancellations and lost answers come in any order.          *)
(*                                                                         *)
(* An order is the intent it came from, its owner, whether it only         *)
(* reduces, its side, the lots it still reserves and whether its outcome   *)
(* is known.  Intents are numbered in the order of (strategy, intent_id),  *)
(* in which the arbitrator takes them.                                     *)
(***************************************************************************)
EXTENDS Integers, FiniteSetsExt, Lots

CONSTANTS IntentBodies,     \* the bodies a strategy gives an intent
          MaxIntents, \* identities of intents
          MaxBatch,   \* intents of one batch
          MaxRisk     \* lots risk gives an intent that leaves them open

NoOwner == 0
Open == -1           \* desired_quantity is None
Unaligned == -2      \* not a whole number of lots

ASSUME ArbitrationAssumption ==
  /\ \A b \in IntentBodies :
       /\ DOMAIN b = {"strategy", "action", "side", "qty", "policy", "expired"}
       /\ b.strategy \in Nat \ {NoOwner} /\ b.action \in {"ENTER", "EXIT", "CANCEL_ENTRY"}
       /\ b.side \in {1, -1} /\ b.qty \in Nat \cup {Open, Unaligned}
       /\ b.expired \in BOOLEAN
  /\ {MaxIntents, MaxBatch, MaxRisk} \subseteq Nat \ {0}

Ids == 1..MaxIntents

VARIABLES
  body,      \* bodies of the intents submitted so far, by identity
  symbolLots,  \* signed lots of the ledger
  intentOrders,    \* orders of the account writer
  symbolOwner,     \* symbol_owners
  batch,     \* the intents of the last batch, until something else happens
  answer     \* what the arbitrator made of it

arbitrationVars == <<body, symbolLots, intentOrders, symbolOwner, batch, answer>>

Sign(n) == IF n > 0 THEN 1 ELSE -1

Answer(accepted, lots, rejected, cancels, netted) ==
  [accepted |-> accepted, lots |-> lots, rejected |-> rejected,
   cancels |-> cancels, netted |-> netted]

NoAnswer == Answer({}, <<>>, {}, {}, {})

ArbitrationInit ==
  /\ body = <<>> /\ symbolLots = 0 /\ intentOrders = {} /\ symbolOwner = NoOwner
  /\ batch = {} /\ answer = NoAnswer
----------------------------------------------------------------------------
(* Arbitrator.resolve.                                                     *)

\* (strategy_id, intent_id), in which the arbitrator takes the intents.
TakenBefore(b, i, j) ==
  b[i].strategy < b[j].strategy \/ (b[i].strategy = b[j].strategy /\ i < j)
Least(b, S) == CHOOSE i \in S : \A j \in S \ {i} : TakenBefore(b, i, j)

\* Orders that still bind the instrument, and the exits and entries of them.
Binding == {o \in intentOrders : ~o.terminal \/ o.reserved > 0 \/ ~o.known}
Exits == {o \in Binding : o.reduces}
Entries == Binding \ Exits

Reserved(os) == Total([o \in os |-> o.reserved], os)
ClosingReserved == Reserved(Exits)
AvailableClose == Larger(0, Abs(symbolLots) - ClosingReserved)

ExitWorking == \E o \in Exits : o.reserved > 0
Uncertain == \E o \in Binding : ~o.known

PreferredOwner ==
  IF symbolOwner # NoOwner THEN symbolOwner
    ELSE IF Entries = {} THEN NoOwner ELSE Min({o.owner : o \in Entries})

\* Intents that are orders already.
ConsumedIntents == {o.intent : o \in intentOrders}

\* Intents neither executed before nor too late.
Timely(b, B) == {i \in B : i \notin ConsumedIntents /\ ~b[i].expired}
Wanting(b, B) == {i \in Timely(b, B) : b[i].action = "ENTER"}
Reducing(b, B) == Timely(b, B) \ Wanting(b, B)

ExitActive(b, B) == ExitWorking \/ Reducing(b, B) # {}

\* Exits that name the side of the position, and lots that can be counted.
Closers(b, B) ==
  {i \in Reducing(b, B) : /\ b[i].action = "EXIT" /\ b[i].qty # Unaligned
                          /\ symbolLots # 0 /\ b[i].side = -Sign(symbolLots)}

Desired(b, i) == IF b[i].qty = Open THEN AvailableClose ELSE b[i].qty

\* What is left of the pool for an exit once the earlier ones took theirs.
LeftFor(b, B, i) ==
  LET wanted == [j \in Closers(b, B) |-> Desired(b, j)]
      earlier == {j \in Closers(b, B) : TakenBefore(b, j, i)}
  IN  Larger(0, AvailableClose - Total(wanted, earlier))

Served(b, B) == {i \in Closers(b, B) : LeftFor(b, B, i) > 0}
CloseLots(b, B, i) == Smaller(IF b[i].qty = Open THEN LeftFor(b, B, i) ELSE b[i].qty,
                              LeftFor(b, B, i))

\* Entries no rule forbids; the first of them owns a free instrument.
Admissible(b, B) ==
  IF ExitActive(b, B) \/ Uncertain THEN {}
    ELSE {i \in Wanting(b, B) : symbolLots = 0 \/ b[i].side = Sign(symbolLots)}

Eligible(b, B) ==
  LET S == Admissible(b, B)
      holder == IF PreferredOwner # NoOwner \/ S = {} THEN PreferredOwner
                  ELSE b[Least(b, S)].strategy
  IN  {i \in S : b[i].strategy = holder}

\* Eligible entries that follow the policies of the first one are netted.
Alike(b, E) == {i \in E : b[i].policy = b[Least(b, E)].policy /\ b[i].qty # Open}
NettedEntries(b, E) == {i \in Alike(b, E) : b[i].qty # Unaligned}

\* Lots to buy without those to sell.
Asked(b, S, side) == Total([i \in S |-> b[i].qty], {i \in S : b[i].side = side})
Difference(b, S) == Asked(b, S, 1) - Asked(b, S, -1)

\* (faulty) the first entry of several stands for all of them.
FirstLots(b, E) ==
  Difference(b, {i \in NettedEntries(b, E) : i = Least(b, NettedEntries(b, E))})

NetLots(b, E) == Difference(b, NettedEntries(b, E))

\* The entry that carries the netted lots, and one whose size risk decides.
Carrier(b, E) ==
  IF NettedEntries(b, E) = {} \/ NetLots(b, E) = 0 THEN {}
    ELSE {Least(b, {i \in NettedEntries(b, E) : b[i].side = Sign(NetLots(b, E))})}
Alone(b, E) == {i \in E : Cardinality(E) = 1 /\ b[i].qty = Open}

\* Entries a rule forbids, or of unequal policies, or that cancel out.
RefusedEntries(b, B, E) ==
  (Wanting(b, B) \ E) \cup (E \ (NettedEntries(b, E) \cup Alone(b, E)))
    \cup (IF NetLots(b, E) = 0 THEN NettedEntries(b, E) ELSE {})

\* Exits of the wrong side, of a used up pool or of no whole number of lots.
RefusedExits(b, B) ==
  {i \in Reducing(b, B) : b[i].action = "EXIT" /\ (i \in Closers(b, B) => LeftFor(b, B, i) = 0)}

Accepted(b, B) ==
  LET E == Eligible(b, B)
  IN  {i \in Reducing(b, B) : b[i].action = "CANCEL_ENTRY"}
        \cup Served(b, B) \cup Carrier(b, E) \cup Alone(b, E)

AcceptedLots(b, B) ==
  [i \in Accepted(b, B) |->
     CASE i \in Served(b, B) -> CloseLots(b, B, i)
       [] i \in Carrier(b, Eligible(b, B)) -> Abs(NetLots(b, Eligible(b, B)))
       [] OTHER -> Open]

\* listed: the registry has the instrument.
Resolve(b, B, listed) ==
  LET E == Eligible(b, B)
  IN  IF ~listed THEN Answer({}, <<>>, B, {}, {})
        ELSE Answer(Accepted(b, B), AcceptedLots(b, B),
                    (B \ Timely(b, B)) \cup RefusedExits(b, B) \cup RefusedEntries(b, B, E),
                    IF Reducing(b, B) = {} THEN {} ELSE {o.intent : o \in Entries},
                    IF Cardinality(NettedEntries(b, E)) > 1 THEN NettedEntries(b, E) ELSE {})
----------------------------------------------------------------------------
(* OMS.approve for what was accepted, and the life of the orders.          *)

Prepared(b, i, lots) ==
  [intent |-> i, owner |-> b[i].strategy, reduces |-> b[i].action = "EXIT",
   side |-> b[i].side, reserved |-> lots, terminal |-> FALSE, known |-> TRUE]

\* An instrument loses its owner once flat with nothing unresolved.
OwnerAfter(held, os, pos) ==
  IF pos = 0 /\ \A o \in os : o.terminal /\ o.reserved = 0 /\ o.known
    THEN NoOwner ELSE held

\* A batch is arbitrated and what it accepts is prepared, all in one cycle.
Arbitrate(B, b, risk) ==
  LET a == Resolve(b, B, TRUE)
      new == {i \in a.accepted : b[i].action # "CANCEL_ENTRY"}
      made == {Prepared(b, i, IF a.lots[i] = Open THEN risk ELSE a.lots[i]) : i \in new}
      entered == {o \in made : ~o.reduces}
  IN  /\ body' = b /\ batch' = B /\ answer' = a
      /\ intentOrders' = intentOrders \cup made
      /\ symbolOwner' = IF entered = {} THEN OwnerAfter(symbolOwner, intentOrders', symbolLots)
                    ELSE Max({o.owner : o \in entered})
      /\ UNCHANGED symbolLots

Unlisted(B, b) ==
  /\ body' = b /\ batch' = B /\ answer' = Resolve(b, B, FALSE)
  /\ UNCHANGED <<symbolLots, intentOrders, symbolOwner>>

\* New identities get bodies, known ones are delivered again unchanged.
Submit(unlisted) ==
  \E n \in 0..MaxBatch :
    \E fresh \in [Cardinality(DOMAIN body) + 1..Cardinality(DOMAIN body) + n -> IntentBodies] :
      LET b == [i \in DOMAIN body \cup DOMAIN fresh |->
                  IF i \in DOMAIN body THEN body[i] ELSE fresh[i]]
      IN  /\ DOMAIN b \subseteq Ids
          /\ \E again \in SUBSET DOMAIN body :
               /\ Cardinality(again) + n \in 1..MaxBatch
               /\ IF unlisted THEN Unlisted(again \cup DOMAIN fresh, b)
                    ELSE \E risk \in 1..MaxRisk : Arbitrate(again \cup DOMAIN fresh, b, risk)

Update(o, new) ==
  /\ intentOrders' = (intentOrders \ {o}) \cup {new}
  /\ symbolOwner' = OwnerAfter(symbolOwner, intentOrders', symbolLots')
  /\ batch' = {} /\ answer' = NoAnswer
  /\ UNCHANGED body

\* A reduce-only order fills no further than the venue's position.
Fill(o) ==
  /\ o.reserved > 0
  /\ o.reduces => symbolLots # 0 /\ o.side = -Sign(symbolLots)
  /\ symbolLots' = symbolLots + o.side
  /\ Update(o, [o EXCEPT !.reserved = @ - 1, !.terminal = o.reserved = 1])

Canceled(o) ==
  /\ ~o.terminal /\ o.known
  /\ UNCHANGED symbolLots
  /\ Update(o, [o EXCEPT !.reserved = 0, !.terminal = TRUE])

\* The answer to a submit or a cancel is lost, and later found.
LoseAnswer(o) ==
  ~o.terminal /\ o.known /\ UNCHANGED symbolLots /\ Update(o, [o EXCEPT !.known = FALSE])
Recover(o) == ~o.known /\ UNCHANGED symbolLots /\ Update(o, [o EXCEPT !.known = TRUE])

ArbitrationNext ==
  \/ Submit(FALSE)
  \/ Submit(TRUE)
  \/ \E o \in intentOrders : Fill(o)
  \/ \E o \in intentOrders : Canceled(o)
  \/ \E o \in intentOrders : LoseAnswer(o)
  \/ \E o \in intentOrders : Recover(o)

ArbitrationSpec == ArbitrationInit /\ [][ArbitrationNext]_arbitrationVars
----------------------------------------------------------------------------
(* Properties.                                                             *)

ArbitrationTypeOK ==
  /\ DOMAIN body \subseteq Ids /\ \A i \in DOMAIN body : body[i] \in IntentBodies
  /\ symbolLots \in Int
  /\ IsFiniteSet(intentOrders)
  /\ \A o \in intentOrders : /\ o.intent \in Ids /\ o.reserved \in Nat
                             /\ o.terminal => o.reserved = 0
  /\ symbolOwner \in {b.strategy : b \in IntentBodies} \cup {NoOwner}
  /\ answer.accepted \cup answer.rejected \cup answer.netted \subseteq batch

\* However often intents are delivered again, one makes at most one order.
OneOrderPerIntent == \A o, p \in intentOrders : o.intent = p.intent => o = p

\* All entries of the instrument that may still fill are of the strategy that
\* owns it, which gives it up only flat and with nothing left to fill.
OneOwner ==
  /\ \A o \in Entries' : o.owner = symbolOwner'
  /\ (symbolOwner # NoOwner /\ symbolOwner' # symbolOwner) => symbolLots' = 0 /\ Entries' = {}

\* What the exits reserve together never grows beyond the position at the
\* time: exits of several strategies and batches share one closing pool.
Closing == {o \in intentOrders : o.reduces}
ClosesSharePosition == Reserved(Closing)' <= Larger(Reserved(Closing), Abs(symbolLots))

\* No entry is prepared beside an exit of the same batch or an earlier one
\* that still holds lots, while an outcome is unknown, or against a position.
EntriesYield ==
  \A o \in intentOrders' : ~o.reduces /\ o.intent \notin ConsumedIntents =>
    /\ \A p \in intentOrders' : p.reduces => p.reserved = 0
    /\ \A p \in intentOrders : p.known
    /\ symbolLots = 0 \/ o.side = Sign(symbolLots)

\* The entries accepted of a batch hold the difference of what the strategy
\* wanted to buy and to sell.
NettedToDifference ==
  \A o \in intentOrders' : ~o.reduces /\ o.intent \in answer'.netted
                           /\ o.intent \notin ConsumedIntents =>
    o.reserved * o.side = Difference(body', answer'.netted)

\* Of two strategies one owns the instrument until its orders and position are
\* gone; an intent has one order however often it comes; closes share the
\* position, entries yield to them, and opposite entries leave the difference
\* of what was asked (Arbitrator.resolve).
IntentsArbitrated ==
  /\ [](ArbitrationTypeOK /\ OneOrderPerIntent)
  /\ [][OneOwner /\ ClosesSharePosition /\ EntriesYield /\ NettedToDifference]_arbitrationVars
============================================================================
