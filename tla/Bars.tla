-------------------------------- MODULE Bars --------------------------------
(***************************************************************************)
(* Bars built from trades by their event time and closed by a timer        *)
(* (data/bars.py).  Trades arrive in the order they became available, with *)
(* any event time; the timer's availability decides which bars close, so   *)
(* many at a time as one page holds.  A bar is named by its start.         *)
(***************************************************************************)
EXTENDS Integers, Sequences, FiniteSets

CONSTANTS Interval, Lateness, MaxOpen, Page,
          Horizon,   \* bound of event times and availability
          MaxTrades, \* bound of trades
          None
Positive == Interval \in Nat \ {0} /\ Lateness \in Nat /\ Page \in Nat \ {0} /\ MaxOpen \in Nat

VARIABLES
  open,      \* _trades: trades of bars not closed yet
  next,      \* _next: the start of the next bar to close
  now,       \* _available
  finalized, \* _has_finalized
  bars,      \* closed bars, in the order they were given out
  late,      \* trades given back as late
  told       \* trades taken so far, in the order of their arrival
vars == <<open, next, now, finalized, bars, late, told>>

StartOf(t) == (t \div Interval) * Interval
Remaining(ts) == open \ ts
TypeOK ==
  /\ open \subseteq 1 .. MaxTrades /\ late \subseteq 1 .. MaxTrades
  /\ next \in Nat \union {None} /\ now \in 0 .. Horizon /\ finalized \in BOOLEAN
  /\ \A i \in DOMAIN bars : bars[i].start \in Int /\ bars[i].trades \subseteq 1 .. MaxTrades
  /\ told \in Seq(0 .. Horizon)

Init ==
  /\ open = {} /\ next = None /\ now = 0 /\ finalized = FALSE
  /\ bars = <<>> /\ late = {} /\ told = <<>>

-----------------------------------------------------------------------------
\* apply: before the first bar closed, the first bar is the earliest heard of.
FirstStart(start) ==
  IF next = None THEN start
  ELSE IF finalized THEN next
  ELSE IF start < next THEN start ELSE next
Apply ==
  \E time \in 0 .. Horizon, available \in now .. Horizon :
    /\ Len(told) < MaxTrades
    /\ now' = available
    /\ next' = FirstStart(StartOf(time))
    /\ IF StartOf(time) < next'
       THEN late' = late \union {Len(told) + 1} /\ told' = Append(told, time) /\ UNCHANGED open
       ELSE IF Cardinality(open) >= MaxOpen
       THEN UNCHANGED <<open, late, told>>   \* BAR_BUFFER_OVERFLOW
       ELSE open' = open \union {Len(told) + 1} /\ told' = Append(told, time) /\ UNCHANGED late
    /\ UNCHANGED <<finalized, bars>>

\* finalize: the bars whose time and lateness are over, a page of them.
Due(start, available) == start + Interval + Lateness <= available
TradesOf(start) == {i \in open : StartOf(told[i]) = start}
\* The first by event time opens the bar, the last closes it; trades of one
\* time keep the order of their arrival.
Before(i, j) == told[i] < told[j] \/ (told[i] = told[j] /\ i < j)
Ends(ts) ==
  IF ts = {} THEN <<None, None>>
  ELSE << CHOOSE i \in ts : \A j \in ts \ {i} : Before(i, j), CHOOSE i \in ts : \A j \in ts \ {i} : Before(j, i) >>
Bar(start, ts) == [start |-> start, trades |-> ts, opens |-> Ends(ts)[1], closes |-> Ends(ts)[2]]
CountDue(available) == Cardinality({s \in {next + k * Interval : k \in 0 .. Horizon} : Due(s, available)})
Least(a, b) == IF a <= b THEN a ELSE b
Closed(available) == IF next = None THEN 0 ELSE Least(Page, CountDue(available))
After(available) == next + Closed(available) * Interval
Finalize ==
  \E available \in now .. Horizon :
    LET n == Closed(available)
        new == [k \in 1 .. n |-> Bar(next + (k - 1) * Interval, TradesOf(next + (k - 1) * Interval))] IN
    /\ now' = available
    /\ finalized' = (finalized \/ n > 0)
    /\ bars' = bars \o new
    /\ open' = Remaining(UNION {new[k].trades : k \in 1 .. n})
    /\ next' = IF n = 0 THEN next ELSE After(available)
    /\ UNCHANGED <<late, told>>

Next == Apply \/ Finalize
Spec == Init /\ [][Next]_vars

-----------------------------------------------------------------------------
InBars == UNION {bars[i].trades : i \in DOMAIN bars}
\* Every trade is in one open bar, in one closed bar or given back as late.
EveryTradeOnce ==
  /\ DOMAIN told = open \union InBars \union late
  /\ Cardinality(open) + Cardinality(late) + Cardinality(InBars) = Len(told)
  /\ \A i, j \in DOMAIN bars : i # j => bars[i].trades \intersect bars[j].trades = {}

\* A bar holds trades of its own interval, opens with the earliest and closes
\* with the latest of them.
BarIsItsInterval ==
  \A i \in DOMAIN bars : LET b == bars[i] IN
    \A t \in b.trades : /\ StartOf(told[t]) = b.start
                        /\ told[b.opens] <= told[t] /\ told[t] <= told[b.closes]

\* A trade is late only when its bar was closed before it came.
LateIsLate == \A t \in late : Len(bars) > 0 /\ StartOf(told[t]) <= bars[Len(bars)].start
=============================================================================
