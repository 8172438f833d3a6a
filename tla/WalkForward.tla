----------------------------- MODULE WalkForward -----------------------------
(***************************************************************************)
(* research/labels.py, splits.py, datasets.py and train.py: candidate      *)
(* decisions are labelled from later quotes, the rows that could be are    *)
(* split into forward folds and a holdout, and a model is fitted.          *)
(*                                                                         *)
(* A label is the times of the two quotes it was made from, a model is the *)
(* rows it was fitted, tuned and scored on.  The caller is external: it    *)
(* splits the times of the rows that were kept.                            *)
(***************************************************************************)
EXTENDS Integers, Sequences, FiniteSets, SequencesExt, FiniteSetsExt, Lots

CONSTANTS Counts,        \* candidates
          Gaps,          \* between decisions
          Missing,       \* how many instants may be without a quote
          Horizons, Uncertainties,
          Latency,       \* latency_ns
          Staleness,     \* staleness_limit
          FoldCount      \* n_folds

ASSUME WalkForwardAssumption ==
  /\ Counts \subseteq Nat \ {0} /\ Gaps \subseteq Nat /\ Missing \in Nat
  /\ Horizons \subseteq Nat /\ Uncertainties \subseteq Nat
  /\ Latency \in Nat /\ Staleness \in Nat /\ FoldCount \in Nat \ {0}

VARIABLES times,    \* decisions, in order
          quotes,   \* instants with a quote
          spec,     \* label horizon and delivery uncertainty
          rows,     \* what was labelled
          folds,
          model     \* row indices that fitted, tuned and scored it

walkForwardVars == <<times, quotes, spec, rows, folds, model>>

Unfitted == [algorithm |-> "none", fitted |-> {}, tuned |-> {}, scored |-> {}]

WalkForwardInit ==
  /\ \E n \in Counts : \E gaps \in [1 .. n -> Gaps] :
       times = [k \in 1 .. n |-> SumTo(gaps, k)]
  /\ spec \in [horizon : Horizons, uncertainty : Uncertainties]
  /\ \E gone \in UNION {kSubset(k, 0 .. Last(times) + spec.horizon) : k \in 0 .. Missing} :
       quotes = (0 .. Last(times) + spec.horizon) \ gone
  /\ rows = <<>> /\ folds = <<>> /\ model = Unfitted
----------------------------------------------------------------------------
(* Labels.                                                                 *)

\* get_price_at: the last quote at or before, unless it is stale; -1 is None.
QuoteAt(target) ==
  LET before == {q \in quotes : q <= target} IN
  IF before = {} \/ target - Max(before) > Staleness THEN -1 ELSE Max(before)

Row == [decision : Nat, entry : Int, exit : Int, dropped : BOOLEAN]

Labelled(t) ==
  LET entry == QuoteAt(t + Latency)
      exit  == QuoteAt(t + spec.horizon)
  IN  [decision |-> t, entry |-> entry, exit |-> exit, dropped |-> entry = -1 \/ exit = -1]

Label ==
  /\ rows = <<>>
  /\ rows' = [k \in DOMAIN times |-> Labelled(times[k])]
  /\ UNCHANGED <<times, quotes, spec, folds, model>>

\* DatasetBuilder.build keeps the rows that were not dropped.
ValidRows ==
  InTurn([k \in DOMAIN rows |->
             [kept \in Seq(Row) |-> IF rows[k].dropped THEN kept ELSE Append(kept, rows[k])]],
          <<>>, Len(rows))
----------------------------------------------------------------------------
(* Splits.                                                                 *)

\* (faulty) a row whose label ends where validation begins is kept.
KeptThrough(t, start) == t <= start - (spec.horizon + spec.uncertainty)

\* What is not purged.
Kept(t, start) == t < start - (spec.horizon + spec.uncertainty)

\* The first row of fold i's validation; rows count from one.
StartOfValidation(first, size, i) == first + (i - 1) * size + 1

\* Rows 1 .. dev are for development, the rest is the holdout.
FoldOf(rowTimes, dev, i) ==
  LET half    == dev \div 2
      first   == IF half = 0 THEN 1 ELSE half
      size    == (dev - first) \div FoldCount
      from    == StartOfValidation(first, size, i)
      through == IF i < FoldCount THEN from + size - 1 ELSE dev
      start   == rowTimes[from]
      earlier == 1 .. first + (i - 1) * size
  IN  [train   |-> {j \in earlier : Kept(rowTimes[j], start)},
       purged  |-> {j \in earlier : ~Kept(rowTimes[j], start)},
       val     |-> from .. through,
       holdout |-> dev + 1 .. Len(rowTimes),
       start   |-> start]

\* Too few rows make no folds.
FoldsOf(rowTimes) ==
  LET dev   == (4 * Len(rowTimes)) \div 5
      half  == dev \div 2
      first == IF half = 0 THEN 1 ELSE half
  IN  IF dev < FoldCount + 2 \/ dev - first < FoldCount THEN <<>>
      ELSE [i \in 1 .. FoldCount |-> FoldOf(rowTimes, dev, i)]

Split ==
  /\ rows # <<>> /\ folds = <<>> /\ model = Unfitted
  /\ folds' = FoldsOf([k \in DOMAIN ValidRows |-> ValidRows[k].decision])
  /\ folds' # <<>>
  /\ UNCHANGED <<times, quotes, spec, rows, model>>
----------------------------------------------------------------------------
(* Training.                                                               *)

AllRows == DOMAIN ValidRows
Fitted(algorithm, fitted, tuned, scored) ==
  model' = [algorithm |-> algorithm, fitted |-> fitted, tuned |-> tuned, scored |-> scored]

\* The first fold, or every row when there are no folds.  LightGBM refuses to
\* fit no rows.
TrainLightgbm ==
  /\ rows # <<>> /\ ValidRows # <<>> /\ model = Unfitted
  /\ IF folds = <<>> THEN Fitted("lightgbm", AllRows, AllRows, AllRows)
     ELSE folds[1].train # {} /\ Fitted("lightgbm", folds[1].train, folds[1].val, folds[1].val)
  /\ UNCHANGED <<times, quotes, spec, rows, folds>>

TrainLogistic ==
  /\ rows # <<>> /\ ValidRows # <<>> /\ model = Unfitted
  /\ Fitted("logistic", AllRows, {}, AllRows)
  /\ UNCHANGED <<times, quotes, spec, rows, folds>>

WalkForwardNext == Label \/ Split \/ TrainLightgbm \/ TrainLogistic

WalkForwardSpec == WalkForwardInit /\ [][WalkForwardNext]_walkForwardVars
----------------------------------------------------------------------------
(* Properties.                                                             *)

\* What a label of a training row knows, with the uncertainty of delivery,
\* ends before validation begins, however irregular the times
\* (PurgedWalkForward.split).
NoLabelReachesValidation ==
  \A i \in DOMAIN folds : \A j \in folds[i].train, k \in folds[i].val :
    LET trained == ValidRows[j].decision + spec.horizon + spec.uncertainty
    IN  trained < ValidRows[k].decision

\* Validation segments follow one another up to the holdout with no row in
\* two of them and none left out, each behind all it was trained on
\* (PurgedWalkForward.split).
SegmentsTile ==
  folds # <<>> =>
    LET seen == UNION {folds[i].val : i \in DOMAIN folds} IN
    /\ \A i, j \in DOMAIN folds : i # j => folds[i].val \cap folds[j].val = {}
    /\ \A i \in DOMAIN folds :
         /\ folds[i].val # {}
         /\ \A a \in folds[i].train \union folds[i].purged, b \in folds[i].val : a < b
         /\ (folds[i].train \union folds[i].val) \cap folds[i].holdout = {}
         /\ folds[i].train \union folds[i].purged
              = AllRows \ (folds[i].holdout
                           \union UNION {folds[j].val : j \in i .. Len(folds)})
    /\ AllRows = folds[1].train \union folds[1].purged \union seen \union folds[1].holdout

\* No label is made from a quote after its horizon or one that is stale, and a
\* row is dropped only when there is no other (LabelBuilder.build).
LabelsFromTheirTime ==
  \A k \in DOMAIN rows :
    LET r == rows[k]
        usable(at) == {q \in quotes : q <= at /\ at - q <= Staleness}
    IN  /\ ~r.dropped => /\ r.entry \in usable(r.decision + Latency)
                         /\ r.exit \in usable(r.decision + spec.horizon)
                         /\ \A q \in usable(r.decision + spec.horizon) : q <= r.exit
        /\ r.dropped => \/ usable(r.decision + Latency) = {}
                        \/ usable(r.decision + spec.horizon) = {}

\* What a label of a training row knows ends before validation begins; the
\* segments tile the rows; no label is made from a quote after its horizon or
\* a stale one (PurgedWalkForward.split, LabelBuilder.build).
FoldsApart == NoLabelReachesValidation /\ SegmentsTile /\ LabelsFromTheirTime
=============================================================================
