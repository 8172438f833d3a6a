---------------------------- MODULE MC_OrderDesk ----------------------------
(***************************************************************************)
(* A small desk for TLC: the orders it may see, and the workloads, one of  *)
(* which a behaviour has.                                                  *)
(***************************************************************************)
EXTENDS OrderDesk

\* 1 buys two lots; 2 and 3 sell one each of them, 4 sells both; 5 buys one
\* lot in the place of 1; 6 is an entry of a rival that sells one.
DeskQty == [o \in Orders |-> IF o \in {1, 4} THEN 2 ELSE 1]
DeskSide == [o \in Orders |-> IF o \in {1, 5} THEN "BUY" ELSE "SELL"]
DeskReduceOnly == [o \in Orders |-> o \in {2, 3, 4}]
DeskOwner == [o \in Orders |-> IF o = 6 THEN "b" ELSE "a"]
DeskReplaces == [o \in Orders |-> IF o = 5 THEN 1 ELSE o]

Asked(os, cancels, fills) == [orders |-> os, cancels |-> cancels, external |-> fills]

\* One order that is canceled twice; an entry and an exit; two exits; an exit
\* of the whole position that a fill of no known order takes away; a
\* replacement; two strategies on one instrument.
EveryLoad ==
  {Asked({1}, 2, 0), Asked({1, 2}, 1, 0), Asked({1, 2, 3}, 0, 0), Asked({1, 4}, 1, 1),
   Asked({1, 5}, 1, 0), Asked({1, 6}, 1, 0)}

\* One order that is canceled once.
OneOrder == {Asked({1}, 1, 0)}
=============================================================================
