----------------------------- MODULE Delivery -----------------------------
(***************************************************************************)
(* What the gateway promises of every committed command, whatever crashes, *)
(* restarts, revoked permits and failed commits happen: it is queued once, *)
(* then either handed to the transport once or withdrawn, and both are     *)
(* final.  A withdrawn command was never sent, a sent one is never         *)
(* withdrawn, and nothing is sent twice.                                   *)
(***************************************************************************)
CONSTANT Commands

VARIABLE delivery    \* [Commands -> DeliveryState]

DeliveryInit == delivery = [c \in Commands |-> "none"]

Enqueue(c) ==
  /\ delivery[c] = "none"
  /\ delivery' = [delivery EXCEPT ![c] = "queued"]

Send(c) ==
  /\ delivery[c] = "queued"
  /\ delivery' = [delivery EXCEPT ![c] = "sent"]

\* Ending an order withdraws the cancels queued behind it in the same cycle.
Withdraw(S) ==
  /\ \A c \in S : delivery[c] = "queued"
  /\ delivery' = [c \in Commands |-> IF c \in S THEN "withdrawn" ELSE delivery[c]]

DeliveryNext ==
  \/ \E c \in Commands : Enqueue(c) \/ Send(c)
  \/ \E S \in SUBSET Commands : Withdraw(S)

DeliverySpec == DeliveryInit /\ [][DeliveryNext]_delivery
============================================================================
