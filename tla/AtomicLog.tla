------------------------------ MODULE AtomicLog ------------------------------
(***************************************************************************)
(* What the engine and its store promise together: a history that only     *)
(* grows, by one whole cycle at a time, and a published state that is      *)
(* always the one this history leads to, or none while the engine is down, *)
(* latched or not recovered.                                               *)
(***************************************************************************)
EXTENDS Naturals, Sequences

CONSTANTS StateOf(_),   \* the state a history leads to
          IsCycle(_)    \* one input and what was derived from it

VARIABLES history, published

Shows(p, h) == p = <<>> \/ p = <<StateOf(h)>>

LogInit == history = <<>> /\ Shows(published, history)

Extend ==
  \E h \in {history'} :
    /\ Len(h) > Len(history)
    /\ SubSeq(h, 1, Len(history)) = history
    /\ IsCycle(SubSeq(h, Len(history) + 1, Len(h)))

LogNext ==
  /\ Extend \/ UNCHANGED history
  /\ \E h \in {history'}, p \in {published'} : Shows(p, h)

LogSpec == LogInit /\ [][LogNext]_<<history, published>>
============================================================================
