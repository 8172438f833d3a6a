------------------------------ MODULE Controls ------------------------------
(***************************************************************************)
(* What each command of the operator does to the halt latch and to the     *)
(* states of the strategies (api/commands.py, live_runner.py,              *)
(* routes/trading.py), as operators on a record [halted, run]: run is the  *)
(* set of the strategies that are RUNNING.  These flags live in the        *)
(* memory of the API process only.                                         *)
(***************************************************************************)
CONSTANT Strategies

Flags == [halted : BOOLEAN, run : SUBSET Strategies]
\* A new process: not halted, the strategies of the first four keys running
\* (the legacy ones, which trade nothing, start paused and are left out).
Fresh == [halted |-> FALSE, run |-> Strategies]

Kinds == {"KILL", "PAUSE_ALL", "RESUME_ALL", "RESET_LATCH", "PAUSE", "RESUME"}
Commands == [kind : Kinds, strategy : Strategies]

Halt(f) == [halted |-> TRUE, run |-> {}]
PauseAll(f) == [f EXCEPT !.run = {}]
ResumeAll(f) == [halted |-> FALSE, run |-> Strategies]
ResetLatch(f) == [f EXCEPT !.halted = FALSE]
Pause(f, s) == [f EXCEPT !.run = @ \ {s}]
Resume(f, s) == IF f.halted THEN f ELSE [f EXCEPT !.run = @ \union {s}]
\* toggle_strategy of the trading routes asks for no latch.
Toggle(f, s, running) == [f EXCEPT !.run = IF running THEN @ \union {s} ELSE @ \ {s}]

After(f, c) ==
  CASE c.kind = "KILL" -> Halt(f)
    [] c.kind = "PAUSE_ALL" -> PauseAll(f)
    [] c.kind = "RESUME_ALL" -> ResumeAll(f)
    [] c.kind = "RESET_LATCH" -> ResetLatch(f)
    [] c.kind = "PAUSE" -> Pause(f, c.strategy)
    [] c.kind = "RESUME" -> Resume(f, c.strategy)
=============================================================================
