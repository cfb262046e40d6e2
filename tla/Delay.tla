-------------------------------- MODULE Delay --------------------------------
(***************************************************************************)
(* What PIT_8254_Wait promises its caller: time passes in ticks, and a     *)
(* call returns only when the ticks it asked for have passed since the     *)
(* call.                                                                   *)
(***************************************************************************)
EXTENDS Naturals

CONSTANTS Delays, Uptime    \* the delays asked for; the length of a run in ticks

VARIABLES now, waiting, deadline

vars == <<now, waiting, deadline>>

Init ==
  /\ now = 0
  /\ waiting = FALSE
  /\ deadline = 0

Tick ==
  /\ now < Uptime
  /\ now' = now + 1
  /\ UNCHANGED <<waiting, deadline>>

Call(ticks) ==
  /\ ~waiting
  /\ waiting' = TRUE
  /\ deadline' = now + ticks
  /\ UNCHANGED now

Return ==
  /\ waiting
  /\ now >= deadline
  /\ waiting' = FALSE
  /\ UNCHANGED <<now, deadline>>

Next == Tick \/ Return \/ \E ticks \in Delays : Call(ticks)

Spec == Init /\ [][Next]_vars
=============================================================================
