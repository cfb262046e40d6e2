----------------------------- MODULE IrqService ------------------------------
(***************************************************************************)
(* What the interrupt path promises to the devices: each line has a        *)
(* request that is pending or not; the processor serves one request at a   *)
(* time, only a request that was pending, consumes it when service starts  *)
(* and finishes it before another one starts.                              *)
(***************************************************************************)
CONSTANTS Lines, Retractable

VARIABLES pending, serving

vars == <<pending, serving>>

TypeOK ==
  /\ pending \in SUBSET Lines
  /\ serving \in SUBSET Lines

Init ==
  /\ pending \in SUBSET Lines
  /\ serving = {}

Request(i) ==
  /\ pending' = pending \cup {i}
  /\ UNCHANGED serving

Retract(i) ==
  /\ i \in pending
  /\ pending' = pending \ {i}
  /\ UNCHANGED serving

Start(i) ==
  /\ serving = {}
  /\ i \in pending
  /\ serving' = {i}
  /\ pending' = pending \ {i}

Finish(i) ==
  /\ serving = {i}
  /\ serving' = {}
  /\ UNCHANGED pending

Next ==
  \/ \E i \in Lines : Request(i) \/ Start(i) \/ Finish(i)
  \/ \E i \in Retractable : Retract(i)

Spec == Init /\ [][Next]_vars
=============================================================================
