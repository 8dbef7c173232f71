----------------------------- MODULE MCLegPlan -----------------------------
(* A gate leg; a once-only timing leg that needs the gate's PASS; a generic *)
(* leg prepared from the second one.                                       *)
EXTENDS LegPlan

GatePlan ==
  <<[needs |-> 0, needs_pass |-> 0, prep |-> 0, once |-> FALSE, scored |-> TRUE],
    [needs |-> 1, needs_pass |-> 1, prep |-> 0, once |-> TRUE, scored |-> TRUE],
    [needs |-> 0, needs_pass |-> 0, prep |-> 2, once |-> FALSE, scored |-> FALSE]>>
=============================================================================
