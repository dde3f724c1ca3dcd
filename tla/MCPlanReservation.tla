------------------------- MODULE MCPlanReservation -------------------------
(* Requests as model values; a plan with both caps, and one with a single slot
   a month. *)
EXTENDS PlanReservation

CONSTANTS r1, r2, r3

BothCaps == <<"daily", "monthly">>
MonthlyOnly == <<"monthly">>
BothLimits == [cap \in {"daily", "monthly"} |-> 2]
OneSlot == [cap \in {"monthly"} |-> 1]

=============================================================================
