------------------------ MODULE MCBudgetReservation ------------------------
(* Model values for three chat completions of one project. *)
EXTENDS BudgetReservation, TLC

CONSTANTS r1, r2, r3

Alike == Permutations(Requests)

=============================================================================
