--------------------------- MODULE MCBudgetStop ---------------------------
(* Small instances of BudgetStop for TLC.                                  *)
EXTENDS BudgetStop, TLC

CONSTANTS c1, r1, r2, i1, i2
=============================================================================
