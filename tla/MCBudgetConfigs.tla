-------------------------- MODULE MCBudgetConfigs --------------------------
(* The instance of BudgetConfigs that TLC explores: the admin calls in    *)
(* progress are interchangeable.                                             *)
EXTENDS BudgetConfigs, TLC

MCSymmetry == Permutations(Calls)
============================================================================
