--------------------------- MODULE MCCostRecorder --------------------------
(* The instance of CostRecorder that TLC explores: its requests are
   interchangeable. *)
EXTENDS CostRecorder, TLC

Symmetry == Permutations(Requests)
===========================================================================
