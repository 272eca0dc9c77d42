-------------------------- MODULE MCCostPipeline --------------------------
(***************************************************************************)
(* Instances of CostPipeline for TLC.                                      *)
(***************************************************************************)
EXTENDS CostPipeline, TLC

CONSTANTS w1, n1

OneWorker == w1 :> n1
===========================================================================
