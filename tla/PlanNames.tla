------------------------------ MODULE PlanNames ------------------------------
(***************************************************************************)
(* The names of plans: Catalog edits and sells them, Throughput meters by  *)
(* what they offer.  A value that is not there, such as a deleted row, is  *)
(* None.                                                                   *)
(***************************************************************************)
CONSTANTS Plan, None
=============================================================================
