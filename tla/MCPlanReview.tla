----------------------------- MODULE MCPlanReview -----------------------------
(***************************************************************************)
(* Small instances of PlanReview.                                          *)
(***************************************************************************)
EXTENDS PlanReview, TLC

Symmetric == Permutations(Slides) \cup Permutations(Bodies) \cup Permutations(Clients)
===============================================================================
