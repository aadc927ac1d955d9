------------------------------- MODULE MCStudio -------------------------------
(***************************************************************************)
(* Small instances of Studio.                                              *)
(***************************************************************************)
EXTENDS Studio, TLC

Symmetric == Permutations(Jobs) \cup Permutations(Slides) \cup Permutations(Reviewers)
===============================================================================
