----------------------------- MODULE MCDocuments -----------------------------
(***************************************************************************)
(* Small instances of Documents.                                           *)
(***************************************************************************)
EXTENDS Documents, TLC

Symmetric == Permutations(Jobs) \cup Permutations(Docs)
==============================================================================
