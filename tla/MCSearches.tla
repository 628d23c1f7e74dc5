----------------------------- MODULE MCSearches -----------------------------
(***************************************************************************)
(* A small instance of Searches for TLC.                                   *)
(***************************************************************************)
EXTENDS Searches, TLC

Symmetry == Permutations(Candidate) \cup Permutations(Reviewer) \cup Permutations(Req)
=============================================================================
