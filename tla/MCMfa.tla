------------------------------- MODULE MCMfa -------------------------------
(***************************************************************************)
(* Small instances of Mfa for TLC.                                         *)
(***************************************************************************)
EXTENDS Mfa, TLC

\* Slots and random values are interchangeable.
Symmetry == Permutations(Req) \cup Permutations(Secret) \cup Permutations(EmailCode)
               \cup Permutations(Batch)
=============================================================================
