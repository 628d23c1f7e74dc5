------------------------------ MODULE MCGuards ------------------------------
(***************************************************************************)
(* Guards with three call sites: two of a short window, one of a long one, *)
(* and a map that is full with two keys.                                   *)
(***************************************************************************)
EXTENDS Guards, TLC

MCKey == {"burst", "burst2", "account"}
MCMax == [k \in Key |-> IF k = "account" THEN 2 ELSE 1]
MCWindow == [k \in Key |-> IF k = "account" THEN 3 ELSE 1]

Load(n, m) == [checks |-> n, calls |-> m, restarts |-> 1]
MCLoads == {Load(6, 0), Load(2, 2), Load(0, 4)}

Symmetry == Permutations(Provider) \cup Permutations(Call)
=============================================================================
