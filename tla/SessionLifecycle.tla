-------------------------- MODULE SessionLifecycle --------------------------
(***************************************************************************)
(* What db/session.rs promises of the sessions table, whatever handlers    *)
(* run and however they interleave: a session is opened once for one       *)
(* account; while it is active its token may be replaced, always by one    *)
(* that no session has; a revoked session never changes again and never    *)
(* comes back; a row disappears only after it has expired.                 *)
(***************************************************************************)
CONSTANTS Family, Token, User, None

VARIABLE table

Free == [st |-> "free", usr |-> None, hash |-> None, expired |-> FALSE]

Init == table = [f \in Family |-> Free]

Unused(t) == \A f \in Family : table[f].hash # t

Open(f, u, t) ==
    /\ table[f] = Free
    /\ Unused(t)
    /\ table' = [table EXCEPT ![f] = [st |-> "active", usr |-> u, hash |-> t,
                                      expired |-> FALSE]]

Rotate(f, t) ==
    /\ table[f].st = "active"
    /\ Unused(t)
    /\ table' = [table EXCEPT ![f].hash = t, ![f].expired = FALSE]

Revoke(F) ==
    /\ \A f \in F : table[f].st = "active"
    /\ table' = [f \in Family |-> IF f \in F THEN [table[f] EXCEPT !.st = "revoked"]
                                  ELSE table[f]]

Expire(f) ==
    /\ table[f].st # "free"
    /\ table' = [table EXCEPT ![f].expired = TRUE]

Purge ==
    table' = [f \in Family |-> IF table[f].expired THEN Free ELSE table[f]]

Next ==
    \/ \E f \in Family, u \in User, t \in Token : Open(f, u, t)
    \/ \E f \in Family, t \in Token : Rotate(f, t)
    \/ \E F \in SUBSET Family : Revoke(F)
    \/ \E f \in Family : Expire(f)
    \/ Purge

Spec == Init /\ [][Next]_table
=============================================================================
