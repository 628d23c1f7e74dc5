----------------------------- MODULE MCAccounts -----------------------------
(***************************************************************************)
(* Small instances of Accounts for TLC.                                    *)
(***************************************************************************)
EXTENDS Accounts, TLC

CONSTANTS u1, u2, adm, adm2, p1, p2

Operator == [st |-> "live", approved |-> TRUE, banned |-> FALSE,
             role |-> "OPERATOR", pw |-> p1]
SystemAdmin == [Operator EXCEPT !.role = "SYSTEM_ADMIN"]

\* Two operators, nobody signed in.
TwoOperators == u1 :> Operator @@ u2 :> Operator
NoAccess == {}

\* One administrator is signed in.
AdminToken == {[sub |-> adm, role |-> "SYSTEM_ADMIN"]}

\* An operator, and an administrator whose account was just deleted: the access
\* token still works until it expires, and nobody signs in as adm any more.
OperatorAndLeavingAdmin ==
    u1 :> Operator @@ adm :> [SystemAdmin EXCEPT !.st = "deleted"]

\* An empty database.
Nobody == u1 :> NoUser @@ adm :> NoUser

\* Two administrators, both signed in.
TwoAdmins == adm :> SystemAdmin @@ adm2 :> SystemAdmin
AdminTokens == {[sub |-> a, role |-> "SYSTEM_ADMIN"] : a \in {adm, adm2}}

\* Request slots, families, tokens and links are interchangeable.
Symmetry == Permutations(Req) \cup Permutations(Family) \cup Permutations(Token)
               \cup Permutations(OneTime)
=============================================================================
