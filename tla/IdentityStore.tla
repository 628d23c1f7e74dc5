--------------------------- MODULE IdentityStore ---------------------------
(***************************************************************************)
(* The users table and the SQL statements of server/src/db/identity.rs,    *)
(* each as an operator from table to table (or to a result).  A statement  *)
(* is the unit of atomicity; the handlers of AuthFlows and AdminFlows      *)
(* interleave between statements.                                          *)
(*                                                                         *)
(* A user is its row id; its user_code is unique, so the two are one.      *)
(* Names, e-mail and national id play no part in control and are left out. *)
(***************************************************************************)
EXTENDS Integers, FiniteSets

CONSTANTS
    User,      \* row ids of the users table
    Password,  \* passwords; bcrypt's verify is equality of the hashed value
    None       \* SQL NULL, Rust None

ASSUME NoneAssumption == None \notin User /\ None \notin Password

-----------------------------------------------------------------------------
\* Roles (roles.rs) and the one permission the handlers here ask for.
PENDING == "pending"
SYSTEM_ADMIN == "SYSTEM_ADMIN"
DEFAULT_APPROVED_ROLE == "OPERATOR"
ASSIGNABLE_ROLES ==
    {"SYSTEM_ADMIN", "SECURITY_ADMIN", "OPERATOR", "REVIEWER", "AUDITOR"}
Role == ASSIGNABLE_ROLES \cup {PENDING}

ASSUME NoneIsNoFlag == None \notin Role /\ None \notin BOOLEAN

can_administer_users(role) == role \in {"SYSTEM_ADMIN", "SECURITY_ADMIN"}

-----------------------------------------------------------------------------
\* "absent": never created.  "live": deleted_at IS NULL.  "deleted": soft
\* deleted.  "gone": the row was physically removed; its id never returns.
UserRow == [st       : {"absent", "live", "deleted", "gone"},
            approved : BOOLEAN,
            banned   : BOOLEAN,
            role     : Role,
            pw       : Password \cup {None}]

NoUser == [st |-> "absent", approved |-> FALSE, banned |-> FALSE,
           role |-> PENDING, pw |-> None]

RowExists(row) == row.st \in {"live", "deleted"}

\* load_user_by_id / load_user_by_code find the row only when it is not
\* soft-deleted.
Loads(us, u) == us[u].st = "live"

count_active_system_admins(us) ==
    Cardinality({u \in User : /\ us[u].role = SYSTEM_ADMIN
                              /\ ~us[u].banned
                              /\ us[u].st = "live"})

\* INSERT; the unique constraint on user_code refuses a second row.
CanInsert(us, u) == us[u].st = "absent"
create_user(us, u, p, role, approved) ==
    [us EXCEPT ![u] = [st |-> "live", approved |-> approved, banned |-> FALSE,
                       role |-> role, pw |-> p]]

\* The UPDATE of update_user_flags.  It writes all three flags: those that
\* the caller patches, and for the others what its earlier SELECT (seen)
\* returned.  The WHERE clause names only the id, so a soft-deleted row is
\* written too.
Patched(new, old) == IF new = None THEN old ELSE new
update_user_flags(us, u, seen, patch) ==
    IF RowExists(us[u])
    THEN [us EXCEPT ![u].approved = Patched(patch.approved, seen.approved),
                    ![u].banned   = Patched(patch.banned, seen.banned),
                    ![u].role     = Patched(patch.role, seen.role)]
    ELSE us

\* The UPDATE of update_user_password, and the password column of
\* update_user_profile.
update_user_password(us, u, p) ==
    IF RowExists(us[u]) THEN [us EXCEPT ![u].pw = p] ELSE us

soft_delete_user(us, u) ==
    IF us[u].st = "live" THEN [us EXCEPT ![u].st = "deleted"] ELSE us

\* DELETE FROM users WHERE id: whatever the row's state.
delete_user(us, u) ==
    IF RowExists(us[u]) THEN [us EXCEPT ![u] = [NoUser EXCEPT !.st = "gone"]]
    ELSE us
=============================================================================
