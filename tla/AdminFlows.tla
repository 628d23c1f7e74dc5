----------------------------- MODULE AdminFlows -----------------------------
(***************************************************************************)
(* Registration (auth.rs) and the user-administration handlers of          *)
(* server/src/admin.rs, over the same tables and request slots as          *)
(* AuthFlows.  update_user_flags is a SELECT followed by an UPDATE, so a   *)
(* handler that calls it can be overtaken between the two; so can every    *)
(* handler between its last-administrator check and its write.             *)
(***************************************************************************)
EXTENDS AuthFlows

CONSTANT SeedUser   \* the account ADMIN_USER_CODE names

ASSUME SeedAssumption == SeedUser \in User

-----------------------------------------------------------------------------
\* require_admin: some unexpired access token with an administrating role.
\* The role is the one the token was signed with; the users table is not read.
require_admin == \E a \in access : can_administer_users(a.role)

Admin(op, u) == [Idle EXCEPT !.op = op, !.usr = u]

\* Mutation: approval does not grant the default role.
PatchWithoutRole(rq) ==
    CASE rq.op = "ban"   -> [approved |-> None, banned |-> TRUE, role |-> None]
      [] rq.op = "unban" -> [approved |-> None, banned |-> FALSE, role |-> None]
      [] rq.op = "role"  -> [approved |-> None, banned |-> None, role |-> rq.role]
      [] OTHER           -> [approved |-> TRUE, banned |-> FALSE, role |-> None]

\* What each caller of update_user_flags patches; None leaves a flag alone.
Patch(rq) ==
    CASE rq.op = "ban"   -> [approved |-> None, banned |-> TRUE, role |-> None]
      [] rq.op = "unban" -> [approved |-> None, banned |-> FALSE, role |-> None]
      [] rq.op = "role"  -> [approved |-> None, banned |-> None, role |-> rq.role]
      [] OTHER           -> [approved |-> TRUE, banned |-> FALSE,
                             role |-> DEFAULT_APPROVED_ROLE]

\* The part of would_remove_last_admin that looks at the target only.
MightBeLastAdmin(row) == row.role = SYSTEM_ADMIN /\ ~row.banned

-----------------------------------------------------------------------------
\* The statement that ban_user and delete_user_route go to after loading the
\* target: the count, if it may be the last administrator, or else the write.
\* A failed load skips the check.
LastAdminCheck(u, write) ==
    {IF Loads(users, u) /\ MightBeLastAdmin(users[u]) THEN "count" ELSE write}
        \cup (IF "db" \in Faults THEN {write} ELSE {})

\* ban_user, up to the last-administrator check.
BanStart(r, u) ==
    /\ Receive(r, "ban")
    /\ require_admin
    /\ Loads(users, u)
    /\ \E pc \in LastAdminCheck(u, "flags.load") :
          Start(r, [Admin("ban", u) EXCEPT !.pc = pc])
    /\ UNCHANGED <<db, claims, access>>

\* delete_user_route, likewise; an account already deleted is written again.
DeleteStart(r, u) ==
    /\ Receive(r, "delete")
    /\ require_admin
    /\ RowExists(users[u])
    /\ \E pc \in LastAdminCheck(u, "delete.write") :
          Start(r, [Admin("delete", u) EXCEPT !.pc = pc])
    /\ UNCHANGED <<db, claims, access>>

\* change_role_route.  Unlike a ban, a demotion is checked for a banned
\* administrator too.
DemotesAdmin(row, role) == row.role = SYSTEM_ADMIN /\ role # SYSTEM_ADMIN
ChangeRoleStart(r, u, role) ==
    /\ Receive(r, "role")
    /\ require_admin
    /\ role \in ASSIGNABLE_ROLES
    /\ Loads(users, u)
    /\ users[u].role # role
    /\ Start(r, [Admin("role", u) EXCEPT
             !.role = role,
             !.pc = IF DemotesAdmin(users[u], role) THEN "count" ELSE "flags.load"])
    /\ UNCHANGED <<db, claims, access>>

\* unban_user and approve_user call update_user_flags at once.
FlagsStart(r, op, u) ==
    /\ op \in {"unban", "approve"}
    /\ Receive(r, op)
    /\ require_admin
    /\ Start(r, [Admin(op, u) EXCEPT !.pc = "flags.load"])
    /\ UNCHANGED <<db, claims, access>>

\* Mutation: off by one.
RefusedAtZero(op) ==
    IF op = "seed_admin" THEN count_active_system_admins(users) > 0
                         ELSE count_active_system_admins(users) < 1

\* count_active_system_admins and what each caller makes of the answer; an
\* error counts as "not the last one" (as "none" for seed_admin).
RefusedByCount(op) ==
    IF op = "seed_admin" THEN count_active_system_admins(users) > 0
                         ELSE count_active_system_admins(users) <= 1
AfterCount(op) == CASE op = "seed_admin" -> "seed.write"
                    [] op = "delete"     -> "delete.write"
                    [] OTHER             -> "flags.load"
CountAdmins(r) ==
    /\ At(r, "count")
    /\ \/ RefusedByCount(req[r].op) /\ Done(r)
       \/ ~RefusedByCount(req[r].op) /\ Goto(r, AfterCount(req[r].op))
       \/ "db" \in Faults /\ Goto(r, AfterCount(req[r].op))
    /\ UNCHANGED <<db, claims, access>>

\* update_user_flags: the SELECT, then the UPDATE.
FlagsLoad(r) ==
    /\ At(r, "flags.load")
    /\ IF Loads(users, req[r].usr)
       THEN Start(r, [req[r] EXCEPT !.pc = "flags.write", !.snap = users[req[r].usr]])
       ELSE Done(r)
    /\ UNCHANGED <<db, claims, access>>

FlagsWrite(r) ==
    /\ At(r, "flags.write")
    /\ users' = update_user_flags(users, req[r].usr, req[r].snap, Patch(req[r]))
    /\ IF req[r].op \in {"ban", "role"} THEN Goto(r, "revoke_all") ELSE Done(r)
    /\ UNCHANGED <<sessions, oneTime, claims, access>>

DeleteWrite(r) ==
    /\ At(r, "delete.write")
    /\ users' = soft_delete_user(users, req[r].usr)
    /\ IF RowExists(users[req[r].usr]) THEN Goto(r, "delete.revoke") ELSE Done(r)
    /\ UNCHANGED <<sessions, oneTime, claims, access>>

DeleteRevoke(r) ==
    /\ At(r, "delete.revoke")
    /\ BestEffort(revoke_all_sessions_for_user(sessions, req[r].usr))
    /\ Done(r)
    /\ UNCHANGED <<users, oneTime, claims, access>>

\* reject_user removes the row whatever its state and leaves its sessions.
reject_user(u) ==
    /\ "reject" \in Ops
    /\ require_admin
    /\ users' = delete_user(users, u)
    /\ UNCHANGED <<sessions, oneTime, claims, access, req>>

\* update_user_route: the password column is written back from the row read
\* at the start unless the administrator supplied a new one.
UpdateLoad(r, u, p) ==
    /\ Receive(r, "update")
    /\ require_admin
    /\ Loads(users, u)
    /\ Start(r, [Admin("update", u) EXCEPT !.pc = "update.write",
                 !.snap = users[u], !.pw = p])
    /\ UNCHANGED <<db, claims, access>>

UpdateWrite(r) ==
    /\ At(r, "update.write")
    /\ users' = update_user_password(users, req[r].usr,
                                     Patched(req[r].pw, req[r].snap.pw))
    /\ Done(r)
    /\ UNCHANGED <<sessions, oneTime, claims, access>>

-----------------------------------------------------------------------------
\* create_user_route.
create_user_route(u, p, role) ==
    /\ "create_user" \in Ops
    /\ require_admin
    /\ role \in {SYSTEM_ADMIN, DEFAULT_APPROVED_ROLE}
    /\ CanInsert(users, u)
    /\ users' = create_user(users, u, p, role, TRUE)
    /\ UNCHANGED <<sessions, oneTime, claims, access, req>>

\* register, then sign_approval_token for the link mailed to the administrator.
Register(r, u, p) ==
    /\ Receive(r, "register")
    /\ CanInsert(users, u)
    /\ users' = create_user(users, u, p, PENDING, FALSE)
    /\ Start(r, [Admin("register", u) EXCEPT !.pc = "register.sign"])
    /\ UNCHANGED <<sessions, oneTime, claims, access>>

sign_approval_token(r) ==
    /\ At(r, "register.sign")
    /\ \E k \in OneTime :
          /\ FreshOneTime(k)
          /\ oneTime' = create_approval_token(oneTime, k, req[r].usr,
                                              "registration_approval")
    /\ Done(r)
    /\ UNCHANGED <<users, sessions, claims, access>>

\* quick_approve and quick_reject: the holder of the link decides, with no
\* access token and no look at the account.
LinkFind(r, op, k) ==
    /\ op \in {"quick_approve", "quick_reject"}
    /\ Receive(r, op)
    /\ Usable(oneTime, k, "registration_approval")
    /\ Start(r, [Admin(op, oneTime[k].usr) EXCEPT !.pc = "link.consume", !.otk = k])
    /\ UNCHANGED <<db, claims, access>>

\* Mutation: whether the UPDATE changed a row is not looked at.
LinkConsumeUnchecked(r) ==
    /\ At(r, "link.consume")
    /\ oneTime' = consume_approval_token(oneTime, req[r].otk)
    /\ IF req[r].op = "quick_approve" THEN Goto(r, "flags.load")
       ELSE Goto(r, "reject.write")
    /\ UNCHANGED <<users, sessions, claims, access>>

LinkConsume(r) ==
    /\ At(r, "link.consume")
    /\ oneTime' = consume_approval_token(oneTime, req[r].otk)
    /\ IF ~Consumable(oneTime, req[r].otk) THEN Done(r)
       ELSE IF req[r].op = "quick_approve" THEN Goto(r, "flags.load")
       ELSE Goto(r, "reject.write")
    /\ UNCHANGED <<users, sessions, claims, access>>

LinkReject(r) ==
    /\ At(r, "reject.write")
    /\ users' = delete_user(users, req[r].usr)
    /\ Done(r)
    /\ UNCHANGED <<sessions, oneTime, claims, access>>

\* seed_admin, called with the seed token; BOOTSTRAP_ENABLED is unset.
SeedStart(r, p) ==
    /\ Receive(r, "seed_admin")
    /\ Start(r, [Admin("seed_admin", SeedUser) EXCEPT !.pc = "count", !.pw = p])
    /\ UNCHANGED <<db, claims, access>>

SeedWrite(r) ==
    /\ At(r, "seed.write")
    /\ users' = IF CanInsert(users, SeedUser)
                THEN create_user(users, SeedUser, req[r].pw, SYSTEM_ADMIN, TRUE)
                ELSE users
    /\ Done(r)
    /\ UNCHANGED <<sessions, oneTime, claims, access>>

\* A statement whose error ends the handler fails.
AdminFails(r) ==
    /\ "db" \in Faults
    /\ req[r].pc \in AdminPC \ {"count", "delete.revoke"}
    /\ Done(r)
    /\ UNCHANGED <<db, claims, access>>

-----------------------------------------------------------------------------
AdminContinue(r) ==
    \/ CountAdmins(r)
    \/ FlagsLoad(r)
    \/ FlagsWrite(r)
    \/ DeleteWrite(r)
    \/ DeleteRevoke(r)
    \/ UpdateWrite(r)
    \/ sign_approval_token(r)
    \/ LinkConsume(r)
    \/ LinkReject(r)
    \/ SeedWrite(r)

AdminStart ==
    \/ \E r \in Req, u \in User : BanStart(r, u)
    \/ \E r \in Req, u \in User : DeleteStart(r, u)
    \/ \E r \in Req, u \in User, role \in RoleInputs : ChangeRoleStart(r, u, role)
    \/ \E r \in Req, u \in User, op \in Op : FlagsStart(r, op, u)
    \/ \E u \in User : reject_user(u)
    \/ \E r \in Req, u \in User, p \in Password \cup {None} : UpdateLoad(r, u, p)
    \/ \E u \in User, p \in Password, role \in RoleInputs : create_user_route(u, p, role)
    \/ \E r \in Req, u \in User, p \in Password : Register(r, u, p)
    \/ \E r \in Req, k \in OneTime, op \in Op : LinkFind(r, op, k)
    \/ \E r \in Req, p \in Password : SeedStart(r, p)
    \/ \E r \in Req : AdminFails(r)
=============================================================================
