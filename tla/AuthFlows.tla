----------------------------- MODULE AuthFlows -----------------------------
(***************************************************************************)
(* The sign-in, refresh, sign-out and password-reset handlers of           *)
(* server/src/auth.rs, with the retention job of main.rs and the clock.    *)
(*                                                                         *)
(* A request slot r runs one handler at a time.  A handler awaits the      *)
(* database between two statements, so each statement (with the local code *)
(* that follows it) is one action and req[r].pc names the next one.  A     *)
(* handler that refuses before its first write changes nothing and is not  *)
(* an action: its conditions are the guard of the one that goes on.        *)
(*                                                                         *)
(* Families and tokens stand for random uuids and jtis.  A name may be     *)
(* given out again only when nothing in the system still mentions it, so a *)
(* finite set of names models an endless supply.                           *)
(***************************************************************************)
EXTENDS SessionStore

CONSTANTS
    Req,        \* request slots: how many handlers may be in flight at once
    Ops,        \* the endpoints that receive requests in this instance
    Faults,     \* "db": a statement whose error the handler tolerates may
                \*   fail; "abort": a handler may be dropped at an await
                \*   (client gone, process restarted)
    RoleInputs, \* the roles that administrators assign in this instance
    InitUsers,  \* the users table at the start
    InitAccess  \* access tokens still valid at the start

VARIABLES
    users,      \* the users table
    sessions,   \* the sessions table
    oneTime,    \* the approval_tokens table
    claims,     \* what each refresh token outside the server says
    access,     \* the unexpired access tokens outside the server
    req         \* the local state of each request slot

db == <<users, sessions, oneTime>>
vars == <<users, sessions, oneTime, claims, access, req>>

-----------------------------------------------------------------------------
Claim == [sub : User \cup {None}, fam : Family \cup {None}]
NoClaim == [sub |-> None, fam |-> None]

AccessToken == [sub : User, role : Role]

AuthPC == {"idle", "login.issue", "refresh.user", "refresh.rotate",
           "refresh.reuse", "refresh.dead", "logout.revoke",
           "reset.consume", "reset.write", "revoke_all"}
AdminPC == {"count", "flags.load", "flags.write", "delete.write", "delete.revoke",
            "update.write", "link.consume", "reject.write", "register.sign",
            "seed.write"}

Op == {"none", "login", "refresh", "logout", "logout_all", "revoke_own_session",
       "forgot_password", "reset_password",
       "ban", "unban", "role", "delete", "approve", "reject", "update",
       "quick_approve", "quick_reject", "register", "create_user", "seed_admin"}

Request == [pc   : AuthPC \cup AdminPC,
            op   : Op,
            usr  : User \cup {None},      \* the account the request is about
            fam  : Family \cup {None},    \* the session it looked up
            tok  : Token \cup {None},     \* the refresh token it presented
            otk  : OneTime \cup {None},   \* the one-time token it presented
            snap : UserRow,               \* the user row it read
            role : Role \cup {None},      \* the role it is to set
            pw   : Password \cup {None}]  \* the password it is to set

Idle == [pc |-> "idle", op |-> "none", usr |-> None, fam |-> None, tok |-> None,
         otk |-> None, snap |-> NoUser, role |-> None, pw |-> None]

ASSUME OpsAssumption == Ops \subseteq Op
ASSUME RoleInputsAssumption == RoleInputs \subseteq ASSIGNABLE_ROLES
ASSUME FaultsAssumption == Faults \subseteq {"db", "abort"}
ASSUME InitAssumption ==
    /\ InitUsers \in [User -> UserRow]
    /\ InitAccess \subseteq AccessToken
    /\ \A u \in User : InitUsers[u].approved => InitUsers[u].role # PENDING
    /\ \A a \in InitAccess : a.role # PENDING

Init ==
    /\ users = InitUsers
    /\ sessions = [f \in Family |-> NoSession]
    /\ oneTime = [k \in OneTime |-> NoOneTime]
    /\ claims = [t \in Token |-> NoClaim]
    /\ access = InitAccess
    /\ req = [r \in Req |-> Idle]

\* Slot r is free and takes a request for endpoint op.
Receive(r, op) == op \in Ops /\ req[r] = Idle
At(r, pc) == req[r].pc = pc
Goto(r, pc) == req' = [req EXCEPT ![r].pc = pc]
Start(r, new) == req' = [req EXCEPT ![r] = new]
Done(r) == req' = [req EXCEPT ![r] = Idle]

\* Mutation: a family id that only avoids existing rows.
FamilyNotInTable(f) == ~find_session_by_family(sessions, f)

FreshFamily(f) == /\ ~find_session_by_family(sessions, f)
                  /\ \A t \in Token : claims[t].fam # f
                  /\ \A r \in Req : req[r].fam # f
FreshToken(t) == /\ claims[t] = NoClaim
                 /\ \A f \in Family : sessions[f].hash # t
                 /\ \A r \in Req : req[r].tok # t
FreshOneTime(k) == /\ oneTime[k].st = "free"
                   /\ \A r \in Req : req[r].otk # k

MayAuthenticate(row) == ~row.banned /\ row.approved

\* Mutation: the role is left out of the token.
SignWithoutRole(u, row) == [sub |-> u, role |-> None]

\* sign_access: a stateless token that carries the role of the row in hand.
sign_access(u, row) == [sub |-> u, role |-> row.role]

\* A revoking statement whose result the handler throws away (let _ = ...).
BestEffort(revoked) ==
    \/ sessions' = revoked
    \/ "db" \in Faults /\ UNCHANGED sessions

-----------------------------------------------------------------------------
\* login, up to the decision to issue a session.  The row read here is the
\* one the session is issued for.
LoginLoad(r, u, p) ==
    /\ Receive(r, "login")
    /\ Loads(users, u)
    /\ users[u].pw = p
    /\ MayAuthenticate(users[u])
    /\ Start(r, [Idle EXCEPT !.pc = "login.issue", !.op = "login",
                             !.usr = u, !.snap = users[u]])
    /\ UNCHANGED <<db, claims, access>>

issue_session(r) ==
    /\ At(r, "login.issue")
    /\ \E f \in Family, t \in Token :
          /\ FreshFamily(f)
          /\ FreshToken(t)
          /\ sessions' = create_session(sessions, f, req[r].usr, t)
          /\ claims' = [claims EXCEPT ![t] = [sub |-> req[r].usr, fam |-> f]]
    /\ access' = access \cup {sign_access(req[r].usr, req[r].snap)}
    /\ Done(r)
    /\ UNCHANGED <<users, oneTime>>

-----------------------------------------------------------------------------
\* refresh: look the family up and judge the row that was read.
RefreshFind(r, t) ==
    /\ Receive(r, "refresh")
    /\ claims[t] # NoClaim
    /\ LET row == sessions[claims[t].fam] IN
          /\ find_session_by_family(sessions, claims[t].fam)
          /\ Start(r, [Idle EXCEPT
                !.op = "refresh", !.usr = claims[t].sub,
                !.fam = claims[t].fam, !.tok = t,
                !.pc = IF row.st = "revoked" \/ row.hash # t THEN "refresh.reuse"
                       ELSE IF row.expired THEN "refresh.dead"
                       ELSE "refresh.user"])
    /\ UNCHANGED <<db, claims, access>>

\* Mutations: the account's flags are not checked; the row comes from a cache
\* that is never invalidated.
RefreshUnchecked(r) ==
    /\ At(r, "refresh.user")
    /\ Start(r, [req[r] EXCEPT !.pc = "refresh.rotate", !.snap = users[req[r].usr]])
    /\ UNCHANGED <<db, claims, access>>
RefreshFromCache(r) ==
    /\ At(r, "refresh.user")
    /\ Start(r, [req[r] EXCEPT !.pc = "refresh.rotate", !.snap = InitUsers[req[r].usr]])
    /\ UNCHANGED <<db, claims, access>>

RefreshLoadUser(r) ==
    /\ At(r, "refresh.user")
    /\ LET row == users[req[r].usr] IN
          \/ /\ ~Loads(users, req[r].usr)
             /\ Done(r)
          \/ /\ Loads(users, req[r].usr)
             /\ ~MayAuthenticate(row)
             /\ Goto(r, "refresh.dead")
          \/ /\ Loads(users, req[r].usr)
             /\ MayAuthenticate(row)
             /\ Start(r, [req[r] EXCEPT !.pc = "refresh.rotate", !.snap = row])
    /\ UNCHANGED <<db, claims, access>>

\* rotate_session's row count is not looked at: the new pair is handed out
\* whether or not the UPDATE found an active row, and whether or not another
\* request has rotated the same token meanwhile, although a refresh token
\* "already rotated away" is to be refused (API.md).
RefreshRotate(r) ==
    /\ At(r, "refresh.rotate")
    /\ \E t \in Token :
          /\ FreshToken(t)
          /\ sessions' = rotate_session(sessions, req[r].fam, t)
          /\ claims' = [claims EXCEPT ![t] = [sub |-> req[r].usr,
                                              fam |-> req[r].fam]]
    /\ access' = access \cup {sign_access(req[r].usr, req[r].snap)}
    /\ Done(r)
    /\ UNCHANGED <<users, oneTime>>

\* A superseded or revoked token was presented: the family is revoked.
RefreshReuse(r) ==
    /\ At(r, "refresh.reuse")
    /\ BestEffort(revoke_session_family(sessions, req[r].fam))
    /\ Done(r)
    /\ UNCHANGED <<users, oneTime, claims, access>>

\* The row had expired, or the account is banned or not approved.
RefreshDead(r) ==
    /\ At(r, "refresh.dead")
    /\ BestEffort(revoke_session(sessions, req[r].fam))
    /\ Done(r)
    /\ UNCHANGED <<users, oneTime, claims, access>>

-----------------------------------------------------------------------------
LogoutFind(r, t) ==
    /\ Receive(r, "logout")
    /\ claims[t] # NoClaim
    /\ find_session_by_family(sessions, claims[t].fam)
    /\ Start(r, [Idle EXCEPT !.pc = "logout.revoke", !.op = "logout",
                             !.usr = claims[t].sub, !.fam = claims[t].fam, !.tok = t])
    /\ UNCHANGED <<db, claims, access>>

LogoutRevoke(r) ==
    /\ At(r, "logout.revoke")
    /\ BestEffort(revoke_session(sessions, req[r].fam))
    /\ Done(r)
    /\ UNCHANGED <<users, oneTime, claims, access>>

\* logout_all and revoke_own_session are one statement each, authorised by an
\* access token alone.
logout_all(a) ==
    /\ "logout_all" \in Ops
    /\ a \in access
    /\ sessions' = revoke_all_sessions_for_user(sessions, a.sub)
    /\ UNCHANGED <<users, oneTime, claims, access, req>>

revoke_own_session(a, f) ==
    /\ "revoke_own_session" \in Ops
    /\ a \in access
    /\ sessions' = revoke_session_owned_by_user(sessions, f, a.sub)
    /\ UNCHANGED <<users, oneTime, claims, access, req>>

-----------------------------------------------------------------------------
\* forgot_password mails a reset link to the account holder.
forgot_password(u) ==
    /\ "forgot_password" \in Ops
    /\ Loads(users, u)
    /\ \E k \in OneTime :
          /\ FreshOneTime(k)
          /\ oneTime' = create_approval_token(oneTime, k, u, "password_reset")
    /\ UNCHANGED <<users, sessions, claims, access, req>>

ResetFind(r, k, p) ==
    /\ Receive(r, "reset_password")
    /\ Usable(oneTime, k, "password_reset")
    /\ Start(r, [Idle EXCEPT !.pc = "reset.consume", !.op = "reset_password",
                             !.usr = oneTime[k].usr, !.otk = k, !.pw = p])
    /\ UNCHANGED <<db, claims, access>>

ResetConsume(r) ==
    /\ At(r, "reset.consume")
    /\ oneTime' = consume_approval_token(oneTime, req[r].otk)
    /\ IF Consumable(oneTime, req[r].otk) THEN Goto(r, "reset.write") ELSE Done(r)
    /\ UNCHANGED <<users, sessions, claims, access>>

\* The write may fail after the link is spent: the handler then gives up.
ResetWrite(r) ==
    /\ At(r, "reset.write")
    /\ \/ /\ users' = update_user_password(users, req[r].usr, req[r].pw)
          /\ Goto(r, "revoke_all")
       \/ /\ "db" \in Faults
          /\ UNCHANGED users
          /\ Done(r)
    /\ UNCHANGED <<sessions, oneTime, claims, access>>

\* update_user_password and update_user_flags end by reading the row back;
\* only if it is still there does the handler go on to revoke its sessions.
RevokeAllAfterWrite(r) ==
    /\ At(r, "revoke_all")
    /\ IF Loads(users, req[r].usr)
       THEN BestEffort(revoke_all_sessions_for_user(sessions, req[r].usr))
       ELSE UNCHANGED sessions
    /\ Done(r)
    /\ UNCHANGED <<users, oneTime, claims, access>>

-----------------------------------------------------------------------------
\* The retention job: two DELETEs, the second skipped if the first or it fails.
purge_expired_auth_records ==
    /\ sessions' = PurgedSessions(sessions)
    /\ \/ oneTime' = PurgedOneTime(oneTime)
       \/ "db" \in Faults /\ UNCHANGED oneTime
    /\ UNCHANGED <<users, claims, access, req>>

\* The clock and the clients.
ExpireSession(f) ==
    /\ find_session_by_family(sessions, f)
    /\ sessions' = [sessions EXCEPT ![f].expired = TRUE]
    /\ UNCHANGED <<users, oneTime, claims, access, req>>

ExpireOneTime(k) ==
    /\ oneTime[k].st # "free"
    /\ oneTime' = [oneTime EXCEPT ![k].expired = TRUE]
    /\ UNCHANGED <<users, sessions, claims, access, req>>

ExpireAccess(a) ==
    /\ a \in access
    /\ access' = access \ {a}
    /\ UNCHANGED <<db, claims, req>>

\* A client drops or replaces its cookie.
ForgetToken(t) ==
    /\ claims[t] # NoClaim
    /\ claims' = [claims EXCEPT ![t] = NoClaim]
    /\ UNCHANGED <<db, access, req>>

\* A handler future is dropped between two statements.
Abort(r) ==
    /\ "abort" \in Faults
    /\ req[r] # Idle
    /\ Done(r)
    /\ UNCHANGED <<db, claims, access>>

\* A statement whose error ends the handler fails.
Fails(r) ==
    /\ "db" \in Faults
    /\ req[r].pc \in {"login.issue", "refresh.user", "refresh.rotate",
                      "reset.consume"}
    /\ Done(r)
    /\ UNCHANGED <<db, claims, access>>

-----------------------------------------------------------------------------
\* A handler of auth.rs in flight takes its next step.
AuthContinue(r) ==
    \/ issue_session(r)
    \/ RefreshLoadUser(r)
    \/ RefreshRotate(r)
    \/ RefreshReuse(r)
    \/ RefreshDead(r)
    \/ LogoutRevoke(r)
    \/ ResetConsume(r)
    \/ ResetWrite(r)
    \/ RevokeAllAfterWrite(r)

AuthStart ==
    \/ \E r \in Req, u \in User, p \in Password : LoginLoad(r, u, p)
    \/ \E r \in Req, t \in Token : RefreshFind(r, t)
    \/ \E r \in Req, t \in Token : LogoutFind(r, t)
    \/ \E a \in access : logout_all(a)
    \/ \E a \in access, f \in Family : revoke_own_session(a, f)
    \/ \E u \in User : forgot_password(u)
    \/ \E r \in Req, k \in OneTime, p \in Password : ResetFind(r, k, p)

Environment ==
    \/ purge_expired_auth_records
    \/ \E f \in Family : ExpireSession(f)
    \/ \E k \in OneTime : ExpireOneTime(k)
    \/ \E a \in access : ExpireAccess(a)
    \/ \E t \in Token : ForgetToken(t)
    \/ \E r \in Req : Abort(r)
    \/ \E r \in Req : Fails(r)
=============================================================================
