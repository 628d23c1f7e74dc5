-------------------------- MODULE Accounts_proofs --------------------------
(***************************************************************************)
(* Proofs about Accounts, for every set of users, families, tokens, links  *)
(* and request slots, every set of endpoints and every kind of fault.      *)
(***************************************************************************)
EXTENDS Accounts, TLAPS

-----------------------------------------------------------------------------
(***************************************************************************)
(* The statements keep the tables well typed.                              *)
(***************************************************************************)

\* Revoking any selection of sessions keeps the sessions table well typed.
LEMMA RevokeRowsType ==
    ASSUME NEW ss \in [Family -> SessionRow], NEW S
    PROVE  RevokeRows(ss, S) \in [Family -> SessionRow]
  BY DEF RevokeRows, SessionRow

\* Every revoking statement is a RevokeRows.
LEMMA RevokersType ==
    ASSUME NEW ss \in [Family -> SessionRow], NEW f, NEW u
    PROVE  /\ revoke_session(ss, f) \in [Family -> SessionRow]
           /\ revoke_session_family(ss, f) \in [Family -> SessionRow]
           /\ revoke_all_sessions_for_user(ss, u) \in [Family -> SessionRow]
           /\ revoke_session_owned_by_user(ss, f, u) \in [Family -> SessionRow]
  BY RevokeRowsType DEF revoke_session, revoke_session_family,
     revoke_all_sessions_for_user, revoke_session_owned_by_user

\* Opening and rotating a session keep the sessions table well typed.
LEMMA CreateRotateType ==
    ASSUME NEW ss \in [Family -> SessionRow], NEW f \in Family,
           NEW u \in User, NEW t \in Token
    PROVE  /\ create_session(ss, f, u, t) \in [Family -> SessionRow]
           /\ rotate_session(ss, f, t) \in [Family -> SessionRow]
  <1>1. create_session(ss, f, u, t) \in [Family -> SessionRow]
    BY DEF create_session, SessionRow
  <1>2. rotate_session(ss, f, t) \in [Family -> SessionRow]
    <2>1. [ss[f] EXCEPT !.hash = t, !.expired = FALSE] \in SessionRow
      BY DEF SessionRow
    <2> QED BY <2>1 DEF rotate_session
  <1> QED BY <1>1, <1>2

\* The purge keeps both tables well typed.
LEMMA PurgeType ==
    /\ \A ss \in [Family -> SessionRow] : PurgedSessions(ss) \in [Family -> SessionRow]
    /\ \A ts \in [OneTime -> OneTimeRow] : PurgedOneTime(ts) \in [OneTime -> OneTimeRow]
  BY DEF PurgedSessions, PurgedOneTime, NoSession, NoOneTime, SessionRow, OneTimeRow

-----------------------------------------------------------------------------
(***************************************************************************)
(* The inductive invariant.  TypeOK is not inductive: that refresh has an  *)
(* account to load rests on what refresh tokens and links say, and that a  *)
(* pending applicant gets no access token rests on the rows that handlers  *)
(* in flight have read.                                                    *)
(***************************************************************************)

\* Each row, as read or as stored, is approved only together with a real role.
RowOK(row) == row \in UserRow /\ (row.approved => row.role # PENDING)

\* What a request has in hand at each of its awaits.
SlotOK(rq) ==
    /\ rq \in Request
    /\ RowOK(rq.snap)
    /\ rq.pc # "idle" => rq.usr \in User
    /\ rq.pc \in {"refresh.user", "refresh.rotate", "refresh.reuse",
                  "refresh.dead", "logout.revoke"} => rq.fam \in Family
    /\ rq.pc \in {"reset.consume", "reset.write", "link.consume", "reject.write"}
          => rq.otk \in OneTime
    /\ rq.op = "quick_approve" => rq.otk \in OneTime
    /\ rq.op = "role" => rq.role \in ASSIGNABLE_ROLES
    /\ rq.pc = "count" => rq.op # "quick_approve"
    /\ rq.pc \in {"login.issue", "refresh.rotate"} => rq.snap.approved

TablesOK ==
    /\ users \in [User -> UserRow]
    /\ \A u \in User : RowOK(users[u])
    /\ sessions \in [Family -> SessionRow]
    /\ oneTime \in [OneTime -> OneTimeRow]
    /\ \A k \in OneTime : oneTime[k].st # "free" => oneTime[k].usr \in User

TokensOK ==
    /\ claims \in [Token -> Claim]
    /\ \A t \in Token : claims[t] # NoClaim => /\ claims[t].sub \in User
                                               /\ claims[t].fam \in Family
    /\ access \subseteq AccessToken
    /\ \A a \in access : a.role # PENDING

SlotsOK == req \in [Req -> Request] /\ \A r \in Req : SlotOK(req[r])

LocalInv == TablesOK /\ TokensOK /\ SlotsOK

\* The inductive invariant gives the type invariant and PendingNeverSignsIn.
LEMMA LocalInvImplies == LocalInv => TypeOK /\ PendingNeverSignsIn
  BY DEF LocalInv, TablesOK, TokensOK, SlotsOK, SlotOK, RowOK, TypeOK,
     PendingNeverSignsIn

-----------------------------------------------------------------------------
(***************************************************************************)
(* The request slots.                                                      *)
(***************************************************************************)

\* The row of an account that does not exist, and an idle slot, are in order.
LEMMA IdleOK == RowOK(NoUser) /\ SlotOK(Idle)
  BY NoneAssumption DEF RowOK, SlotOK, Idle, Request, AuthPC, AdminPC, Op, NoUser,
     UserRow, Role, PENDING, ASSIGNABLE_ROLES

\* A slot that is given a request in order leaves all slots in order.
LEMMA StartOK ==
    ASSUME SlotsOK, NEW r \in Req, NEW new, SlotOK(new), Start(r, new)
    PROVE  SlotsOK'
  BY DEF SlotsOK, Start, SlotOK

\* A handler that ends leaves all slots in order.
LEMMA DoneOK ==
    ASSUME SlotsOK, NEW r \in Req, Done(r)
    PROVE  SlotsOK'
  BY IdleOK DEF SlotsOK, Done, SlotOK

\* A request moved to another statement is in order if it has in hand what
\* that statement needs.
LEMMA GotoOK ==
    ASSUME SlotsOK, NEW r \in Req, NEW pc \in AuthPC \cup AdminPC, Goto(r, pc),
           SlotOK([req[r] EXCEPT !.pc = pc])
    PROVE  SlotsOK'
  BY DEF SlotsOK, Goto, SlotOK

-----------------------------------------------------------------------------
(***************************************************************************)
(* The statements keep rows in order.                                      *)
(***************************************************************************)

\* Writing flags from a row read earlier keeps "approved only with a role":
\* the row was in order when it was read, and each caller patches approved
\* and role together, or the role alone with an assignable one.
LEMMA FlagsRowOK ==
    ASSUME NEW us, us \in [User -> UserRow], \A v \in User : RowOK(us[v]),
           NEW rq, SlotOK(rq), NEW u \in User
    PROVE  LET new == update_user_flags(us, u, rq.snap, Patch(rq))
           IN  new \in [User -> UserRow] /\ \A v \in User : RowOK(new[v])
  <1> DEFINE A == Patched(Patch(rq).approved, rq.snap.approved)
             B == Patched(Patch(rq).banned, rq.snap.banned)
             R == Patched(Patch(rq).role, rq.snap.role)
             row == [us[u] EXCEPT !.approved = A, !.banned = B, !.role = R]
  <1>1. /\ rq.snap.approved \in BOOLEAN /\ rq.snap.banned \in BOOLEAN
        /\ rq.snap.role \in Role /\ (rq.snap.approved => rq.snap.role # PENDING)
    BY DEF SlotOK, RowOK, Request, UserRow
  <1>2. A \in BOOLEAN /\ B \in BOOLEAN /\ R \in Role /\ (A => R # PENDING)
    <2>1. CASE rq.op = "ban"
      BY <1>1, <2>1, NoneIsNoFlag DEF Patch, Patched
    <2>2. CASE rq.op = "unban"
      BY <1>1, <2>2, NoneIsNoFlag DEF Patch, Patched
    <2>3. CASE rq.op = "role"
      BY <1>1, <2>3, NoneIsNoFlag DEF Patch, Patched, SlotOK, ASSIGNABLE_ROLES,
         Role, PENDING
    <2>4. CASE rq.op \notin {"ban", "unban", "role"}
      BY <1>1, <2>4, NoneIsNoFlag DEF Patch, Patched, DEFAULT_APPROVED_ROLE,
         ASSIGNABLE_ROLES, Role, PENDING
    <2> QED BY <2>1, <2>2, <2>3, <2>4
  <1>3. row \in UserRow /\ RowOK(row)
    BY <1>2 DEF UserRow, RowOK
  <1>4. RowExists(us[u]) =>
          update_user_flags(us, u, rq.snap, Patch(rq)) = [us EXCEPT ![u] = row]
    BY DEF update_user_flags
  <1>5. ~RowExists(us[u]) => update_user_flags(us, u, rq.snap, Patch(rq)) = us
    BY DEF update_user_flags
  <1> QED BY <1>3, <1>4, <1>5

\* Writing a password keeps the users table in order.
LEMMA PasswordOK ==
    ASSUME NEW us, us \in [User -> UserRow], \A v \in User : RowOK(us[v]),
           NEW u \in User, NEW p \in Password \cup {None}
    PROVE  LET new == update_user_password(us, u, p)
           IN  new \in [User -> UserRow] /\ \A v \in User : RowOK(new[v])
  BY DEF update_user_password, RowOK, UserRow

\* Inserting a row, approved only with a real role, keeps the users table in
\* order.
LEMMA InsertOK ==
    ASSUME NEW us, us \in [User -> UserRow], \A v \in User : RowOK(us[v]),
           NEW u \in User, NEW p \in Password \cup {None}, NEW role \in Role,
           NEW approved \in BOOLEAN, approved => role # PENDING
    PROVE  LET new == create_user(us, u, p, role, approved)
           IN  new \in [User -> UserRow] /\ \A v \in User : RowOK(new[v])
  BY DEF create_user, RowOK, UserRow

\* Deleting a row, softly or not, keeps the users table in order.
LEMMA DeleteOK ==
    ASSUME NEW us, us \in [User -> UserRow], \A v \in User : RowOK(us[v]),
           NEW u \in User
    PROVE  /\ LET new == soft_delete_user(us, u)
              IN  new \in [User -> UserRow] /\ \A v \in User : RowOK(new[v])
           /\ LET new == delete_user(us, u)
              IN  new \in [User -> UserRow] /\ \A v \in User : RowOK(new[v])
  <1>1. LET new == soft_delete_user(us, u)
        IN  new \in [User -> UserRow] /\ \A v \in User : RowOK(new[v])
    BY DEF soft_delete_user, RowOK, UserRow
  <1>2. [NoUser EXCEPT !.st = "gone"] \in UserRow /\ RowOK([NoUser EXCEPT !.st = "gone"])
    BY IdleOK DEF NoUser, RowOK, UserRow
  <1>3. LET new == delete_user(us, u)
        IN  new \in [User -> UserRow] /\ \A v \in User : RowOK(new[v])
    BY <1>2 DEF delete_user
  <1> QED BY <1>1, <1>3

-----------------------------------------------------------------------------
(***************************************************************************)
(* The inductive step: one step per action.                                *)
(***************************************************************************)

\* Signing an access token for a row that may authenticate.
LEMMA SignOK ==
    ASSUME TokensOK, NEW u \in User, NEW row, RowOK(row), row.approved,
           access' = access \cup {sign_access(u, row)}
    PROVE  access' \subseteq AccessToken /\ \A a \in access' : a.role # PENDING
  BY DEF TokensOK, sign_access, RowOK, UserRow, AccessToken

\* Handing a new refresh token to the holder of a family.
LEMMA ClaimOK ==
    ASSUME TokensOK, NEW t \in Token, NEW u \in User, NEW f \in Family,
           claims' = [claims EXCEPT ![t] = [sub |-> u, fam |-> f]]
    PROVE  /\ claims' \in [Token -> Claim]
           /\ \A s \in Token : claims'[s] # NoClaim => /\ claims'[s].sub \in User
                                                       /\ claims'[s].fam \in Family
  BY DEF TokensOK, Claim, NoClaim

\* Steps that write only the sessions table.
LEMMA SessionsOnlyOK ==
    ASSUME TablesOK, UNCHANGED <<users, oneTime>>, sessions' \in [Family -> SessionRow]
    PROVE  TablesOK'
  BY DEF TablesOK

\* Spending a link leaves every link with its account.
LEMMA SpendOK ==
    ASSUME TablesOK, NEW k \in OneTime, oneTime' = consume_approval_token(oneTime, k)
    PROVE  /\ oneTime' \in [OneTime -> OneTimeRow]
           /\ \A j \in OneTime : oneTime'[j].st # "free" => oneTime'[j].usr \in User
  BY DEF TablesOK, consume_approval_token, Consumable, OneTimeRow

\* Issuing a link gives it an account.
LEMMA IssueOK ==
    ASSUME TablesOK, NEW k \in OneTime, NEW u \in User,
           NEW purpose \in {"registration_approval", "password_reset"},
           oneTime' = create_approval_token(oneTime, k, u, purpose)
    PROVE  /\ oneTime' \in [OneTime -> OneTimeRow]
           /\ \A j \in OneTime : oneTime'[j].st # "free" => oneTime'[j].usr \in User
  BY DEF TablesOK, create_approval_token, OneTimeRow

\* A handler of auth.rs takes its next step.
LEMMA LocalInvAuthContinue ==
    ASSUME LocalInv, NEW r \in Req, AuthContinue(r)
    PROVE  LocalInv'
  <1> USE DEF LocalInv, At
  <1>0. SlotOK(req[r]) /\ req[r] \in Request
    BY DEF SlotsOK
  <1>1. CASE issue_session(r)
    <2>1. PICK f \in Family, t \in Token :
            /\ sessions' = create_session(sessions, f, req[r].usr, t)
            /\ claims' = [claims EXCEPT ![t] = [sub |-> req[r].usr, fam |-> f]]
      BY <1>1 DEF issue_session
    <2>2. req[r].usr \in User /\ RowOK(req[r].snap) /\ req[r].snap.approved
      BY <1>0, <1>1 DEF issue_session, SlotOK
    <2>3. TablesOK'
      BY <1>1, <2>1, <2>2, CreateRotateType DEF issue_session, TablesOK
    <2>4. TokensOK'
      BY <1>1, <2>1, <2>2, ClaimOK, SignOK DEF issue_session, TokensOK
    <2> QED BY <1>1, <2>3, <2>4, DoneOK DEF issue_session
  <1>2. CASE RefreshLoadUser(r)
    <2>1. TablesOK' /\ TokensOK'
      BY <1>2 DEF RefreshLoadUser, TablesOK, TokensOK, db
    <2>2. req[r].usr \in User /\ req[r].fam \in Family
      BY <1>0, <1>2 DEF RefreshLoadUser, SlotOK
    <2>3. CASE Done(r)
      BY <2>1, <2>3, DoneOK
    <2>4. CASE Goto(r, "refresh.dead")
      <3>1. SlotOK([req[r] EXCEPT !.pc = "refresh.dead"])
        BY <1>0, <2>2 DEF SlotOK, Request, AuthPC
      <3> QED BY <2>1, <2>4, <3>1, GotoOK DEF AuthPC
    <2>5. CASE /\ MayAuthenticate(users[req[r].usr])
               /\ Start(r, [req[r] EXCEPT !.pc = "refresh.rotate",
                                          !.snap = users[req[r].usr]])
      <3>1. RowOK(users[req[r].usr]) /\ users[req[r].usr] \in UserRow
        BY <2>2 DEF TablesOK
      <3>2. SlotOK([req[r] EXCEPT !.pc = "refresh.rotate",
                                  !.snap = users[req[r].usr]])
        BY <1>0, <2>2, <2>5, <3>1 DEF SlotOK, Request, AuthPC, MayAuthenticate
      <3> QED BY <2>1, <2>5, <3>2, StartOK
    <2> QED BY <1>2, <2>3, <2>4, <2>5 DEF RefreshLoadUser
  <1>3. CASE RefreshRotate(r)
    <2>1. PICK t \in Token :
            /\ sessions' = rotate_session(sessions, req[r].fam, t)
            /\ claims' = [claims EXCEPT ![t] = [sub |-> req[r].usr,
                                                fam |-> req[r].fam]]
      BY <1>3 DEF RefreshRotate
    <2>2. /\ req[r].usr \in User /\ req[r].fam \in Family
          /\ RowOK(req[r].snap) /\ req[r].snap.approved
      BY <1>0, <1>3 DEF RefreshRotate, SlotOK
    <2>3. TablesOK'
      BY <1>3, <2>1, <2>2, CreateRotateType DEF RefreshRotate, TablesOK
    <2>4. TokensOK'
      BY <1>3, <2>1, <2>2, ClaimOK, SignOK DEF RefreshRotate, TokensOK
    <2> QED BY <1>3, <2>3, <2>4, DoneOK DEF RefreshRotate
  <1>4. CASE RefreshReuse(r) \/ RefreshDead(r) \/ LogoutRevoke(r)
    <2>0. /\ revoke_session(sessions, req[r].fam) \in [Family -> SessionRow]
          /\ revoke_session_family(sessions, req[r].fam) \in [Family -> SessionRow]
          /\ revoke_all_sessions_for_user(sessions, req[r].usr)
                \in [Family -> SessionRow]
      BY RevokersType DEF TablesOK
    <2>1. sessions' \in [Family -> SessionRow]
      BY <1>4, <2>0 DEF RefreshReuse, RefreshDead, LogoutRevoke, BestEffort,
         TablesOK
    <2>2. Done(r) /\ UNCHANGED <<users, oneTime, claims, access>>
      BY <1>4 DEF RefreshReuse, RefreshDead, LogoutRevoke
    <2>3. TablesOK' /\ TokensOK'
      BY <2>1, <2>2, SessionsOnlyOK DEF TokensOK
    <2> QED BY <2>2, <2>3, DoneOK
  <1>5. CASE ResetConsume(r)
    <2>1. req[r].usr \in User /\ req[r].otk \in OneTime
      BY <1>0, <1>5 DEF ResetConsume, SlotOK
    <2>2. oneTime' = consume_approval_token(oneTime, req[r].otk)
      BY <1>5 DEF ResetConsume
    <2>3. TablesOK'
      BY <1>5, <2>1, <2>2, SpendOK DEF ResetConsume, TablesOK
    <2>4. TokensOK'
      BY <1>5 DEF ResetConsume, TokensOK
    <2>5. SlotOK([req[r] EXCEPT !.pc = "reset.write"])
      BY <1>0, <2>1 DEF SlotOK, Request, AuthPC
    <2> QED BY <1>5, <2>3, <2>4, <2>5, DoneOK, GotoOK DEF ResetConsume, AuthPC
  <1>6. CASE ResetWrite(r)
    <2>1. req[r].usr \in User /\ req[r].pw \in Password \cup {None}
      BY <1>0, <1>6 DEF ResetWrite, SlotOK, Request
    <2>2. LET new == update_user_password(users, req[r].usr, req[r].pw)
          IN  new \in [User -> UserRow] /\ \A v \in User : RowOK(new[v])
      BY <2>1, PasswordOK DEF TablesOK
    <2>3. users' = users \/ users' = update_user_password(users, req[r].usr, req[r].pw)
      BY <1>6 DEF ResetWrite
    <2>4. users' \in [User -> UserRow] /\ \A v \in User : RowOK(users'[v])
      BY <2>2, <2>3 DEF TablesOK
    <2>5. TablesOK' /\ TokensOK'
      BY <1>6, <2>4 DEF ResetWrite, TablesOK, TokensOK
    <2>6. SlotOK([req[r] EXCEPT !.pc = "revoke_all"])
      BY <1>0, <2>1 DEF SlotOK, Request, AuthPC
    <2> QED BY <1>6, <2>5, <2>6, DoneOK, GotoOK DEF ResetWrite, AuthPC
  <1>7. CASE RevokeAllAfterWrite(r)
    <2>0. /\ revoke_session(sessions, req[r].fam) \in [Family -> SessionRow]
          /\ revoke_session_family(sessions, req[r].fam) \in [Family -> SessionRow]
          /\ revoke_all_sessions_for_user(sessions, req[r].usr)
                \in [Family -> SessionRow]
      BY RevokersType DEF TablesOK
    <2>1. sessions' \in [Family -> SessionRow]
      BY <1>7, <2>0 DEF RevokeAllAfterWrite, BestEffort, TablesOK
    <2>2. Done(r) /\ UNCHANGED <<users, oneTime, claims, access>>
      BY <1>7 DEF RevokeAllAfterWrite
    <2>3. TablesOK' /\ TokensOK'
      BY <2>1, <2>2, SessionsOnlyOK DEF TokensOK
    <2> QED BY <2>2, <2>3, DoneOK
  <1> QED BY <1>1, <1>2, <1>3, <1>4, <1>5, <1>6, <1>7 DEF AuthContinue

\* A handler of auth.rs starts.
LEMMA LocalInvAuthStart ==
    ASSUME LocalInv, AuthStart
    PROVE  LocalInv'
  <1> USE DEF LocalInv
  <1>1. ASSUME NEW r \in Req, NEW u \in User, NEW p \in Password, LoginLoad(r, u, p)
        PROVE  LocalInv'
    <2>1. TablesOK' /\ TokensOK'
      BY <1>1 DEF LoginLoad, TablesOK, TokensOK, db
    <2>2. RowOK(users[u]) /\ users[u].approved
      BY <1>1 DEF LoginLoad, MayAuthenticate, TablesOK
    <2>3. SlotOK([Idle EXCEPT !.pc = "login.issue", !.op = "login",
                              !.usr = u, !.snap = users[u]])
      BY <2>2, IdleOK DEF SlotOK, RowOK, Request, Idle, AuthPC, Op
    <2> QED BY <1>1, <2>1, <2>3, StartOK DEF LoginLoad
  <1>2. ASSUME NEW r \in Req, NEW t \in Token, RefreshFind(r, t)
        PROVE  LocalInv'
    <2> DEFINE pc == IF sessions[claims[t].fam].st = "revoked"
                        \/ sessions[claims[t].fam].hash # t THEN "refresh.reuse"
                     ELSE IF sessions[claims[t].fam].expired THEN "refresh.dead"
                     ELSE "refresh.user"
    <2>1. TablesOK' /\ TokensOK'
      BY <1>2 DEF RefreshFind, TablesOK, TokensOK, db
    <2>2. claims[t].sub \in User /\ claims[t].fam \in Family
      BY <1>2 DEF RefreshFind, TokensOK
    <2>3. pc \in {"refresh.reuse", "refresh.dead", "refresh.user"}
      OBVIOUS
    <2> HIDE DEF pc
    <2> DEFINE new == [Idle EXCEPT !.op = "refresh", !.usr = claims[t].sub,
                                   !.fam = claims[t].fam, !.tok = t, !.pc = pc]
    <2>4. SlotOK(new)
      <3>1. /\ new.pc = pc /\ new.op = "refresh" /\ new.usr = claims[t].sub
            /\ new.fam = claims[t].fam /\ new.snap = NoUser
        BY DEF Idle
      <3>2. new \in Request
        BY <2>2, <2>3, IdleOK DEF RowOK, Request, Idle, AuthPC, Op
      <3> QED BY <2>2, <2>3, <3>1, <3>2, IdleOK DEF SlotOK
    <2>5. Start(r, [Idle EXCEPT !.op = "refresh", !.usr = claims[t].sub,
                                !.fam = claims[t].fam, !.tok = t, !.pc = pc])
      BY <1>2, Zenon DEF RefreshFind, pc
    <2> QED BY <2>1, <2>4, <2>5, StartOK
  <1>3. ASSUME NEW r \in Req, NEW t \in Token, LogoutFind(r, t)
        PROVE  LocalInv'
    <2>1. TablesOK' /\ TokensOK'
      BY <1>3 DEF LogoutFind, TablesOK, TokensOK, db
    <2>2. claims[t].sub \in User /\ claims[t].fam \in Family
      BY <1>3 DEF LogoutFind, TokensOK
    <2>3. SlotOK([Idle EXCEPT !.pc = "logout.revoke", !.op = "logout",
                       !.usr = claims[t].sub, !.fam = claims[t].fam, !.tok = t])
      BY <2>2, IdleOK DEF SlotOK, RowOK, Request, Idle, AuthPC, Op
    <2> QED BY <1>3, <2>1, <2>3, StartOK DEF LogoutFind
  <1>4. ASSUME NEW a \in access, logout_all(a)
        PROVE  LocalInv'
    <2>1. sessions' \in [Family -> SessionRow]
      BY <1>4, RevokersType DEF logout_all, TablesOK
    <2> QED BY <1>4, <2>1, SessionsOnlyOK DEF logout_all, TokensOK, SlotsOK
  <1>5. ASSUME NEW a \in access, NEW f \in Family, revoke_own_session(a, f)
        PROVE  LocalInv'
    <2>1. sessions' \in [Family -> SessionRow]
      BY <1>5, RevokersType DEF revoke_own_session, TablesOK
    <2> QED BY <1>5, <2>1, SessionsOnlyOK DEF revoke_own_session, TokensOK, SlotsOK
  <1>6. ASSUME NEW u \in User, forgot_password(u)
        PROVE  LocalInv'
    <2>1. PICK k \in OneTime :
            oneTime' = create_approval_token(oneTime, k, u, "password_reset")
      BY <1>6 DEF forgot_password
    <2>2. TablesOK'
      BY <1>6, <2>1, IssueOK DEF forgot_password, TablesOK
    <2> QED BY <1>6, <2>2 DEF forgot_password, TokensOK, SlotsOK
  <1>7. ASSUME NEW r \in Req, NEW k \in OneTime, NEW p \in Password, ResetFind(r, k, p)
        PROVE  LocalInv'
    <2>1. TablesOK' /\ TokensOK'
      BY <1>7 DEF ResetFind, TablesOK, TokensOK, db
    <2>2. oneTime[k].usr \in User
      BY <1>7 DEF ResetFind, Usable, TablesOK
    <2>3. SlotOK([Idle EXCEPT !.pc = "reset.consume", !.op = "reset_password",
                              !.usr = oneTime[k].usr, !.otk = k, !.pw = p])
      BY <2>2, IdleOK DEF SlotOK, RowOK, Request, Idle, AuthPC, Op
    <2> QED BY <1>7, <2>1, <2>3, StartOK DEF ResetFind
  <1> QED BY <1>1, <1>2, <1>3, <1>4, <1>5, <1>6, <1>7 DEF AuthStart

\* The retention job, the clock, the clients and the faults.
LEMMA LocalInvEnvironment ==
    ASSUME LocalInv, Environment
    PROVE  LocalInv'
  <1> USE DEF LocalInv
  <1>1. CASE purge_expired_auth_records
    <2>1. /\ PurgedSessions(sessions) \in [Family -> SessionRow]
          /\ PurgedOneTime(oneTime) \in [OneTime -> OneTimeRow]
          /\ \A k \in OneTime : PurgedOneTime(oneTime)[k].st # "free"
                                  => PurgedOneTime(oneTime)[k].usr \in User
      BY PurgeType DEF TablesOK, PurgedOneTime, NoOneTime
    <2>2. TablesOK'
      BY <1>1, <2>1 DEF purge_expired_auth_records, TablesOK
    <2> QED BY <1>1, <2>2 DEF purge_expired_auth_records, TokensOK, SlotsOK
  <1>2. ASSUME NEW f \in Family, ExpireSession(f)
        PROVE  LocalInv'
    <2>1. sessions' \in [Family -> SessionRow]
      BY <1>2 DEF ExpireSession, TablesOK, SessionRow
    <2> QED BY <1>2, <2>1, SessionsOnlyOK DEF ExpireSession, TokensOK, SlotsOK
  <1>3. ASSUME NEW k \in OneTime, ExpireOneTime(k)
        PROVE  LocalInv'
    <2>1. /\ oneTime' \in [OneTime -> OneTimeRow]
          /\ \A j \in OneTime : oneTime'[j].st # "free" => oneTime'[j].usr \in User
      BY <1>3 DEF ExpireOneTime, TablesOK, OneTimeRow
    <2> QED BY <1>3, <2>1 DEF ExpireOneTime, TablesOK, TokensOK, SlotsOK
  <1>4. ASSUME NEW a \in access, ExpireAccess(a)
        PROVE  LocalInv'
    BY <1>4 DEF ExpireAccess, db, TablesOK, TokensOK, SlotsOK
  <1>5. ASSUME NEW t \in Token, ForgetToken(t)
        PROVE  LocalInv'
    <2>1. TokensOK'
      BY <1>5 DEF ForgetToken, TokensOK, Claim, NoClaim
    <2> QED BY <1>5, <2>1 DEF ForgetToken, db, TablesOK, SlotsOK
  <1>6. ASSUME NEW r \in Req, Abort(r) \/ Fails(r)
        PROVE  LocalInv'
    <2>1. TablesOK' /\ TokensOK' /\ Done(r)
      BY <1>6 DEF Abort, Fails, db, TablesOK, TokensOK
    <2> QED BY <2>1, DoneOK
  <1> QED BY <1>1, <1>2, <1>3, <1>4, <1>5, <1>6 DEF Environment

\* A handler of admin.rs takes its next step.
LEMMA LocalInvAdminContinue ==
    ASSUME LocalInv, NEW r \in Req, AdminContinue(r)
    PROVE  LocalInv'
  <1> USE DEF LocalInv, At
  <1>0. SlotOK(req[r]) /\ req[r] \in Request
    BY DEF SlotsOK
  <1>1. CASE CountAdmins(r)
    <2>1. TablesOK' /\ TokensOK'
      BY <1>1 DEF CountAdmins, TablesOK, TokensOK, db
    <2>2. req[r].usr \in User /\ req[r].op # "quick_approve"
      BY <1>0, <1>1 DEF CountAdmins, SlotOK
    <2>3. Done(r) \/ \E pc \in {"seed.write", "delete.write", "flags.load"} : Goto(r, pc)
      BY <1>1 DEF CountAdmins, AfterCount
    <2>4. ASSUME NEW pc \in {"seed.write", "delete.write", "flags.load"}
          PROVE  SlotOK([req[r] EXCEPT !.pc = pc])
      BY <1>0, <2>2 DEF SlotOK, Request, AdminPC
    <2> QED BY <2>1, <2>3, <2>4, DoneOK, GotoOK DEF AdminPC
  <1>2. CASE FlagsLoad(r)
    <2>1. TablesOK' /\ TokensOK'
      BY <1>2 DEF FlagsLoad, TablesOK, TokensOK, db
    <2>2. req[r].usr \in User
      BY <1>0, <1>2 DEF FlagsLoad, SlotOK
    <2>3. RowOK(users[req[r].usr]) /\ users[req[r].usr] \in UserRow
      BY <2>2 DEF TablesOK
    <2>4. SlotOK([req[r] EXCEPT !.pc = "flags.write", !.snap = users[req[r].usr]])
      <3> DEFINE new == [req[r] EXCEPT !.pc = "flags.write",
                                       !.snap = users[req[r].usr]]
      <3>1. /\ new.pc = "flags.write" /\ new.op = req[r].op /\ new.usr = req[r].usr
            /\ new.snap = users[req[r].usr] /\ new.otk = req[r].otk
            /\ new.role = req[r].role
        BY <1>0 DEF Request
      <3>2. new \in Request
        BY <1>0, <2>3 DEF Request, AdminPC
      <3> QED BY <1>0, <2>2, <2>3, <3>1, <3>2 DEF SlotOK
    <2> QED BY <1>2, <2>1, <2>4, DoneOK, StartOK DEF FlagsLoad
  <1>3. CASE FlagsWrite(r)
    <2>1. req[r].usr \in User
      BY <1>0, <1>3 DEF FlagsWrite, SlotOK
    <2>2. LET new == update_user_flags(users, req[r].usr, req[r].snap, Patch(req[r]))
          IN  new \in [User -> UserRow] /\ \A v \in User : RowOK(new[v])
      BY <1>0, <2>1, FlagsRowOK DEF TablesOK
    <2>3. TablesOK' /\ TokensOK'
      BY <1>3, <2>2 DEF FlagsWrite, TablesOK, TokensOK
    <2>4. SlotOK([req[r] EXCEPT !.pc = "revoke_all"])
      BY <1>0, <2>1 DEF SlotOK, Request, AuthPC
    <2> QED BY <1>3, <2>3, <2>4, DoneOK, GotoOK DEF FlagsWrite, AuthPC
  <1>4. CASE DeleteWrite(r)
    <2>1. req[r].usr \in User
      BY <1>0, <1>4 DEF DeleteWrite, SlotOK
    <2>2. LET new == soft_delete_user(users, req[r].usr)
          IN  new \in [User -> UserRow] /\ \A v \in User : RowOK(new[v])
      BY <2>1, DeleteOK DEF TablesOK
    <2>3. TablesOK' /\ TokensOK'
      BY <1>4, <2>2 DEF DeleteWrite, TablesOK, TokensOK
    <2>4. SlotOK([req[r] EXCEPT !.pc = "delete.revoke"])
      BY <1>0, <2>1 DEF SlotOK, Request, AdminPC
    <2> QED BY <1>4, <2>3, <2>4, DoneOK, GotoOK DEF DeleteWrite, AdminPC
  <1>5. CASE DeleteRevoke(r)
    <2>1. revoke_all_sessions_for_user(sessions, req[r].usr) \in [Family -> SessionRow]
      BY RevokersType DEF TablesOK
    <2>2. sessions' \in [Family -> SessionRow]
      BY <1>5, <2>1 DEF DeleteRevoke, BestEffort, TablesOK
    <2>3. Done(r) /\ UNCHANGED <<users, oneTime, claims, access>>
      BY <1>5 DEF DeleteRevoke
    <2>4. TablesOK' /\ TokensOK'
      BY <2>2, <2>3, SessionsOnlyOK DEF TokensOK
    <2> QED BY <2>3, <2>4, DoneOK
  <1>6. CASE UpdateWrite(r)
    <2>1. /\ req[r].usr \in User
          /\ Patched(req[r].pw, req[r].snap.pw) \in Password \cup {None}
      BY <1>0, <1>6 DEF UpdateWrite, SlotOK, RowOK, Request, UserRow, Patched
    <2>2. LET new == update_user_password(users, req[r].usr,
                                          Patched(req[r].pw, req[r].snap.pw))
          IN  new \in [User -> UserRow] /\ \A v \in User : RowOK(new[v])
      BY <2>1, PasswordOK DEF TablesOK
    <2>3. TablesOK' /\ TokensOK'
      BY <1>6, <2>2 DEF UpdateWrite, TablesOK, TokensOK
    <2> QED BY <1>6, <2>3, DoneOK DEF UpdateWrite
  <1>7. CASE sign_approval_token(r)
    <2>1. PICK k \in OneTime : oneTime' = create_approval_token(oneTime, k, req[r].usr,
                                                            "registration_approval")
      BY <1>7 DEF sign_approval_token
    <2>2. req[r].usr \in User
      BY <1>0, <1>7 DEF sign_approval_token, SlotOK
    <2>3. TablesOK' /\ TokensOK'
      BY <1>7, <2>1, <2>2, IssueOK DEF sign_approval_token, TablesOK, TokensOK
    <2> QED BY <1>7, <2>3, DoneOK DEF sign_approval_token
  <1>8. CASE LinkConsume(r)
    <2>1. req[r].usr \in User /\ req[r].otk \in OneTime
      BY <1>0, <1>8 DEF LinkConsume, SlotOK
    <2>2. oneTime' = consume_approval_token(oneTime, req[r].otk)
      BY <1>8 DEF LinkConsume
    <2>3. TablesOK' /\ TokensOK'
      BY <1>8, <2>1, <2>2, SpendOK DEF LinkConsume, TablesOK, TokensOK
    <2>4. /\ SlotOK([req[r] EXCEPT !.pc = "flags.load"])
          /\ SlotOK([req[r] EXCEPT !.pc = "reject.write"])
      BY <1>0, <2>1 DEF SlotOK, Request, AdminPC
    <2> QED BY <1>8, <2>3, <2>4, DoneOK, GotoOK DEF LinkConsume, AdminPC
  <1>9. CASE LinkReject(r)
    <2>1. req[r].usr \in User
      BY <1>0, <1>9 DEF LinkReject, SlotOK
    <2>2. LET new == delete_user(users, req[r].usr)
          IN  new \in [User -> UserRow] /\ \A v \in User : RowOK(new[v])
      BY <2>1, DeleteOK DEF TablesOK
    <2>3. TablesOK' /\ TokensOK'
      BY <1>9, <2>2 DEF LinkReject, TablesOK, TokensOK
    <2> QED BY <1>9, <2>3, DoneOK DEF LinkReject
  <1>10. CASE SeedWrite(r)
    <2>1. req[r].pw \in Password \cup {None}
      BY <1>0 DEF Request
    <2>2. SYSTEM_ADMIN \in Role /\ SYSTEM_ADMIN # PENDING
      BY DEF SYSTEM_ADMIN, Role, ASSIGNABLE_ROLES, PENDING
    <2>3. LET new == create_user(users, SeedUser, req[r].pw, SYSTEM_ADMIN, TRUE)
          IN  new \in [User -> UserRow] /\ \A v \in User : RowOK(new[v])
      BY <2>1, <2>2, InsertOK, SeedAssumption DEF TablesOK
    <2>4. TablesOK' /\ TokensOK'
      BY <1>10, <2>3 DEF SeedWrite, TablesOK, TokensOK
    <2> QED BY <1>10, <2>4, DoneOK DEF SeedWrite
  <1> QED BY <1>1, <1>2, <1>3, <1>4, <1>5, <1>6, <1>7, <1>8, <1>9, <1>10
      DEF AdminContinue

\* A request of an administrator that carries no link, no role and no row.
LEMMA PlainAdminOK ==
    ASSUME NEW op \in Op \ {"quick_approve", "role"}, NEW u \in User,
           NEW pc \in {"count", "flags.load", "delete.write", "register.sign"}
    PROVE  SlotOK([Admin(op, u) EXCEPT !.pc = pc])
  <1> DEFINE new == [Admin(op, u) EXCEPT !.pc = pc]
  <1>1. new.pc = pc /\ new.op = op /\ new.usr = u /\ new.snap = NoUser
    BY DEF Admin, Idle
  <1>2. new \in Request
    BY IdleOK DEF Admin, Idle, Request, RowOK, AdminPC
  <1> QED BY <1>1, <1>2, IdleOK DEF SlotOK

\* A handler of admin.rs, or a registration, starts.
LEMMA LocalInvAdminStart ==
    ASSUME LocalInv, AdminStart
    PROVE  LocalInv'
  <1> USE DEF LocalInv
  <1>1. ASSUME NEW r \in Req, NEW u \in User, BanStart(r, u)
        PROVE  LocalInv'
    <2>1. TablesOK' /\ TokensOK'
      BY <1>1 DEF BanStart, TablesOK, TokensOK, db
    <2>2. PICK pc \in {"count", "flags.load"} : Start(r, [Admin("ban", u) EXCEPT !.pc = pc])
      BY <1>1, Zenon DEF BanStart, LastAdminCheck
    <2>3. SlotOK([Admin("ban", u) EXCEPT !.pc = pc])
      BY PlainAdminOK DEF Op
    <2> QED BY <2>1, <2>2, <2>3, StartOK
  <1>2. ASSUME NEW r \in Req, NEW u \in User, DeleteStart(r, u)
        PROVE  LocalInv'
    <2>1. TablesOK' /\ TokensOK'
      BY <1>2 DEF DeleteStart, TablesOK, TokensOK, db
    <2>2. PICK pc \in {"count", "delete.write"} :
             Start(r, [Admin("delete", u) EXCEPT !.pc = pc])
      BY <1>2, Zenon DEF DeleteStart, LastAdminCheck
    <2>3. SlotOK([Admin("delete", u) EXCEPT !.pc = pc])
      BY PlainAdminOK DEF Op
    <2> QED BY <2>1, <2>2, <2>3, StartOK
  <1>3. ASSUME NEW r \in Req, NEW u \in User, NEW role \in RoleInputs,
               ChangeRoleStart(r, u, role)
        PROVE  LocalInv'
    <2>1. TablesOK' /\ TokensOK'
      BY <1>3 DEF ChangeRoleStart, TablesOK, TokensOK, db
    <2>2. PICK pc \in {"count", "flags.load"} :
             Start(r, [Admin("role", u) EXCEPT !.role = role, !.pc = pc])
      BY <1>3, Zenon DEF ChangeRoleStart
    <2> DEFINE new == [Admin("role", u) EXCEPT !.role = role, !.pc = pc]
    <2>3. /\ new.pc = pc /\ new.op = "role" /\ new.usr = u /\ new.snap = NoUser
          /\ new.role = role
      BY DEF Admin, Idle
    <2>4. role \in ASSIGNABLE_ROLES /\ role \in Role
      BY RoleInputsAssumption DEF Role
    <2>5. new \in Request
      BY <2>4, IdleOK DEF Admin, Idle, Request, RowOK, AdminPC, Op
    <2>6. SlotOK(new)
      BY <2>3, <2>4, <2>5, IdleOK DEF SlotOK
    <2> QED BY <2>1, <2>2, <2>6, StartOK
  <1>4. ASSUME NEW r \in Req, NEW u \in User, NEW op \in Op, FlagsStart(r, op, u)
        PROVE  LocalInv'
    <2>1. TablesOK' /\ TokensOK'
      BY <1>4 DEF FlagsStart, TablesOK, TokensOK, db
    <2>2. op \in {"unban", "approve"}
      BY <1>4 DEF FlagsStart
    <2>3. SlotOK([Admin(op, u) EXCEPT !.pc = "flags.load"])
      BY <2>2, PlainAdminOK DEF Op
    <2> QED BY <1>4, <2>1, <2>3, StartOK DEF FlagsStart
  <1>5. ASSUME NEW u \in User, reject_user(u)
        PROVE  LocalInv'
    <2>1. LET new == delete_user(users, u)
          IN  new \in [User -> UserRow] /\ \A v \in User : RowOK(new[v])
      BY DeleteOK DEF TablesOK
    <2> QED BY <1>5, <2>1 DEF reject_user, TablesOK, TokensOK, SlotsOK
  <1>6. ASSUME NEW r \in Req, NEW u \in User, NEW p \in Password \cup {None},
               UpdateLoad(r, u, p)
        PROVE  LocalInv'
    <2>1. TablesOK' /\ TokensOK'
      BY <1>6 DEF UpdateLoad, TablesOK, TokensOK, db
    <2>2. RowOK(users[u])
      BY DEF TablesOK
    <2>3. SlotOK([Admin("update", u) EXCEPT !.pc = "update.write",
                  !.snap = users[u], !.pw = p])
      BY <2>2 DEF SlotOK, RowOK, Request, Admin, Idle, AdminPC, Op
    <2> QED BY <1>6, <2>1, <2>3, StartOK DEF UpdateLoad
  <1>7. ASSUME NEW u \in User, NEW p \in Password, NEW role \in RoleInputs,
               create_user_route(u, p, role)
        PROVE  LocalInv'
    <2>1. role \in Role /\ role # PENDING
      BY RoleInputsAssumption DEF Role, ASSIGNABLE_ROLES, PENDING
    <2>2. LET new == create_user(users, u, p, role, TRUE)
          IN  new \in [User -> UserRow] /\ \A v \in User : RowOK(new[v])
      BY <2>1, InsertOK DEF TablesOK
    <2> QED BY <1>7, <2>2 DEF create_user_route, TablesOK, TokensOK, SlotsOK
  <1>8. ASSUME NEW r \in Req, NEW u \in User, NEW p \in Password, Register(r, u, p)
        PROVE  LocalInv'
    <2>1. LET new == create_user(users, u, p, PENDING, FALSE)
          IN  new \in [User -> UserRow] /\ \A v \in User : RowOK(new[v])
      <3>1. PENDING \in Role
        BY DEF Role
      <3> QED BY <3>1, InsertOK DEF TablesOK
    <2>2. TablesOK' /\ TokensOK'
      BY <1>8, <2>1 DEF Register, TablesOK, TokensOK
    <2>3. SlotOK([Admin("register", u) EXCEPT !.pc = "register.sign"])
      BY PlainAdminOK DEF Op
    <2> QED BY <1>8, <2>2, <2>3, StartOK DEF Register
  <1>9. ASSUME NEW r \in Req, NEW k \in OneTime, NEW op \in Op, LinkFind(r, op, k)
        PROVE  LocalInv'
    <2>1. TablesOK' /\ TokensOK'
      BY <1>9 DEF LinkFind, TablesOK, TokensOK, db
    <2>2. oneTime[k].usr \in User /\ op \in {"quick_approve", "quick_reject"}
      BY <1>9 DEF LinkFind, Usable, TablesOK
    <2> DEFINE new == [Admin(op, oneTime[k].usr) EXCEPT !.pc = "link.consume", !.otk = k]
    <2>3. /\ new.pc = "link.consume" /\ new.op = op /\ new.usr = oneTime[k].usr
          /\ new.snap = NoUser /\ new.otk = k
      BY DEF Admin, Idle
    <2>4. new \in Request
      BY <2>2, IdleOK DEF Admin, Idle, Request, RowOK, AdminPC, Op
    <2>5. SlotOK(new)
      BY <2>2, <2>3, <2>4, IdleOK DEF SlotOK
    <2> QED BY <1>9, <2>1, <2>5, StartOK DEF LinkFind
  <1>10. ASSUME NEW r \in Req, NEW p \in Password, SeedStart(r, p)
         PROVE  LocalInv'
    <2>1. TablesOK' /\ TokensOK'
      BY <1>10 DEF SeedStart, TablesOK, TokensOK, db
    <2>2. SlotOK([Admin("seed_admin", SeedUser) EXCEPT !.pc = "count", !.pw = p])
      BY IdleOK, SeedAssumption DEF SlotOK, RowOK, Request, Admin, Idle, AdminPC, Op
    <2> QED BY <1>10, <2>1, <2>2, StartOK DEF SeedStart
  <1>11. ASSUME NEW r \in Req, AdminFails(r)
         PROVE  LocalInv'
    <2>1. TablesOK' /\ TokensOK' /\ Done(r)
      BY <1>11 DEF AdminFails, db, TablesOK, TokensOK
    <2> QED BY <2>1, DoneOK
  <1> QED BY <1>1, <1>2, <1>3, <1>4, <1>5, <1>6, <1>7, <1>8, <1>9, <1>10, <1>11
      DEF AdminStart

-----------------------------------------------------------------------------
\* The inductive invariant holds of every behaviour of the account service,
\* whatever handlers run at once and whatever fails.
THEOREM LocalInvariance == Spec => []LocalInv
  <1>1. Init => LocalInv
    <2> SUFFICES ASSUME Init PROVE LocalInv
      OBVIOUS
    <2>1. TablesOK
      BY InitAssumption DEF Init, TablesOK, RowOK, NoSession, SessionRow, NoOneTime,
         OneTimeRow
    <2>2. TokensOK
      BY InitAssumption DEF Init, TokensOK, NoClaim, Claim
    <2>3. SlotsOK
      BY IdleOK DEF Init, SlotsOK, SlotOK
    <2> QED BY <2>1, <2>2, <2>3 DEF LocalInv
  <1>2. LocalInv /\ [Next]_vars => LocalInv'
    <2> SUFFICES ASSUME LocalInv, [Next]_vars PROVE LocalInv'
      OBVIOUS
    <2>1. CASE Next
      BY <2>1, LocalInvAuthStart, LocalInvAdminStart, LocalInvAuthContinue,
         LocalInvAdminContinue, LocalInvEnvironment DEF Next
    <2>2. CASE UNCHANGED vars
      BY <2>2 DEF vars, LocalInv, TablesOK, TokensOK, SlotsOK
    <2> QED BY <2>1, <2>2
  <1> QED BY <1>1, <1>2, PTL DEF Spec

\* Every variable keeps its type, and a handler in flight always has an
\* account it is about.
THEOREM TypeCorrect == Spec => []TypeOK
  BY LocalInvariance, LocalInvImplies, PTL

\* No account is ever approved without a real role, and no access token
\* carries the role of a pending applicant.
THEOREM PendingStaysOut == Spec => []PendingNeverSignsIn
  BY LocalInvariance, LocalInvImplies, PTL

-----------------------------------------------------------------------------
(***************************************************************************)
(* The sessions table.  Whatever the handlers do, a step changes it in one *)
(* of five ways; the rest of the argument is about those five.             *)
(***************************************************************************)

Opens == \E r \in Req, f \in Family, t \in Token :
            /\ FreshFamily(f) /\ FreshToken(t)
            /\ req[r].usr \in User
            /\ sessions' = create_session(sessions, f, req[r].usr, t)
            /\ claims' = [claims EXCEPT ![t] = [sub |-> req[r].usr, fam |-> f]]
            /\ Done(r)
Rotates == \E f \in Family, t \in Token :
              FreshToken(t) /\ sessions' = rotate_session(sessions, f, t)
Revokes == \E S \in SUBSET Family : sessions' = RevokeRows(sessions, S)
Expires == \E f \in Family : /\ find_session_by_family(sessions, f)
                             /\ sessions' = [sessions EXCEPT ![f].expired = TRUE]
Purges == sessions' = PurgedSessions(sessions)

\* RevokeRows looks only at the families among its argument.
LEMMA RevokeSelection ==
    ASSUME NEW ss, NEW S
    PROVE  RevokeRows(ss, S) = RevokeRows(ss, S \cap Family)
  BY DEF RevokeRows

\* Each best-effort revocation is a revocation or leaves the table alone.
LEMMA BestEffortRevokes ==
    ASSUME NEW S, BestEffort(RevokeRows(sessions, S))
    PROVE  Revokes \/ UNCHANGED sessions
  <1>1. CASE sessions' = RevokeRows(sessions, S)
    <2>1. sessions' = RevokeRows(sessions, S \cap Family)
      BY <1>1, RevokeSelection
    <2>2. S \cap Family \in SUBSET Family
      OBVIOUS
    <2> QED BY <2>1, <2>2 DEF Revokes
  <1> QED BY <1>1 DEF BestEffort

\* Every step opens one session, rotates one token, revokes some sessions,
\* expires one, purges, or leaves the table alone.
LEMMA SessionMoves ==
    ASSUME LocalInv, Next
    PROVE  Opens \/ Rotates \/ Revokes \/ Expires \/ Purges \/ UNCHANGED sessions
  <1>1. CASE AuthStart
    <2>1. ASSUME NEW a \in access, logout_all(a) PROVE Revokes
      <3>1. SessionsOf(sessions, a.sub) \in SUBSET Family
        BY DEF SessionsOf
      <3> QED BY <2>1, <3>1 DEF logout_all, revoke_all_sessions_for_user, Revokes
    <2>2. ASSUME NEW a \in access, NEW f \in Family, revoke_own_session(a, f)
          PROVE  Revokes
      <3>1. {f} \cap SessionsOf(sessions, a.sub) \in SUBSET Family
        OBVIOUS
      <3> QED BY <2>2, <3>1 DEF revoke_own_session, revoke_session_owned_by_user, Revokes
    <2> QED BY <1>1, <2>1, <2>2 DEF AuthStart, LoginLoad, RefreshFind, LogoutFind,
            forgot_password, ResetFind, db
  <1>2. CASE AdminStart
    BY <1>2 DEF AdminStart, BanStart, DeleteStart, ChangeRoleStart, FlagsStart,
       reject_user, UpdateLoad, create_user_route, Register, LinkFind, SeedStart,
       AdminFails, db
  <1>3. ASSUME NEW r \in Req, AuthContinue(r)
        PROVE  Opens \/ Rotates \/ Revokes \/ UNCHANGED sessions
    <2>0. SlotOK(req[r])
      BY DEF LocalInv, SlotsOK
    <2>1. CASE issue_session(r)
      <3>1. req[r].usr \in User
        BY <2>0, <2>1 DEF issue_session, At, SlotOK
      <3> QED BY <2>1, <3>1 DEF issue_session, Opens
    <2>2. CASE RefreshRotate(r)
      <3>1. req[r].fam \in Family
        BY <2>0, <2>2 DEF RefreshRotate, At, SlotOK
      <3> QED BY <2>2, <3>1 DEF RefreshRotate, Rotates
    <2>3. CASE RefreshReuse(r)
      BY <2>3, BestEffortRevokes DEF RefreshReuse, revoke_session_family
    <2>4. CASE RefreshDead(r) \/ LogoutRevoke(r)
      BY <2>4, BestEffortRevokes DEF RefreshDead, LogoutRevoke, revoke_session
    <2>5. CASE RevokeAllAfterWrite(r)
      BY <2>5, BestEffortRevokes DEF RevokeAllAfterWrite, revoke_all_sessions_for_user
    <2>6. CASE RefreshLoadUser(r) \/ ResetConsume(r) \/ ResetWrite(r)
      BY <2>6 DEF RefreshLoadUser, ResetConsume, ResetWrite, db
    <2> QED BY <1>3, <2>1, <2>2, <2>3, <2>4, <2>5, <2>6 DEF AuthContinue
  <1>4. ASSUME NEW r \in Req, AdminContinue(r)
        PROVE  Revokes \/ UNCHANGED sessions
    <2>1. CASE DeleteRevoke(r)
      BY <2>1, BestEffortRevokes DEF DeleteRevoke, revoke_all_sessions_for_user
    <2> QED BY <1>4, <2>1 DEF AdminContinue, CountAdmins, FlagsLoad, FlagsWrite,
            DeleteWrite, UpdateWrite, sign_approval_token, LinkConsume, LinkReject,
            SeedWrite, db
  <1>5. CASE Environment
    BY <1>5 DEF Environment, purge_expired_auth_records, ExpireSession, ExpireOneTime,
       ExpireAccess, ForgetToken, Abort, Fails, db, Purges, Expires
  <1> QED BY <1>1, <1>2, <1>3, <1>4, <1>5 DEF Next

\* A row that does not exist holds nothing; in particular a purge clears it.
FreeRowsBlank == \A f \in Family : sessions[f].st = "free" => sessions[f] = NoSession

\* Each of the five ways keeps free rows blank.
LEMMA TableStep ==
    ASSUME LocalInv, FreeRowsBlank,
           Opens \/ Rotates \/ Revokes \/ Expires \/ Purges \/ UNCHANGED sessions
    PROVE  FreeRowsBlank'
  <1>0. sessions \in [Family -> SessionRow]
    BY DEF LocalInv, TablesOK
  <1>1. CASE Opens
    <2>1. PICK f \in Family, t \in Token, u \in User :
             FreshToken(t) /\ sessions' = create_session(sessions, f, u, t)
      BY <1>1 DEF Opens
    <2>2. \A g \in Family : sessions'[g] =
            IF g = f THEN [st |-> "active", usr |-> u, hash |-> t, expired |-> FALSE]
            ELSE sessions[g]
      BY <1>0, <2>1 DEF create_session
    <2> QED BY <2>2 DEF FreeRowsBlank
  <1>2. CASE Rotates
    <2>1. PICK f \in Family, t \in Token :
             FreshToken(t) /\ sessions' = rotate_session(sessions, f, t)
      BY <1>2 DEF Rotates
    <2>2. CASE sessions[f].st = "active"
      <3>1. \A g \in Family : sessions'[g] =
              IF g = f THEN [sessions[f] EXCEPT !.hash = t, !.expired = FALSE]
              ELSE sessions[g]
        BY <1>0, <2>1, <2>2 DEF rotate_session
      <3>2. sessions'[f].st = "active" /\ sessions'[f].hash = t
        BY <1>0, <2>2, <3>1 DEF SessionRow
      <3> QED BY <3>1, <3>2 DEF FreeRowsBlank
    <2>3. CASE sessions[f].st # "active"
      BY <2>1, <2>3 DEF rotate_session, FreeRowsBlank
    <2> QED BY <2>2, <2>3
  <1>3. CASE Revokes
    <2>1. PICK S \in SUBSET Family : sessions' = RevokeRows(sessions, S)
      BY <1>3 DEF Revokes
    <2>2. \A g \in Family : sessions'[g] = sessions[g] \/ sessions'[g].st = "revoked"
      BY <1>0, <2>1 DEF RevokeRows, SessionRow
    <2> QED BY <2>2 DEF FreeRowsBlank
  <1>4. CASE Expires
    <2>1. PICK f \in Family : /\ find_session_by_family(sessions, f)
                              /\ sessions' = [sessions EXCEPT ![f].expired = TRUE]
      BY <1>4 DEF Expires
    <2>2. \A g \in Family : sessions'[g] = sessions[g] \/ sessions'[g].st # "free"
      BY <1>0, <2>1 DEF find_session_by_family, SessionRow
    <2> QED BY <2>2 DEF FreeRowsBlank
  <1>5. CASE Purges
    <2>1. \A g \in Family : sessions'[g] = sessions[g] \/ sessions'[g] = NoSession
      BY <1>5 DEF Purges, PurgedSessions
    <2> QED BY <2>1 DEF FreeRowsBlank
  <1>6. CASE UNCHANGED sessions
    BY <1>6 DEF FreeRowsBlank
  <1> QED BY <1>1, <1>2, <1>3, <1>4, <1>5, <1>6

\* Free rows stay blank in every behaviour.
LEMMA TableInvariance == Spec => []FreeRowsBlank
  <1>1. Init => FreeRowsBlank
    BY DEF Init, FreeRowsBlank, NoSession
  <1>2. LocalInv /\ FreeRowsBlank /\ [Next]_vars => FreeRowsBlank'
    <2> SUFFICES ASSUME LocalInv, FreeRowsBlank, [Next]_vars PROVE FreeRowsBlank'
      OBVIOUS
    <2>1. CASE Next
      BY <2>1, SessionMoves, TableStep
    <2>2. CASE UNCHANGED vars
      BY <2>2 DEF vars, FreeRowsBlank
    <2> QED BY <2>1, <2>2
  <1> QED BY <1>1, <1>2, LocalInvariance, PTL DEF Spec

-----------------------------------------------------------------------------
\* The sessions table, under all handlers at once, implements SessionLifecycle:
\* a revoked session never comes back and its token is never replaced.
THEOREM SessionsRefine == Spec => SessionsFollowLifecycle
  <1>1. Init => Table!Init
    BY DEF Init, Table!Init, Table!Free, NoSession
  <1>2. LocalInv /\ FreeRowsBlank /\ [Next]_vars => [Table!Next]_sessions
    <2> SUFFICES ASSUME LocalInv, FreeRowsBlank, Next PROVE [Table!Next]_sessions
      BY DEF vars
    <2>0. sessions \in [Family -> SessionRow]
      BY DEF LocalInv, TablesOK
    <2>1. CASE Opens
      <3>1. PICK f \in Family, t \in Token, u \in User :
              /\ FreshFamily(f) /\ FreshToken(t)
              /\ sessions' = create_session(sessions, f, u, t)
        BY <2>1 DEF Opens
      <3>2. sessions[f] = Table!Free
        BY <3>1, <2>0 DEF FreeRowsBlank, FreshFamily, find_session_by_family, Table!Free,
           NoSession
      <3>3. Table!Open(f, u, t)
        BY <3>1, <3>2 DEF Table!Open, Table!Unused, FreshToken, create_session
      <3> QED BY <3>3 DEF Table!Next
    <2>2. CASE Rotates
      <3>1. PICK f \in Family, t \in Token :
              FreshToken(t) /\ sessions' = rotate_session(sessions, f, t)
        BY <2>2 DEF Rotates
      <3>2. CASE sessions[f].st = "active"
        <4>1. Table!Rotate(f, t)
          BY <3>1, <3>2 DEF Table!Rotate, Table!Unused, FreshToken, rotate_session
        <4> QED BY <4>1 DEF Table!Next
      <3>3. CASE sessions[f].st # "active"
        BY <3>1, <3>3 DEF rotate_session
      <3> QED BY <3>2, <3>3
    <2>3. CASE Revokes
      <3>1. PICK S \in SUBSET Family : sessions' = RevokeRows(sessions, S)
        BY <2>3 DEF Revokes
      <3> DEFINE F == {f \in S : sessions[f].st = "active"}
      <3>2. F \in SUBSET Family
        OBVIOUS
      <3>3. Table!Revoke(F)
        BY <3>1 DEF Table!Revoke, RevokeRows
      <3> QED BY <3>2, <3>3 DEF Table!Next
    <2>4. CASE Expires
      BY <2>4 DEF Expires, Table!Next, Table!Expire, find_session_by_family
    <2>5. CASE Purges
      BY <2>5 DEF Purges, PurgedSessions, Table!Next, Table!Purge, Table!Free, NoSession
    <2>6. CASE UNCHANGED sessions
      BY <2>6
    <2> QED BY <2>1, <2>2, <2>3, <2>4, <2>5, <2>6, SessionMoves
  <1> QED BY <1>1, <1>2, LocalInvariance, TableInvariance, PTL
      DEF Spec, SessionsFollowLifecycle, Table!Spec

-----------------------------------------------------------------------------
(***************************************************************************)
(* Who a token speaks for.  A request gets its family and its account      *)
(* together, from one refresh token, and keeps both.                       *)
(***************************************************************************)

\* Where the family of each request comes from in a step.
FamiliesKept ==
    \A q \in Req : \/ req'[q].fam = None
                   \/ req'[q].fam = req[q].fam /\ req'[q].usr = req[q].usr
                   \/ \E t \in Token : /\ req'[q].fam = claims[t].fam
                                       /\ req'[q].usr = claims[t].sub

\* Where each refresh token comes from in a step that opens no session.
ClaimsKept ==
    \A s \in Token : \/ claims'[s] = claims[s]
                     \/ claims'[s] = NoClaim
                     \/ \E r \in Req : claims'[s] = [sub |-> req[r].usr,
                                                     fam |-> req[r].fam]

\* A handler that ends, or that moves on, keeps families with their accounts.
LEMMA SlotMoves ==
    ASSUME LocalInv, NEW r \in Req,
           Done(r) \/ \E pc : Goto(r, pc)
    PROVE  FamiliesKept
  <1>0. req \in [Req -> Request]
    BY DEF LocalInv, SlotsOK
  <1>1. CASE Done(r)
    BY <1>0, <1>1 DEF Done, Idle, FamiliesKept
  <1>2. ASSUME NEW pc, Goto(r, pc) PROVE FamiliesKept
    BY <1>0, <1>2 DEF Goto, Request, FamiliesKept
  <1> QED BY <1>1, <1>2

\* So does a request that starts without a session, or that reads a row.
LEMMA SlotStarts ==
    ASSUME LocalInv, NEW r \in Req, NEW new, Start(r, new),
           \/ new.fam = None
           \/ new.fam = req[r].fam /\ new.usr = req[r].usr
           \/ \E t \in Token : new.fam = claims[t].fam /\ new.usr = claims[t].sub
    PROVE  FamiliesKept
  BY DEF LocalInv, SlotsOK, Start, FamiliesKept

\* No step parts a family from its account.
LEMMA RequestsKeepFamilies ==
    ASSUME LocalInv, Next
    PROVE  FamiliesKept
  <1>0. req \in [Req -> Request]
    BY DEF LocalInv, SlotsOK
  <1>1. CASE UNCHANGED req
    BY <1>1 DEF FamiliesKept
  <1>2. CASE AuthStart
    <2>1. ASSUME NEW r \in Req, NEW u \in User, NEW p \in Password, LoginLoad(r, u, p)
          PROVE  FamiliesKept
      <3>1. [Idle EXCEPT !.pc = "login.issue", !.op = "login",
                         !.usr = u, !.snap = users[u]].fam = None
        BY DEF Idle
      <3> QED BY <2>1, <3>1, SlotStarts DEF LoginLoad
    <2>2. ASSUME NEW r \in Req, NEW t \in Token, RefreshFind(r, t)
          PROVE  FamiliesKept
      <3>1. PICK pc : Start(r, [Idle EXCEPT !.op = "refresh", !.usr = claims[t].sub,
                                  !.fam = claims[t].fam, !.tok = t, !.pc = pc])
        BY <2>2, Zenon DEF RefreshFind
      <3> DEFINE new == [Idle EXCEPT !.op = "refresh", !.usr = claims[t].sub,
                                  !.fam = claims[t].fam, !.tok = t, !.pc = pc]
      <3>2. new.fam = claims[t].fam /\ new.usr = claims[t].sub
        BY DEF Idle
      <3> QED BY <3>1, <3>2, SlotStarts
    <2>3. ASSUME NEW r \in Req, NEW t \in Token, LogoutFind(r, t)
          PROVE  FamiliesKept
      <3> DEFINE new == [Idle EXCEPT !.pc = "logout.revoke", !.op = "logout",
                     !.usr = claims[t].sub, !.fam = claims[t].fam, !.tok = t]
      <3>1. new.fam = claims[t].fam /\ new.usr = claims[t].sub
        BY DEF Idle
      <3> QED BY <2>3, <3>1, SlotStarts DEF LogoutFind
    <2>4. ASSUME NEW r \in Req, NEW k \in OneTime, NEW p \in Password, ResetFind(r, k, p)
          PROVE  FamiliesKept
      <3>1. [Idle EXCEPT !.pc = "reset.consume", !.op = "reset_password",
                         !.usr = oneTime[k].usr, !.otk = k, !.pw = p].fam = None
        BY DEF Idle
      <3> QED BY <2>4, <3>1, SlotStarts DEF ResetFind
    <2> QED BY <1>1, <1>2, <2>1, <2>2, <2>3, <2>4 DEF AuthStart, logout_all,
            revoke_own_session, forgot_password
  <1>3. CASE AdminStart
    <2>1. ASSUME NEW r \in Req, NEW u \in User, BanStart(r, u) PROVE FamiliesKept
      <3>1. PICK pc : Start(r, [Admin("ban", u) EXCEPT !.pc = pc])
        BY <2>1, Zenon DEF BanStart, LastAdminCheck
      <3>2. [Admin("ban", u) EXCEPT !.pc = pc].fam = None
        BY DEF Admin, Idle
      <3> QED BY <3>1, <3>2, SlotStarts
    <2>2. ASSUME NEW r \in Req, NEW u \in User, DeleteStart(r, u) PROVE FamiliesKept
      <3>1. PICK pc : Start(r, [Admin("delete", u) EXCEPT !.pc = pc])
        BY <2>2, Zenon DEF DeleteStart, LastAdminCheck
      <3>2. [Admin("delete", u) EXCEPT !.pc = pc].fam = None
        BY DEF Admin, Idle
      <3> QED BY <3>1, <3>2, SlotStarts
    <2>3. ASSUME NEW r \in Req, NEW u \in User, NEW role \in RoleInputs,
                 ChangeRoleStart(r, u, role)
          PROVE  FamiliesKept
      <3>1. PICK pc : Start(r, [Admin("role", u) EXCEPT !.role = role, !.pc = pc])
        BY <2>3, Zenon DEF ChangeRoleStart
      <3>2. [Admin("role", u) EXCEPT !.role = role, !.pc = pc].fam = None
        BY DEF Admin, Idle
      <3> QED BY <3>1, <3>2, SlotStarts
    <2>4. ASSUME NEW r \in Req, NEW u \in User, NEW op \in Op, FlagsStart(r, op, u)
          PROVE  FamiliesKept
      <3>1. [Admin(op, u) EXCEPT !.pc = "flags.load"].fam = None
        BY DEF Admin, Idle
      <3> QED BY <2>4, <3>1, SlotStarts DEF FlagsStart
    <2>5. ASSUME NEW r \in Req, NEW u \in User, NEW p \in Password \cup {None},
                 UpdateLoad(r, u, p)
          PROVE  FamiliesKept
      <3>1. [Admin("update", u) EXCEPT !.pc = "update.write",
                 !.snap = users[u], !.pw = p].fam = None
        BY DEF Admin, Idle
      <3> QED BY <2>5, <3>1, SlotStarts DEF UpdateLoad
    <2>6. ASSUME NEW r \in Req, NEW u \in User, NEW p \in Password, Register(r, u, p)
          PROVE  FamiliesKept
      <3>1. [Admin("register", u) EXCEPT !.pc = "register.sign"].fam = None
        BY DEF Admin, Idle
      <3> QED BY <2>6, <3>1, SlotStarts DEF Register
    <2>7. ASSUME NEW r \in Req, NEW k \in OneTime, NEW op \in Op, LinkFind(r, op, k)
          PROVE  FamiliesKept
      <3>1. [Admin(op, oneTime[k].usr) EXCEPT !.pc = "link.consume", !.otk = k].fam = None
        BY DEF Admin, Idle
      <3> QED BY <2>7, <3>1, SlotStarts DEF LinkFind
    <2>8. ASSUME NEW r \in Req, NEW p \in Password, SeedStart(r, p) PROVE FamiliesKept
      <3>1. [Admin("seed_admin", SeedUser) EXCEPT !.pc = "count", !.pw = p].fam = None
        BY DEF Admin, Idle
      <3> QED BY <2>8, <3>1, SlotStarts DEF SeedStart
    <2>9. ASSUME NEW r \in Req, AdminFails(r) PROVE FamiliesKept
      BY <2>9, SlotMoves DEF AdminFails
    <2> QED BY <1>1, <1>3, <2>1, <2>2, <2>3, <2>4, <2>5, <2>6, <2>7, <2>8, <2>9
            DEF AdminStart, reject_user, create_user_route
  <1>4. ASSUME NEW r \in Req, AuthContinue(r) PROVE FamiliesKept
    <2>1. CASE RefreshLoadUser(r)
      <3> DEFINE new == [req[r] EXCEPT !.pc = "refresh.rotate",
                                       !.snap = users[req[r].usr]]
      <3>1. new.fam = req[r].fam /\ new.usr = req[r].usr
        BY <1>0 DEF Request
      <3> QED BY <2>1, <3>1, SlotMoves, SlotStarts DEF RefreshLoadUser
    <2> QED BY <1>4, <2>1, SlotMoves DEF AuthContinue, issue_session, RefreshRotate,
            RefreshReuse, RefreshDead, LogoutRevoke, ResetConsume, ResetWrite,
            RevokeAllAfterWrite
  <1>5. ASSUME NEW r \in Req, AdminContinue(r) PROVE FamiliesKept
    <2>1. CASE FlagsLoad(r)
      <3> DEFINE new == [req[r] EXCEPT !.pc = "flags.write", !.snap = users[req[r].usr]]
      <3>1. new.fam = req[r].fam /\ new.usr = req[r].usr
        BY <1>0 DEF Request
      <3> QED BY <2>1, <3>1, SlotMoves, SlotStarts DEF FlagsLoad
    <2> QED BY <1>5, <2>1, SlotMoves DEF AdminContinue, CountAdmins, FlagsWrite,
            DeleteWrite, DeleteRevoke, UpdateWrite, sign_approval_token, LinkConsume,
            LinkReject, SeedWrite
  <1>6. CASE Environment
    BY <1>1, <1>6, SlotMoves DEF Environment, purge_expired_auth_records, ExpireSession,
       ExpireOneTime, ExpireAccess, ForgetToken, Abort, Fails
  <1> QED BY <1>2, <1>3, <1>4, <1>5, <1>6 DEF Next

\* A row keeps its owner for as long as it exists, unless the step opens it.
OwnersKept == \A f \in Family : sessions'[f].st # "free" =>
                 sessions[f].st # "free" /\ sessions'[f].usr = sessions[f].usr

\* Rotating, revoking, expiring and purging keep every row with its owner.
LEMMA TableKeepsOwners ==
    ASSUME LocalInv, Rotates \/ Revokes \/ Expires \/ Purges \/ UNCHANGED sessions
    PROVE  OwnersKept
  <1>0. sessions \in [Family -> SessionRow]
    BY DEF LocalInv, TablesOK
  <1>1. CASE Rotates
    BY <1>0, <1>1 DEF Rotates, rotate_session, SessionRow, OwnersKept
  <1>2. CASE Revokes
    BY <1>0, <1>2 DEF Revokes, RevokeRows, SessionRow, OwnersKept
  <1>3. CASE Expires
    BY <1>0, <1>3 DEF Expires, find_session_by_family, SessionRow, OwnersKept
  <1>4. CASE Purges
    BY <1>0, <1>4 DEF Purges, PurgedSessions, NoSession, OwnersKept
  <1>5. CASE UNCHANGED sessions
    BY <1>5 DEF OwnersKept
  <1> QED BY <1>1, <1>2, <1>3, <1>4, <1>5

\* Only issuing a session gives out a token for a family that no request holds.
LEMMA ClaimsMove ==
    ASSUME LocalInv, Next
    PROVE  ClaimsKept \/ Opens
  <1>0. claims \in [Token -> Claim]
    BY DEF LocalInv, TokensOK
  <1>1. CASE UNCHANGED claims
    BY <1>1 DEF ClaimsKept
  <1>2. ASSUME NEW r \in Req, issue_session(r) PROVE Opens
    <2>1. req[r].usr \in User
      BY <1>2 DEF issue_session, At, LocalInv, SlotsOK, SlotOK
    <2> QED BY <1>2, <2>1 DEF issue_session, Opens
  <1>3. ASSUME NEW r \in Req, RefreshRotate(r) PROVE ClaimsKept
    BY <1>0, <1>3 DEF RefreshRotate, ClaimsKept
  <1>4. ASSUME NEW t \in Token, ForgetToken(t) PROVE ClaimsKept
    BY <1>0, <1>4 DEF ForgetToken, ClaimsKept
  <1>5. CASE AuthStart
    BY <1>1, <1>5 DEF AuthStart, LoginLoad, RefreshFind, LogoutFind, logout_all,
       revoke_own_session, forgot_password, ResetFind
  <1>6. CASE AdminStart
    BY <1>1, <1>6 DEF AdminStart, BanStart, DeleteStart, ChangeRoleStart, FlagsStart,
       reject_user, UpdateLoad, create_user_route, Register, LinkFind, SeedStart,
       AdminFails
  <1>7. ASSUME NEW r \in Req, AuthContinue(r) PROVE ClaimsKept \/ Opens
    BY <1>1, <1>2, <1>3, <1>7 DEF AuthContinue, RefreshLoadUser, RefreshReuse,
       RefreshDead, LogoutRevoke, ResetConsume, ResetWrite, RevokeAllAfterWrite
  <1>8. ASSUME NEW r \in Req, AdminContinue(r) PROVE ClaimsKept \/ Opens
    BY <1>1, <1>8 DEF AdminContinue, CountAdmins, FlagsLoad, FlagsWrite, DeleteWrite,
       DeleteRevoke, UpdateWrite, sign_approval_token, LinkConsume, LinkReject, SeedWrite
  <1>9. CASE Environment
    BY <1>1, <1>4, <1>9 DEF Environment, purge_expired_auth_records, ExpireSession,
       ExpireOneTime, ExpireAccess, Abort, Fails
  <1> QED BY <1>5, <1>6, <1>7, <1>8, <1>9 DEF Next

\* refresh and logout may trust the account that a refresh token names: it is
\* the owner of the row the token points at.
THEOREM TokensSpeakForOwners == Spec => []TokensNameTheirSession
  <1>1. Init => TokensNameTheirSession
    BY NoneIsNoKey DEF Init, TokensNameTheirSession, NoClaim, Idle
  <1>2. LocalInv /\ TokensNameTheirSession /\ [Next]_vars => TokensNameTheirSession'
    <2> SUFFICES ASSUME LocalInv, TokensNameTheirSession, [Next]_vars
                 PROVE  TokensNameTheirSession'
      OBVIOUS
    <2>0. /\ sessions \in [Family -> SessionRow] /\ claims \in [Token -> Claim]
          /\ req \in [Req -> Request]
      BY DEF LocalInv, TablesOK, TokensOK, SlotsOK
    <2>1. CASE Opens
      <3>1. PICK r \in Req, f \in Family, t \in Token :
               /\ FreshFamily(f)
               /\ sessions' = create_session(sessions, f, req[r].usr, t)
               /\ claims' = [claims EXCEPT ![t] = [sub |-> req[r].usr, fam |-> f]]
               /\ Done(r)
        BY <2>1 DEF Opens
      <3>2. sessions'[f].usr = req[r].usr /\ \A g \in Family \ {f} : sessions'[g] = sessions[g]
        BY <2>0, <3>1 DEF create_session
      <3>3. \A s \in Token : IF s = t THEN claims'[s] = [sub |-> req[r].usr, fam |-> f]
                             ELSE claims'[s] = claims[s] /\ claims[s].fam # f
        BY <2>0, <3>1 DEF FreshFamily
      <3>4. \A q \in Req : req'[q].fam = None \/ (req'[q] = req[q] /\ req[q].fam # f)
        BY <2>0, <3>1 DEF FreshFamily, Done, Idle
      <3>5. \A s \in Token :
               claims'[s].fam \in Family /\ sessions'[claims'[s].fam].st # "free"
                  => sessions'[claims'[s].fam].usr = claims'[s].sub
        BY <3>2, <3>3 DEF TokensNameTheirSession
      <3>6. \A q \in Req :
               req'[q].fam \in Family /\ sessions'[req'[q].fam].st # "free"
                  => sessions'[req'[q].fam].usr = req'[q].usr
        BY <3>2, <3>4, NoneIsNoKey DEF TokensNameTheirSession
      <3> QED BY <3>5, <3>6 DEF TokensNameTheirSession
    <2>2. CASE Next /\ ~Opens
      <3>1. OwnersKept /\ ClaimsKept /\ FamiliesKept
        BY <2>2, SessionMoves, TableKeepsOwners, ClaimsMove, RequestsKeepFamilies
      <3>2. ASSUME NEW s \in Token, claims'[s].fam \in Family,
                   sessions'[claims'[s].fam].st # "free"
            PROVE  sessions'[claims'[s].fam].usr = claims'[s].sub
        <4>1. CASE claims'[s] = claims[s]
          BY <3>1, <3>2, <4>1 DEF OwnersKept, TokensNameTheirSession
        <4>2. CASE claims'[s] = NoClaim
          BY <3>2, <4>2, NoneIsNoKey DEF NoClaim
        <4>3. ASSUME NEW r \in Req, claims'[s] = [sub |-> req[r].usr, fam |-> req[r].fam]
              PROVE  sessions'[claims'[s].fam].usr = claims'[s].sub
          BY <3>1, <3>2, <4>3 DEF OwnersKept, TokensNameTheirSession
        <4> QED BY <3>1, <4>1, <4>2, <4>3 DEF ClaimsKept
      <3>3. ASSUME NEW q \in Req, req'[q].fam \in Family,
                   sessions'[req'[q].fam].st # "free"
            PROVE  sessions'[req'[q].fam].usr = req'[q].usr
        <4>1. CASE req'[q].fam = None
          BY <3>3, <4>1, NoneIsNoKey
        <4>2. CASE req'[q].fam = req[q].fam /\ req'[q].usr = req[q].usr
          BY <3>1, <3>3, <4>2 DEF OwnersKept, TokensNameTheirSession
        <4>3. ASSUME NEW t \in Token, req'[q].fam = claims[t].fam,
                     req'[q].usr = claims[t].sub
              PROVE  sessions'[req'[q].fam].usr = req'[q].usr
          BY <3>1, <3>3, <4>3 DEF OwnersKept, TokensNameTheirSession
        <4> QED BY <3>1, <4>1, <4>2, <4>3 DEF FamiliesKept
      <3> QED BY <3>2, <3>3 DEF TokensNameTheirSession
    <2>3. CASE UNCHANGED vars
      BY <2>3 DEF vars, TokensNameTheirSession
    <2> QED BY <2>1, <2>2, <2>3
  <1> QED BY <1>1, <1>2, LocalInvariance, PTL DEF Spec

-----------------------------------------------------------------------------
(***************************************************************************)
(* One-time links.  A step starts at most one request acting on a link,    *)
(* by spending that link, and a link becomes spendable only when no        *)
(* request mentions it.                                                    *)
(***************************************************************************)

ActsKept == \A q \in Req : Acts(req'[q]) => Acts(req[q]) /\ req'[q].otk = req[q].otk
Spends == \E r \in Req :
             /\ req[r].otk \in OneTime
             /\ Consumable(oneTime, req[r].otk)
             /\ oneTime' = consume_approval_token(oneTime, req[r].otk)
             /\ req'[r].otk = req[r].otk
             /\ \A q \in Req \ {r} : req'[q] = req[q]
LinksKept == \A k \in OneTime : oneTime'[k].st = "live" =>
                oneTime[k].st = "live" \/ FreshOneTime(k)

\* A request that ends acts on nothing.
LEMMA DoneActs ==
    ASSUME LocalInv, NEW r \in Req, Done(r)
    PROVE  ActsKept
  BY DEF LocalInv, SlotsOK, Done, Idle, Acts, ActsKept

\* A request that starts acts on nothing unless it already did.
LEMMA StartActs ==
    ASSUME LocalInv, NEW r \in Req, NEW new, Start(r, new),
           Acts(new) => Acts(req[r]) /\ new.otk = req[r].otk
    PROVE  ActsKept
  BY DEF LocalInv, SlotsOK, Start, ActsKept

\* A request that moves on to a statement that acts on no link.
LEMMA GotoActs ==
    ASSUME LocalInv, NEW r \in Req, NEW pc, Goto(r, pc),
           pc \notin {"reset.write", "reject.write"},
           pc \notin {"flags.load", "flags.write"} \/ req[r].op # "quick_approve"
    PROVE  ActsKept
  BY DEF LocalInv, SlotsOK, Request, Goto, Acts, ActsKept

\* Every step either keeps the acting requests or spends one link.
LEMMA ActsMove ==
    ASSUME LocalInv, Next
    PROVE  ActsKept \/ Spends
  <1>0. req \in [Req -> Request] /\ \A r \in Req : SlotOK(req[r])
    BY DEF LocalInv, SlotsOK
  <1>1. CASE UNCHANGED req
    BY <1>1 DEF ActsKept
  <1>2. CASE AuthStart
    <2>1. ASSUME NEW r \in Req, NEW u \in User, NEW p \in Password, LoginLoad(r, u, p)
          PROVE  ActsKept
      <3>1. ~Acts([Idle EXCEPT !.pc = "login.issue", !.op = "login",
                               !.usr = u, !.snap = users[u]])
        BY DEF Idle, Acts
      <3> QED BY <2>1, <3>1, StartActs DEF LoginLoad
    <2>2. ASSUME NEW r \in Req, NEW t \in Token, RefreshFind(r, t)
          PROVE  ActsKept
      <3>1. PICK pc \in {"refresh.reuse", "refresh.dead", "refresh.user"} :
               Start(r, [Idle EXCEPT !.op = "refresh", !.usr = claims[t].sub,
                                     !.fam = claims[t].fam, !.tok = t, !.pc = pc])
        BY <2>2, Zenon DEF RefreshFind
      <3>2. ~Acts([Idle EXCEPT !.op = "refresh", !.usr = claims[t].sub,
                               !.fam = claims[t].fam, !.tok = t, !.pc = pc])
        BY DEF Idle, Acts
      <3> QED BY <3>1, <3>2, StartActs
    <2>3. ASSUME NEW r \in Req, NEW t \in Token, LogoutFind(r, t)
          PROVE  ActsKept
      <3>1. ~Acts([Idle EXCEPT !.pc = "logout.revoke", !.op = "logout",
                     !.usr = claims[t].sub, !.fam = claims[t].fam, !.tok = t])
        BY DEF Idle, Acts
      <3> QED BY <2>3, <3>1, StartActs DEF LogoutFind
    <2>4. ASSUME NEW r \in Req, NEW k \in OneTime, NEW p \in Password, ResetFind(r, k, p)
          PROVE  ActsKept
      <3>1. ~Acts([Idle EXCEPT !.pc = "reset.consume", !.op = "reset_password",
                               !.usr = oneTime[k].usr, !.otk = k, !.pw = p])
        BY DEF Idle, Acts
      <3> QED BY <2>4, <3>1, StartActs DEF ResetFind
    <2> QED BY <1>1, <1>2, <2>1, <2>2, <2>3, <2>4 DEF AuthStart, logout_all,
            revoke_own_session, forgot_password
  <1>3. CASE AdminStart
    <2>1. ASSUME NEW r \in Req, NEW u \in User, BanStart(r, u) PROVE ActsKept
      <3>1. PICK pc : Start(r, [Admin("ban", u) EXCEPT !.pc = pc])
                      /\ pc \in {"count", "flags.load"}
        BY <2>1, Zenon DEF BanStart, LastAdminCheck
      <3>2. ~Acts([Admin("ban", u) EXCEPT !.pc = pc])
        BY <3>1 DEF Admin, Idle, Acts
      <3> QED BY <3>1, <3>2, StartActs
    <2>2. ASSUME NEW r \in Req, NEW u \in User, DeleteStart(r, u) PROVE ActsKept
      <3>1. PICK pc : Start(r, [Admin("delete", u) EXCEPT !.pc = pc])
                      /\ pc \in {"count", "delete.write"}
        BY <2>2, Zenon DEF DeleteStart, LastAdminCheck
      <3>2. ~Acts([Admin("delete", u) EXCEPT !.pc = pc])
        BY <3>1 DEF Admin, Idle, Acts
      <3> QED BY <3>1, <3>2, StartActs
    <2>3. ASSUME NEW r \in Req, NEW u \in User, NEW role \in RoleInputs,
                 ChangeRoleStart(r, u, role)
          PROVE  ActsKept
      <3>1. PICK pc : Start(r, [Admin("role", u) EXCEPT !.role = role, !.pc = pc])
                      /\ pc \in {"count", "flags.load"}
        BY <2>3, Zenon DEF ChangeRoleStart
      <3>2. ~Acts([Admin("role", u) EXCEPT !.role = role, !.pc = pc])
        BY <3>1 DEF Admin, Idle, Acts
      <3> QED BY <3>1, <3>2, StartActs
    <2>4. ASSUME NEW r \in Req, NEW u \in User, NEW op \in Op, FlagsStart(r, op, u)
          PROVE  ActsKept
      <3>1. ~Acts([Admin(op, u) EXCEPT !.pc = "flags.load"])
        BY <2>4 DEF FlagsStart, Admin, Idle, Acts
      <3> QED BY <2>4, <3>1, StartActs DEF FlagsStart
    <2>5. ASSUME NEW r \in Req, NEW u \in User, NEW p \in Password \cup {None},
                 UpdateLoad(r, u, p)
          PROVE  ActsKept
      <3>1. ~Acts([Admin("update", u) EXCEPT !.pc = "update.write",
                   !.snap = users[u], !.pw = p])
        BY DEF Admin, Idle, Acts
      <3> QED BY <2>5, <3>1, StartActs DEF UpdateLoad
    <2>6. ASSUME NEW r \in Req, NEW u \in User, NEW p \in Password, Register(r, u, p)
          PROVE  ActsKept
      <3>1. ~Acts([Admin("register", u) EXCEPT !.pc = "register.sign"])
        BY DEF Admin, Idle, Acts
      <3> QED BY <2>6, <3>1, StartActs DEF Register
    <2>7. ASSUME NEW r \in Req, NEW k \in OneTime, NEW op \in Op, LinkFind(r, op, k)
          PROVE  ActsKept
      <3>1. ~Acts([Admin(op, oneTime[k].usr) EXCEPT !.pc = "link.consume", !.otk = k])
        BY DEF Admin, Idle, Acts
      <3> QED BY <2>7, <3>1, StartActs DEF LinkFind
    <2>8. ASSUME NEW r \in Req, NEW p \in Password, SeedStart(r, p) PROVE ActsKept
      <3>1. ~Acts([Admin("seed_admin", SeedUser) EXCEPT !.pc = "count", !.pw = p])
        BY DEF Admin, Idle, Acts
      <3> QED BY <2>8, <3>1, StartActs DEF SeedStart
    <2>9. ASSUME NEW r \in Req, AdminFails(r) PROVE ActsKept
      BY <2>9, DoneActs DEF AdminFails
    <2> QED BY <1>1, <1>3, <2>1, <2>2, <2>3, <2>4, <2>5, <2>6, <2>7, <2>8, <2>9
            DEF AdminStart, reject_user, create_user_route
  <1>4. ASSUME NEW r \in Req, AuthContinue(r) PROVE ActsKept \/ Spends
    <2>1. CASE RefreshLoadUser(r)
      <3>1. ~Acts([req[r] EXCEPT !.pc = "refresh.rotate", !.snap = users[req[r].usr]])
        BY <1>0 DEF Request, Acts
      <3> QED BY <2>1, <3>1, DoneActs, GotoActs, StartActs DEF RefreshLoadUser
    <2>2. CASE ResetConsume(r)
      <3>1. req[r].otk \in OneTime
        BY <1>0, <2>2 DEF ResetConsume, At, SlotOK
      <3>2. CASE Consumable(oneTime, req[r].otk)
        BY <1>0, <2>2, <3>1, <3>2 DEF ResetConsume, Goto, Request, Spends
      <3>3. CASE ~Consumable(oneTime, req[r].otk)
        BY <2>2, <3>3, DoneActs DEF ResetConsume
      <3> QED BY <3>2, <3>3
    <2>3. CASE ResetWrite(r)
      BY <2>3, DoneActs, GotoActs DEF ResetWrite
    <2> QED BY <1>4, <2>1, <2>2, <2>3, DoneActs DEF AuthContinue, issue_session,
            RefreshRotate, RefreshReuse, RefreshDead, LogoutRevoke, RevokeAllAfterWrite
  <1>5. ASSUME NEW r \in Req, AdminContinue(r) PROVE ActsKept \/ Spends
    <2>1. CASE CountAdmins(r)
      <3>1. req[r].op # "quick_approve"
        BY <1>0, <2>1 DEF CountAdmins, At, SlotOK
      <3>2. AfterCount(req[r].op) \notin {"reset.write", "reject.write"}
        BY DEF AfterCount
      <3> QED BY <2>1, <3>1, <3>2, DoneActs, GotoActs DEF CountAdmins
    <2>2. CASE FlagsLoad(r)
      <3> DEFINE new == [req[r] EXCEPT !.pc = "flags.write", !.snap = users[req[r].usr]]
      <3>1. Acts(new) => Acts(req[r]) /\ new.otk = req[r].otk
        BY <1>0, <2>2 DEF FlagsLoad, At, Request, Acts
      <3> QED BY <2>2, <3>1, DoneActs, StartActs DEF FlagsLoad
    <2>3. CASE FlagsWrite(r)
      BY <2>3, DoneActs, GotoActs DEF FlagsWrite
    <2>4. CASE DeleteWrite(r)
      BY <2>4, DoneActs, GotoActs DEF DeleteWrite
    <2>5. CASE LinkConsume(r)
      <3>1. req[r].otk \in OneTime
        BY <1>0, <2>5 DEF LinkConsume, At, SlotOK
      <3>2. CASE Consumable(oneTime, req[r].otk)
        BY <1>0, <2>5, <3>1, <3>2 DEF LinkConsume, Goto, Request, Spends
      <3>3. CASE ~Consumable(oneTime, req[r].otk)
        BY <2>5, <3>3, DoneActs DEF LinkConsume
      <3> QED BY <3>2, <3>3
    <2> QED BY <1>5, <2>1, <2>2, <2>3, <2>4, <2>5, DoneActs DEF AdminContinue,
            DeleteRevoke, UpdateWrite, sign_approval_token, LinkReject, SeedWrite
  <1>6. CASE Environment
    BY <1>1, <1>6, DoneActs DEF Environment, purge_expired_auth_records, ExpireSession,
       ExpireOneTime, ExpireAccess, ForgetToken, Abort, Fails
  <1> QED BY <1>2, <1>3, <1>4, <1>5, <1>6 DEF Next

\* A link becomes spendable only by being issued afresh.
LEMMA LinksMove ==
    ASSUME LocalInv, Next
    PROVE  LinksKept
  <1>0. oneTime \in [OneTime -> OneTimeRow]
    BY DEF LocalInv, TablesOK
  <1>1. CASE UNCHANGED oneTime
    BY <1>1 DEF LinksKept
  <1>2. ASSUME NEW k \in OneTime, FreshOneTime(k), NEW u, NEW purpose,
               oneTime' = create_approval_token(oneTime, k, u, purpose)
        PROVE  LinksKept
    BY <1>0, <1>2 DEF create_approval_token, LinksKept
  <1>3. ASSUME NEW k, oneTime' = consume_approval_token(oneTime, k)
        PROVE  LinksKept
    BY <1>0, <1>3 DEF consume_approval_token, Consumable, OneTimeRow, LinksKept
  <1>4. CASE AuthStart
    BY <1>1, <1>2, <1>4 DEF AuthStart, LoginLoad, RefreshFind, LogoutFind, logout_all,
       revoke_own_session, forgot_password, ResetFind, db
  <1>5. CASE AdminStart
    BY <1>1, <1>5 DEF AdminStart, BanStart, DeleteStart, ChangeRoleStart, FlagsStart,
       reject_user, UpdateLoad, create_user_route, Register, LinkFind, SeedStart,
       AdminFails, db
  <1>6. ASSUME NEW r \in Req, AuthContinue(r) PROVE LinksKept
    BY <1>1, <1>3, <1>6 DEF AuthContinue, issue_session, RefreshLoadUser, RefreshRotate,
       RefreshReuse, RefreshDead, LogoutRevoke, ResetConsume, ResetWrite,
       RevokeAllAfterWrite, db
  <1>7. ASSUME NEW r \in Req, AdminContinue(r) PROVE LinksKept
    BY <1>1, <1>2, <1>3, <1>7 DEF AdminContinue, CountAdmins, FlagsLoad, FlagsWrite,
       DeleteWrite, DeleteRevoke, UpdateWrite, sign_approval_token, LinkConsume,
       LinkReject, SeedWrite, db
  <1>8. CASE Environment
    <2>1. CASE purge_expired_auth_records
      BY <1>0, <2>1 DEF purge_expired_auth_records, PurgedOneTime, NoOneTime, LinksKept
    <2>2. ASSUME NEW k \in OneTime, ExpireOneTime(k) PROVE LinksKept
      BY <1>0, <2>2 DEF ExpireOneTime, OneTimeRow, LinksKept
    <2> QED BY <1>1, <1>8, <2>1, <2>2 DEF Environment, ExpireSession, ExpireAccess,
            ForgetToken, Abort, Fails, db
  <1> QED BY <1>4, <1>5, <1>6, <1>7, <1>8 DEF Next

\* A reset link or an approval link takes effect at most once, however many
\* requests present it at the same time.
THEOREM LinksActOnce == Spec => []LinkActsOnce
  <1>1. Init => LinkActsOnce
    BY DEF Init, LinkActsOnce, Acting, Acts, Idle
  <1>2. LocalInv /\ LinkActsOnce /\ [Next]_vars => LinkActsOnce'
    <2> SUFFICES ASSUME LocalInv, LinkActsOnce, Next PROVE LinkActsOnce'
      BY DEF vars, LinkActsOnce, Acting, Acts, Consumable
    <2>0. /\ oneTime \in [OneTime -> OneTimeRow]
          /\ \A q \in Req : Acts(req[q]) => req[q].otk \in OneTime
      BY DEF LocalInv, TablesOK, SlotsOK, SlotOK, Acts
    <2>1. LinksKept
      BY LinksMove
    <2>2. ASSUME NEW q \in Req, Acts(req[q])
          PROVE  ~Consumable(oneTime', req[q].otk)
      BY <2>0, <2>1, <2>2 DEF LinkActsOnce, Acting, Consumable, LinksKept, FreshOneTime
    <2>3. CASE ActsKept
      BY <2>2, <2>3 DEF ActsKept, LinkActsOnce, Acting, Consumable
    <2>4. CASE Spends
      <3>1. PICK r \in Req :
               /\ req[r].otk \in OneTime
               /\ Consumable(oneTime, req[r].otk)
               /\ oneTime' = consume_approval_token(oneTime, req[r].otk)
               /\ req'[r].otk = req[r].otk
               /\ \A q \in Req \ {r} : req'[q] = req[q]
        BY <2>4 DEF Spends
      <3>2. ~Consumable(oneTime', req[r].otk)
        BY <2>0, <3>1 DEF consume_approval_token, Consumable
      <3>3. \A q \in Req \ {r} : Acts(req[q]) => req[q].otk # req[r].otk
        BY <3>1 DEF LinkActsOnce, Acting
      <3>4. \A q \in Req : Acts(req'[q]) => ~Consumable(oneTime', req'[q].otk)
        BY <2>2, <3>1, <3>2
      <3>5. \A p, q \in Req : p # q /\ Acts(req'[p]) /\ Acts(req'[q])
                                 => req'[p].otk # req'[q].otk
        BY <3>1, <3>3 DEF LinkActsOnce, Acting
      <3> QED BY <3>4, <3>5 DEF LinkActsOnce, Acting, Consumable
    <2> QED BY <2>3, <2>4, ActsMove
  <1> QED BY <1>1, <1>2, LocalInvariance, PTL DEF Spec
=============================================================================
