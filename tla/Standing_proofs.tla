-------------------------- MODULE Standing_proofs --------------------------
(***************************************************************************)
(* Proofs about the standing of accounts: when the platform keeps an       *)
(* administrator, and what a barred or demoted account can still be given. *)
(* For any number of users, requests and sessions.                         *)
(***************************************************************************)
EXTENDS Accounts_proofs, FiniteSetTheorems

-----------------------------------------------------------------------------
(***************************************************************************)
(* The last administrator.  The check and the write it guards are separate *)
(* statements, and two requests that overlap there can leave nobody.  The  *)
(* invariant is what one of them knows if no other does.                   *)
(***************************************************************************)

\* The rows that ActiveAdminRemains counts.
ActiveAdmin(row) == row.role = SYSTEM_ADMIN /\ ~row.banned /\ row.st = "live"

\* The request has passed the last-administrator check and not yet written.
Checked(rq) == rq.pc \in {"flags.load", "flags.write", "delete.write"}

\* No two requests are between that check and the write it allows.
ChecksDoNotOverlap ==
    \A r, q \in Req : Checked(req[r]) /\ Checked(req[q]) => r = q

\* The write of a checked request leaves an administrator: there is another one, or
\* its target is none, or the write takes nothing away.
Spares(us, rq) ==
    \/ \E v \in User \ {rq.usr} : ActiveAdmin(us[v])
    \/ us[rq.usr].st # "absent" /\ ~ActiveAdmin(us[rq.usr])
    \/ rq.op = "unban"
    \/ rq.op = "role" /\ rq.role = SYSTEM_ADMIN

\* What a request knows of the users table at each of its awaits.
Guarded(us, rq) ==
    /\ rq.pc = "count" => rq.op \in {"ban", "role", "delete", "seed_admin"}
    /\ rq.pc \in {"flags.load", "flags.write"} => rq.op \in {"ban", "role", "unban"}
    /\ rq.pc = "delete.write" => rq.op = "delete"
    /\ rq.pc \notin {"link.consume", "reject.write"}
    /\ Checked(rq) => Spares(us, rq)
    /\ rq.pc = "flags.write" => /\ us[rq.usr].st # "absent"
                                /\ rq.snap.role = us[rq.usr].role
                                /\ rq.snap.banned = us[rq.usr].banned

AdminInv ==
    /\ \E v \in User : ActiveAdmin(users[v])
    /\ \A r \in Req : Guarded(users, req[r])

\* The handlers that write flags without such a check do not run, and a statement
\* that fails does not pass for an answer.
ChecksAreMade ==
    /\ Ops \cap {"approve", "reject", "quick_approve", "quick_reject"} = {}
    /\ "db" \notin Faults

\* No row changes role, ban or state, unless it is a new one.
RowsKept(us, ws) ==
    \A v \in User : us[v].st # "absent" =>
        ws[v].st = us[v].st /\ ws[v].role = us[v].role /\ ws[v].banned = us[v].banned

\* A count of at least one is an active administrator, and one of at least two is
\* another one than any given account.
LEMMA CountFindsAdmins ==
    ASSUME IsFiniteSet(User), NEW us
    PROVE  /\ count_active_system_admins(us) \in Nat
           /\ count_active_system_admins(us) >= 1 <=> \E v \in User : ActiveAdmin(us[v])
           /\ \A u \in User : count_active_system_admins(us) > 1
                 => \E v \in User \ {u} : ActiveAdmin(us[v])
  <1> DEFINE A == {v \in User : ActiveAdmin(us[v])}
  <1>1. count_active_system_admins(us) = Cardinality(A)
    BY DEF count_active_system_admins, ActiveAdmin
  <1>2. A \in SUBSET User
    OBVIOUS
  <1> HIDE DEF A
  <1>3. IsFiniteSet(A)
    BY <1>2, FS_Subset
  <1>4. Cardinality(A) \in Nat /\ (Cardinality(A) = 0 <=> A = {})
    BY <1>3, FS_CardinalityType, FS_EmptySet
  <1>5. ASSUME NEW u \in User, Cardinality(A) > 1
        PROVE  A \ {u} # {}
    <2>1. /\ IsFiniteSet(A \ {u})
          /\ Cardinality(A \ {u}) = IF u \in A THEN Cardinality(A) - 1 ELSE Cardinality(A)
      BY <1>3, FS_RemoveElement
    <2>2. Cardinality(A \ {u}) # 0
      BY <1>4, <1>5, <2>1
    <2> QED BY <2>1, <2>2, FS_EmptySet
  <1> QED BY <1>1, <1>4, <1>5 DEF A

\* What a request knows stays true while rows are only added.
LEMMA GuardedKept ==
    ASSUME NEW us, NEW ws, RowsKept(us, ws), NEW rq, SlotOK(rq), Guarded(us, rq)
    PROVE  Guarded(ws, rq)
  <1>1. ASSUME Checked(rq)
        PROVE  Spares(ws, rq)
    <2>1. rq.usr \in User /\ Spares(us, rq)
      BY <1>1 DEF Checked, SlotOK, Guarded
    <2> QED BY <2>1 DEF RowsKept, Spares, ActiveAdmin
  <1>2. ASSUME rq.pc = "flags.write"
        PROVE  /\ ws[rq.usr].st # "absent"
               /\ rq.snap.role = ws[rq.usr].role
               /\ rq.snap.banned = ws[rq.usr].banned
    <2>1. rq.usr \in User
      BY <1>2 DEF SlotOK
    <2> QED BY <1>2, <2>1 DEF RowsKept, Guarded
  <1> QED BY <1>1, <1>2 DEF Guarded

LEMMA AdminsKept ==
    ASSUME RowsKept(users, users'), \E v \in User : ActiveAdmin(users[v])
    PROVE  \E v \in User : ActiveAdmin(users[v])'
  BY DEF RowsKept, ActiveAdmin

\* A step that adds rows at most and gives one slot a request that knows what it has to.
LEMMA StepGuarded ==
    ASSUME LocalInv, AdminInv, RowsKept(users, users'), NEW r \in Req, NEW new,
           Start(r, new), Guarded(users', new)
    PROVE  AdminInv'
  <1>1. \A q \in Req : SlotOK(req[q]) /\ Guarded(users, req[q])
    BY DEF LocalInv, SlotsOK, AdminInv
  <1>2. ASSUME NEW q \in Req PROVE Guarded(users', req'[q])
    <2>1. CASE q = r
      BY <2>1 DEF Start, LocalInv, SlotsOK
    <2>2. CASE q # r
      <3>1. req'[q] = req[q]
        BY <2>2 DEF Start, LocalInv, SlotsOK
      <3> QED BY <1>1, <3>1, GuardedKept
    <2> QED BY <2>1, <2>2
  <1>3. \E v \in User : ActiveAdmin(users[v])'
    BY AdminsKept DEF AdminInv
  <1> QED BY <1>2, <1>3 DEF AdminInv

\* A step that adds rows at most and moves no request.
LEMMA IdleGuarded ==
    ASSUME LocalInv, AdminInv, RowsKept(users, users'), UNCHANGED req
    PROVE  AdminInv'
  <1>1. \A q \in Req : Guarded(users', req[q])
    BY GuardedKept DEF LocalInv, SlotsOK, AdminInv
  <1>2. \E v \in User : ActiveAdmin(users[v])'
    BY AdminsKept DEF AdminInv
  <1> QED BY <1>1, <1>2 DEF AdminInv

\* Statements at which a request has to know nothing.
Plain == AuthPC \cup {"delete.revoke", "update.write", "register.sign", "seed.write"}

LEMMA PlainGuarded ==
    ASSUME NEW us, NEW rq, rq.pc \in Plain
    PROVE  Guarded(us, rq)
  BY DEF Plain, AuthPC, Guarded, Checked

\* A request that moves to such a statement, or ends.
LEMMA PlainStep ==
    ASSUME LocalInv, AdminInv, RowsKept(users, users'), NEW r \in Req,
           Done(r) \/ \E pc \in Plain : Goto(r, pc)
    PROVE  AdminInv'
  <1>1. CASE Done(r)
    <2>1. Start(r, Idle) /\ Idle.pc \in Plain
      BY <1>1 DEF Done, Start, Idle, Plain, AuthPC
    <2> QED BY <2>1, PlainGuarded, StepGuarded
  <1>2. ASSUME NEW pc \in Plain, Goto(r, pc)
        PROVE  AdminInv'
    <2> DEFINE new == [req[r] EXCEPT !.pc = pc]
    <2>1. Start(r, new)
      BY <1>2 DEF Goto, Start, LocalInv, SlotsOK
    <2>2. new.pc = pc
      BY DEF LocalInv, SlotsOK, Request
    <2> HIDE DEF new
    <2> QED BY <2>1, <2>2, PlainGuarded, StepGuarded
  <1> QED BY <1>1, <1>2

\* Writing a password touches no flag, and inserting a row only adds one.
LEMMA WritesThatKeepRows ==
    ASSUME LocalInv, NEW u \in User, NEW p
    PROVE  /\ RowsKept(users, users)
           /\ RowsKept(users, update_user_password(users, u, p))
           /\ \A role, approved : CanInsert(users, u)
                 => RowsKept(users, create_user(users, u, p, role, approved))
  BY DEF RowsKept, update_user_password, create_user, CanInsert, LocalInv, TablesOK,
     UserRow

\* The handlers of auth.rs write no flag.
LEMMA AuthGuarded ==
    ASSUME LocalInv, AdminInv, NEW r \in Req, AuthContinue(r)
    PROVE  AdminInv'
  <1>0. /\ \A u \in User : \A p : RowsKept(users, update_user_password(users, u, p))
        /\ RowsKept(users, users)
    BY WritesThatKeepRows DEF RowsKept
  <1>1. CASE RefreshLoadUser(r)
    <2>1. users' = users
      BY <1>1 DEF RefreshLoadUser, db
    <2>2. \/ Done(r) \/ Goto(r, "refresh.dead")
          \/ Start(r, [req[r] EXCEPT !.pc = "refresh.rotate", !.snap = users[req[r].usr]])
      BY <1>1 DEF RefreshLoadUser
    <2>3. [req[r] EXCEPT !.pc = "refresh.rotate", !.snap = users[req[r].usr]].pc
             = "refresh.rotate"
      BY DEF LocalInv, SlotsOK, Request
    <2>4. {"refresh.dead", "refresh.rotate"} \subseteq Plain
      BY DEF Plain, AuthPC
    <2> QED BY <1>0, <2>1, <2>2, <2>3, <2>4, PlainStep, PlainGuarded, StepGuarded
  <1>2. CASE ResetWrite(r)
    <2>1. req[r].usr \in User
      BY <1>2 DEF ResetWrite, At, LocalInv, SlotsOK, SlotOK
    <2>2. RowsKept(users, users')
      BY <1>0, <1>2, <2>1 DEF ResetWrite
    <2>3. Done(r) \/ \E pc \in Plain : Goto(r, pc)
      BY <1>2 DEF ResetWrite, Plain, AuthPC
    <2> QED BY <2>2, <2>3, PlainStep
  <1>3. CASE ~RefreshLoadUser(r) /\ ~ResetWrite(r)
    <2>1. users' = users
      BY <1>3 DEF AuthContinue, issue_session, RefreshRotate, RefreshReuse, RefreshDead,
         LogoutRevoke, ResetConsume, RevokeAllAfterWrite, db
    <2>2. Done(r) \/ \E pc \in Plain : Goto(r, pc)
      BY <1>3 DEF AuthContinue, issue_session, RefreshRotate, RefreshReuse, RefreshDead,
         LogoutRevoke, ResetConsume, RevokeAllAfterWrite, Plain, AuthPC
    <2> QED BY <1>0, <2>1, <2>2, PlainStep
  <1> QED BY <1>1, <1>2, <1>3

\* Their first statements, the retention job, the clock and the clients write no row
\* of users either.
LEMMA OutsideGuarded ==
    ASSUME LocalInv, AdminInv, AuthStart \/ Environment
    PROVE  AdminInv'
  <1>1. users' = users
    BY DEF AuthStart, Environment, LoginLoad, RefreshFind, LogoutFind, logout_all,
       revoke_own_session, forgot_password, ResetFind, purge_expired_auth_records,
       ExpireSession, ExpireOneTime, ExpireAccess, ForgetToken, Abort, Fails, db
  <1>2. RowsKept(users, users')
    BY <1>1 DEF RowsKept
  <1>3. ASSUME NEW r \in Req, Done(r) PROVE AdminInv'
    BY <1>2, <1>3, PlainStep
  <1>4. ASSUME NEW r \in Req, NEW new, Start(r, new), new.pc \in AuthPC
        PROVE  AdminInv'
    BY <1>2, <1>4, PlainGuarded, StepGuarded DEF Plain
  <1>5. ASSUME NEW r \in Req, NEW u \in User, NEW p \in Password, LoginLoad(r, u, p)
        PROVE  AdminInv'
    BY <1>4, <1>5 DEF LoginLoad, Idle, AuthPC
  <1>6. ASSUME NEW r \in Req, NEW t \in Token, RefreshFind(r, t)
        PROVE  AdminInv'
    BY <1>4, <1>6 DEF RefreshFind, Idle, AuthPC
  <1>7. ASSUME NEW r \in Req, NEW t \in Token, LogoutFind(r, t)
        PROVE  AdminInv'
    BY <1>4, <1>7 DEF LogoutFind, Idle, AuthPC
  <1>8. ASSUME NEW r \in Req, NEW k \in OneTime, NEW p \in Password, ResetFind(r, k, p)
        PROVE  AdminInv'
    BY <1>4, <1>8 DEF ResetFind, Idle, AuthPC
  <1>9. CASE UNCHANGED req
    BY <1>2, <1>9, IdleGuarded
  <1> QED
    BY <1>3, <1>5, <1>6, <1>7, <1>8, <1>9 DEF AuthStart, Environment, logout_all,
       revoke_own_session, forgot_password, purge_expired_auth_records, ExpireSession,
       ExpireOneTime, ExpireAccess, ForgetToken, Abort, Fails

\* What a request that asks for a ban, a removal or another role is told by the row
\* it has just read.
LEMMA AdminStartGuarded ==
    ASSUME ChecksAreMade, LocalInv, AdminInv, AdminStart
    PROVE  AdminInv'
  <1>0. RowsKept(users, users)
    BY DEF RowsKept
  <1>1. ASSUME NEW r \in Req, NEW u \in User, BanStart(r, u)
        PROVE  AdminInv'
    <2>1. PICK pc \in LastAdminCheck(u, "flags.load") :
             Start(r, [Admin("ban", u) EXCEPT !.pc = pc])
      BY <1>1 DEF BanStart
    <2> DEFINE new == [Admin("ban", u) EXCEPT !.pc = pc]
    <2>2. new.pc = pc /\ new.op = "ban" /\ new.usr = u
      BY DEF Admin, Idle
    <2>3. \/ pc = "count"
          \/ pc = "flags.load" /\ users[u].st = "live" /\ ~ActiveAdmin(users[u])
      BY <1>1 DEF ChecksAreMade, BanStart, LastAdminCheck, Loads, MightBeLastAdmin,
         ActiveAdmin
    <2>4. users' = users
      BY <1>1 DEF BanStart, db
    <2> HIDE DEF new
    <2>5. Guarded(users', new)
      BY <2>2, <2>3, <2>4 DEF Guarded, Checked, Spares
    <2> QED BY <1>0, <2>1, <2>4, <2>5, StepGuarded DEF new
  <1>2. ASSUME NEW r \in Req, NEW u \in User, DeleteStart(r, u)
        PROVE  AdminInv'
    <2>1. PICK pc \in LastAdminCheck(u, "delete.write") :
             Start(r, [Admin("delete", u) EXCEPT !.pc = pc])
      BY <1>2 DEF DeleteStart
    <2> DEFINE new == [Admin("delete", u) EXCEPT !.pc = pc]
    <2>2. new.pc = pc /\ new.op = "delete" /\ new.usr = u
      BY DEF Admin, Idle
    <2>3. \/ pc = "count"
          \/ pc = "delete.write" /\ users[u].st # "absent" /\ ~ActiveAdmin(users[u])
      BY <1>2 DEF ChecksAreMade, DeleteStart, LastAdminCheck, Loads, RowExists,
         MightBeLastAdmin, ActiveAdmin
    <2>4. users' = users
      BY <1>2 DEF DeleteStart, db
    <2> HIDE DEF new
    <2>5. Guarded(users', new)
      BY <2>2, <2>3, <2>4 DEF Guarded, Checked, Spares
    <2> QED BY <1>0, <2>1, <2>4, <2>5, StepGuarded DEF new
  <1>3. ASSUME NEW r \in Req, NEW u \in User, NEW role \in RoleInputs,
               ChangeRoleStart(r, u, role)
        PROVE  AdminInv'
    <2> DEFINE pc == IF DemotesAdmin(users[u], role) THEN "count" ELSE "flags.load"
               new == [Admin("role", u) EXCEPT !.role = role, !.pc = pc]
    <2>1. Start(r, new) /\ users' = users /\ users[u].st = "live"
      BY <1>3 DEF ChangeRoleStart, Loads, db
    <2>2. new.pc = pc /\ new.op = "role" /\ new.usr = u /\ new.role = role
      BY DEF Admin, Idle
    <2>3. \/ pc = "count"
          \/ pc = "flags.load" /\ (~ActiveAdmin(users[u]) \/ role = SYSTEM_ADMIN)
      BY DEF DemotesAdmin, ActiveAdmin
    <2> HIDE DEF new, pc
    <2>4. Guarded(users', new)
      BY <2>1, <2>2, <2>3 DEF Guarded, Checked, Spares
    <2> QED BY <1>0, <2>1, <2>4, StepGuarded
  <1>4. ASSUME NEW r \in Req, NEW u \in User, NEW op \in Op, FlagsStart(r, op, u)
        PROVE  AdminInv'
    <2> DEFINE new == [Admin(op, u) EXCEPT !.pc = "flags.load"]
    <2>1. Start(r, new) /\ users' = users /\ op = "unban"
      BY <1>4 DEF FlagsStart, Receive, ChecksAreMade, db
    <2>2. new.pc = "flags.load" /\ new.op = op
      BY DEF Admin, Idle
    <2> HIDE DEF new
    <2>3. Guarded(users', new)
      BY <2>1, <2>2 DEF Guarded, Checked, Spares
    <2> QED BY <1>0, <2>1, <2>3, StepGuarded
  <1>5. ASSUME NEW r \in Req, NEW u \in User, NEW p \in Password \cup {None},
               UpdateLoad(r, u, p)
        PROVE  AdminInv'
    <2> DEFINE new == [Admin("update", u) EXCEPT !.pc = "update.write",
                          !.snap = users[u], !.pw = p]
    <2>1. Start(r, new) /\ users' = users
      BY <1>5 DEF UpdateLoad, db
    <2>2. new.pc \in Plain
      BY DEF Admin, Idle, Plain
    <2> HIDE DEF new
    <2> QED BY <1>0, <2>1, <2>2, PlainGuarded, StepGuarded
  <1>6. ASSUME NEW u \in User, NEW p \in Password, NEW role \in RoleInputs,
               create_user_route(u, p, role)
        PROVE  AdminInv'
    BY <1>6, WritesThatKeepRows, IdleGuarded DEF create_user_route
  <1>7. ASSUME NEW r \in Req, NEW u \in User, NEW p \in Password, Register(r, u, p)
        PROVE  AdminInv'
    <2> DEFINE new == [Admin("register", u) EXCEPT !.pc = "register.sign"]
    <2>1. Start(r, new) /\ RowsKept(users, users')
      BY <1>7, WritesThatKeepRows DEF Register
    <2>2. new.pc \in Plain
      BY DEF Admin, Idle, Plain
    <2> HIDE DEF new
    <2> QED BY <2>1, <2>2, PlainGuarded, StepGuarded
  <1>8. ASSUME NEW r \in Req, NEW p \in Password, SeedStart(r, p)
        PROVE  AdminInv'
    <2> DEFINE new == [Admin("seed_admin", SeedUser) EXCEPT !.pc = "count", !.pw = p]
    <2>1. Start(r, new) /\ users' = users
      BY <1>8 DEF SeedStart, db
    <2>2. new.pc = "count" /\ new.op = "seed_admin"
      BY DEF Admin, Idle
    <2> HIDE DEF new
    <2>3. Guarded(users', new)
      BY <2>2 DEF Guarded, Checked
    <2> QED BY <1>0, <2>1, <2>3, StepGuarded
  <1>9. /\ \A u \in User : ~reject_user(u)
        /\ \A r \in Req, k \in OneTime, op \in Op : ~LinkFind(r, op, k)
        /\ \A r \in Req : ~AdminFails(r)
    BY DEF ChecksAreMade, reject_user, LinkFind, Receive, AdminFails
  <1> QED
    BY <1>1, <1>2, <1>3, <1>4, <1>5, <1>6, <1>7, <1>8, <1>9 DEF AdminStart

\* A checked request writes: nobody else is between a check and a write, so only the
\* rows have to be looked at.
LEMMA WriteGuarded ==
    ASSUME LocalInv, AdminInv, ChecksDoNotOverlap, NEW r \in Req, Checked(req[r]),
           NEW new, Start(r, new), new.pc \in Plain,
           \E v \in User : ActiveAdmin(users[v])'
    PROVE  AdminInv'
  <1>1. ASSUME NEW q \in Req PROVE Guarded(users', req'[q])
    <2>1. CASE q = r
      BY <2>1, PlainGuarded DEF Start, LocalInv, SlotsOK
    <2>2. CASE q # r
      <3>1. req'[q] = req[q] /\ ~Checked(req[q])
        BY <2>2 DEF Start, LocalInv, SlotsOK, ChecksDoNotOverlap
      <3>2. Guarded(users, req[q])
        BY DEF AdminInv
      <3> QED BY <3>1, <3>2 DEF Guarded, Checked
    <2> QED BY <2>1, <2>2
  <1> QED BY <1>1 DEF AdminInv

\* The next statement of a handler of admin.rs.
LEMMA AdminContinueGuarded ==
    ASSUME IsFiniteSet(User), ChecksAreMade, LocalInv, AdminInv, ChecksDoNotOverlap,
           NEW r \in Req, AdminContinue(r)
    PROVE  AdminInv'
  <1> DEFINE u == req[r].usr
  <1>0. /\ RowsKept(users, users)
        /\ req \in [Req -> Request]
        /\ SlotOK(req[r]) /\ Guarded(users, req[r])
        /\ req[r].pc # "idle" => u \in User
        /\ users \in [User -> UserRow]
    BY DEF RowsKept, LocalInv, SlotsOK, SlotOK, AdminInv, TablesOK
  <1>1. CASE CountAdmins(r)
    <2>1. users' = users /\ req[r].pc = "count" /\ u \in User
      BY <1>1, <1>0 DEF CountAdmins, At, db
    <2>2. CASE Done(r)
      BY <1>0, <2>1, <2>2, PlainStep
    <2>3. CASE ~RefusedByCount(req[r].op) /\ Goto(r, AfterCount(req[r].op))
      <3> DEFINE new == [req[r] EXCEPT !.pc = AfterCount(req[r].op)]
      <3>1. Start(r, new)
        BY <1>0, <2>3 DEF Goto, Start
      <3>2. /\ new.pc = AfterCount(req[r].op)
            /\ new.op = req[r].op /\ new.usr = u
        BY <1>0 DEF Request
      <3>3. req[r].op \in {"ban", "role", "delete", "seed_admin"}
        BY <1>0, <2>1 DEF Guarded
      <3> HIDE DEF new
      <3>4. CASE req[r].op = "seed_admin"
        <4>1. new.pc \in Plain
          BY <3>2, <3>4 DEF AfterCount, Plain
        <4> QED BY <1>0, <2>1, <3>1, <4>1, PlainGuarded, StepGuarded
      <3>5. CASE req[r].op # "seed_admin"
        <4>1. count_active_system_admins(users) > 1
          BY <2>3, <3>5, CountFindsAdmins DEF RefusedByCount
        <4>2. Spares(users', new)
          BY <2>1, <3>2, <4>1, CountFindsAdmins DEF Spares
        <4>3. \/ new.pc = "delete.write" /\ new.op = "delete"
              \/ new.pc = "flags.load" /\ new.op \in {"ban", "role"}
          BY <3>2, <3>3, <3>5 DEF AfterCount
        <4>4. Guarded(users', new)
          BY <4>2, <4>3 DEF Guarded
        <4> QED BY <1>0, <2>1, <3>1, <4>4, StepGuarded
      <3> QED BY <3>4, <3>5
    <2> QED BY <1>1, <2>2, <2>3 DEF CountAdmins, ChecksAreMade
  <1>2. CASE FlagsLoad(r)
    <2>1. users' = users /\ req[r].pc = "flags.load" /\ u \in User
      BY <1>2, <1>0 DEF FlagsLoad, At, db
    <2>2. CASE Done(r)
      BY <1>0, <2>1, <2>2, PlainStep
    <2>3. CASE /\ Loads(users, u)
               /\ Start(r, [req[r] EXCEPT !.pc = "flags.write", !.snap = users[u]])
      <3> DEFINE new == [req[r] EXCEPT !.pc = "flags.write", !.snap = users[u]]
      <3>1. /\ new.pc = "flags.write" /\ new.snap = users[u]
            /\ new.op = req[r].op /\ new.usr = u /\ new.role = req[r].role
        BY <1>0 DEF Request
      <3>2. Spares(users, req[r]) /\ req[r].op \in {"ban", "role", "unban"}
        BY <1>0, <2>1 DEF Guarded, Checked
      <3>3. Start(r, new)
        BY <2>3
      <3>4. users[u].st # "absent"
        BY <2>3 DEF Loads
      <3> HIDE DEF new
      <3>5. Guarded(users', new)
        BY <2>1, <3>1, <3>2, <3>4 DEF Guarded, Spares
      <3> QED BY <1>0, <2>1, <3>3, <3>5, StepGuarded
    <2> QED BY <1>2, <2>2, <2>3 DEF FlagsLoad
  <1>3. CASE FlagsWrite(r)
    <2>1. /\ req[r].pc = "flags.write" /\ Checked(req[r]) /\ u \in User
          /\ users' = update_user_flags(users, u, req[r].snap, Patch(req[r]))
      BY <1>3, <1>0 DEF FlagsWrite, At, Checked
    <2>2. /\ Spares(users, req[r])
          /\ req[r].op \in {"ban", "role", "unban"}
          /\ req[r].snap.role = users[u].role
          /\ req[r].snap.banned = users[u].banned
      BY <1>0, <2>1 DEF Guarded
    <2>3. \A v \in User \ {u} : users'[v] = users[v]
      BY <1>0, <2>1 DEF update_user_flags
    <2>4. ASSUME \E v \in User \ {u} : ActiveAdmin(users[v])
          PROVE  \E v \in User : ActiveAdmin(users[v])'
      BY <2>3, <2>4 DEF ActiveAdmin
    <2>5. ASSUME ~ActiveAdmin(users[u])
          PROVE  \E v \in User : ActiveAdmin(users[v])'
      BY <2>3, <2>5 DEF AdminInv, ActiveAdmin
    <2>6. ASSUME ActiveAdmin(users[u]),
                 \/ req[r].op = "unban"
                 \/ req[r].op = "role" /\ req[r].role = SYSTEM_ADMIN
          PROVE  \E v \in User : ActiveAdmin(users[v])'
      <3>1. /\ users'[u].st = users[u].st
            /\ users'[u].banned = Patched(Patch(req[r]).banned, req[r].snap.banned)
            /\ users'[u].role = Patched(Patch(req[r]).role, req[r].snap.role)
        BY <1>0, <2>1, <2>6 DEF update_user_flags, RowExists, ActiveAdmin, UserRow
      <3>2. \/ Patch(req[r]).banned = FALSE /\ Patch(req[r]).role = None
            \/ Patch(req[r]).banned = None /\ Patch(req[r]).role = SYSTEM_ADMIN
        BY <2>6 DEF Patch
      <3>3. users'[u].banned = FALSE /\ users'[u].role = SYSTEM_ADMIN
        BY <2>2, <2>6, <3>1, <3>2, NoneIsNoFlag DEF Patched, ActiveAdmin, Role,
           ASSIGNABLE_ROLES, SYSTEM_ADMIN
      <3>4. ActiveAdmin(users'[u])
        BY <2>6, <3>1, <3>3 DEF ActiveAdmin
      <3> QED BY <2>1, <3>4 DEF ActiveAdmin
    <2>7. \E v \in User : ActiveAdmin(users[v])'
      BY <2>2, <2>4, <2>5, <2>6 DEF Spares
    <2>8. CASE Goto(r, "revoke_all")
      <3>1. Start(r, [req[r] EXCEPT !.pc = "revoke_all"])
        BY <1>0, <2>8 DEF Goto, Start
      <3>2. [req[r] EXCEPT !.pc = "revoke_all"].pc \in Plain
        BY <1>0 DEF Request, Plain, AuthPC
      <3> QED BY <2>1, <2>7, <3>1, <3>2, WriteGuarded
    <2>9. CASE Done(r)
      <3>1. Start(r, Idle) /\ Idle.pc \in Plain
        BY <2>9 DEF Done, Start, Idle, Plain, AuthPC
      <3> QED BY <2>1, <2>7, <3>1, WriteGuarded
    <2> QED BY <1>3, <2>8, <2>9 DEF FlagsWrite
  <1>4. CASE DeleteWrite(r)
    <2>1. /\ req[r].pc = "delete.write" /\ Checked(req[r]) /\ u \in User
          /\ users' = soft_delete_user(users, u)
      BY <1>4, <1>0 DEF DeleteWrite, At, Checked
    <2>2. Spares(users, req[r])
      BY <1>0, <2>1 DEF Guarded
    <2>3. \A v \in User \ {u} : users'[v] = users[v]
      BY <1>0, <2>1 DEF soft_delete_user
    <2>4. ASSUME \E v \in User \ {u} : ActiveAdmin(users[v])
          PROVE  \E v \in User : ActiveAdmin(users[v])'
      BY <2>3, <2>4 DEF ActiveAdmin
    <2>5. ASSUME ~ActiveAdmin(users[u])
          PROVE  \E v \in User : ActiveAdmin(users[v])'
      BY <2>3, <2>5 DEF AdminInv, ActiveAdmin
    <2>6. \E v \in User : ActiveAdmin(users[v])'
      BY <1>0, <2>1, <2>2, <2>4, <2>5 DEF Spares, Guarded
    <2>7. CASE Goto(r, "delete.revoke")
      <3>1. Start(r, [req[r] EXCEPT !.pc = "delete.revoke"])
        BY <1>0, <2>7 DEF Goto, Start
      <3>2. [req[r] EXCEPT !.pc = "delete.revoke"].pc \in Plain
        BY <1>0 DEF Request, Plain
      <3> QED BY <2>1, <2>6, <3>1, <3>2, WriteGuarded
    <2>8. CASE Done(r)
      <3>1. Start(r, Idle) /\ Idle.pc \in Plain
        BY <2>8 DEF Done, Start, Idle, Plain, AuthPC
      <3> QED BY <2>1, <2>6, <3>1, WriteGuarded
    <2> QED BY <1>4, <2>7, <2>8 DEF DeleteWrite
  <1>5. CASE DeleteRevoke(r) \/ sign_approval_token(r)
    BY <1>0, <1>5, PlainStep DEF DeleteRevoke, sign_approval_token
  <1>6. CASE UpdateWrite(r)
    <2>1. u \in User
      BY <1>0, <1>6 DEF UpdateWrite, At
    <2> QED BY <1>6, <2>1, WritesThatKeepRows, PlainStep DEF UpdateWrite
  <1>7. CASE SeedWrite(r)
    <2>1. RowsKept(users, users')
      BY <1>0, <1>7, SeedAssumption, WritesThatKeepRows DEF SeedWrite
    <2> QED BY <1>7, <2>1, PlainStep DEF SeedWrite
  <1>8. ~LinkConsume(r) /\ ~LinkReject(r)
    BY <1>0 DEF Guarded, LinkConsume, LinkReject, At
  <1> QED
    BY <1>1, <1>2, <1>3, <1>4, <1>5, <1>6, <1>7, <1>8 DEF AdminContinue

\* ActiveAdminRemains, and what the requests in flight know of it.
LEMMA AdminInvariance ==
    ASSUME IsFiniteSet(User), ChecksAreMade, count_active_system_admins(InitUsers) >= 1
    PROVE  Spec /\ []ChecksDoNotOverlap => []AdminInv
  <1>1. Init => AdminInv
    <2> SUFFICES ASSUME Init PROVE AdminInv
      OBVIOUS
    <2>1. \E v \in User : ActiveAdmin(users[v])
      BY CountFindsAdmins DEF Init
    <2>2. \A r \in Req : req[r].pc \in Plain
      BY DEF Init, Idle, Plain, AuthPC
    <2> QED BY <2>1, <2>2, PlainGuarded DEF AdminInv
  <1>2. AdminInv /\ LocalInv /\ ChecksDoNotOverlap /\ [Next]_vars => AdminInv'
    <2> SUFFICES ASSUME AdminInv, LocalInv, ChecksDoNotOverlap, [Next]_vars
                 PROVE  AdminInv'
      OBVIOUS
    <2>1. CASE AuthStart \/ Environment
      BY <2>1, OutsideGuarded
    <2>2. CASE AdminStart
      BY <2>2, AdminStartGuarded
    <2>3. ASSUME NEW r \in Req, AuthContinue(r) PROVE AdminInv'
      BY <2>3, AuthGuarded
    <2>4. ASSUME NEW r \in Req, AdminContinue(r) PROVE AdminInv'
      BY <2>4, AdminContinueGuarded
    <2>5. CASE UNCHANGED vars
      <3>1. UNCHANGED <<users, req>>
        BY <2>5 DEF vars
      <3> QED BY <3>1 DEF AdminInv
    <2> QED BY <2>1, <2>2, <2>3, <2>4, <2>5 DEF Next
  <1> QED BY <1>1, <1>2, LocalInvariance, PTL DEF Spec

(***************************************************************************)
(* Ban, removal and change of role never take the platform's last active   *)
(* administrator, however many users there are and whatever else the       *)
(* service does meanwhile, as long as no two of them are between the check *)
(* and the write at once.  Approval and rejection are left out: they write *)
(* the same columns with no check at all, and a single one of the last     *)
(* administrator leaves none.  So is a failing count, which the handlers   *)
(* take for "not the last one".                                            *)
(***************************************************************************)
THEOREM LastAdminStays ==
    ASSUME IsFiniteSet(User), ChecksAreMade, count_active_system_admins(InitUsers) >= 1
    PROVE  Spec /\ []ChecksDoNotOverlap => []ActiveAdminRemains
  <1>1. AdminInv => ActiveAdminRemains
    BY CountFindsAdmins DEF AdminInv, ActiveAdminRemains
  <1> QED BY <1>1, AdminInvariance, PTL

-----------------------------------------------------------------------------
(***************************************************************************)
(* What a barred or demoted account can still be given.  A handler that    *)
(* signs a token has read the account's row one or more awaits earlier, so *)
(* a token can still be signed after a ban, or with a role that was taken  *)
(* away.  The requests that can do so are those that had read the row      *)
(* before: no step adds to them, and each token uses one of them up.  This *)
(* is why BarredUserLosesAccess and RoleInTokensSettles come true once the *)
(* tokens expire.                                                          *)
(***************************************************************************)

\* The request signs a token next, with the row it has read.
Signs(rq) == rq.pc \in {"login.issue", "refresh.rotate"}

Signers(u) == {r \in Req : Signs(req[r]) /\ req[r].usr = u}
TokensOf(u) == {a \in access : a.sub = u}

\* Those that would sign a role the account does not have, and such tokens.
StaleSigners(u) == {r \in Signers(u) : req[r].snap.role # users[u].role}
StaleTokens(u) == {a \in TokensOf(u) : a.role # users[u].role}

\* A request comes to sign only by reading, in that step, a row that may sign in.
SignersRead ==
    \A q \in Req : Signs(req'[q]) =>
        \/ req'[q] = req[q]
        \/ /\ ~Barred(req'[q].usr)
           /\ req'[q].snap = users[req'[q].usr]
           /\ users' = users

\* A token is signed by a request that then ends.
TokensSigned ==
    \/ access' \subseteq access
    \/ \E r \in Req : /\ Signs(req[r])
                      /\ Done(r)
                      /\ access' = access \cup {sign_access(req[r].usr, req[r].snap)}
                      /\ users' = users

LEMMA SlotSigns ==
    ASSUME LocalInv, NEW r \in Req, NEW new, Start(r, new),
           Signs(new) => /\ ~Barred(new.usr)
                         /\ new.snap = users[new.usr]
                         /\ users' = users
    PROVE  SignersRead
  BY DEF LocalInv, SlotsOK, Start, SignersRead

LEMMA MoveSigns ==
    ASSUME LocalInv, NEW r \in Req,
           Done(r) \/ \E pc : pc \notin {"login.issue", "refresh.rotate"} /\ Goto(r, pc)
    PROVE  SignersRead
  BY DEF LocalInv, SlotsOK, Request, Done, Idle, Goto, SignersRead, Signs

LEMMA SignersMove ==
    ASSUME LocalInv, Next
    PROVE  SignersRead
  <1>0. req \in [Req -> Request]
    BY DEF LocalInv, SlotsOK
  <1>1. CASE UNCHANGED req
    BY <1>1 DEF SignersRead
  <1>2. CASE AuthStart
    <2>1. ASSUME NEW r \in Req, NEW u \in User, NEW p \in Password, LoginLoad(r, u, p)
          PROVE  SignersRead
      <3> DEFINE new == [Idle EXCEPT !.pc = "login.issue", !.op = "login",
                                     !.usr = u, !.snap = users[u]]
      <3>1. new.usr = u /\ new.snap = users[u]
        BY DEF Idle
      <3>2. Start(r, new) /\ ~Barred(u) /\ users' = users
        BY <2>1 DEF LoginLoad, Barred, db
      <3> HIDE DEF new
      <3> QED BY <3>1, <3>2, SlotSigns
    <2>2. ASSUME NEW r \in Req, NEW t \in Token, RefreshFind(r, t)
          PROVE  SignersRead
      <3>1. PICK pc \in {"refresh.reuse", "refresh.dead", "refresh.user"} :
               Start(r, [Idle EXCEPT !.op = "refresh", !.usr = claims[t].sub,
                                     !.fam = claims[t].fam, !.tok = t, !.pc = pc])
        BY <2>2, Zenon DEF RefreshFind
      <3>2. ~Signs([Idle EXCEPT !.op = "refresh", !.usr = claims[t].sub,
                                !.fam = claims[t].fam, !.tok = t, !.pc = pc])
        BY DEF Idle, Signs
      <3> QED BY <3>1, <3>2, SlotSigns
    <2>3. ASSUME NEW r \in Req, NEW t \in Token, LogoutFind(r, t)
          PROVE  SignersRead
      <3>1. ~Signs([Idle EXCEPT !.pc = "logout.revoke", !.op = "logout",
                     !.usr = claims[t].sub, !.fam = claims[t].fam, !.tok = t])
        BY DEF Idle, Signs
      <3> QED BY <2>3, <3>1, SlotSigns DEF LogoutFind
    <2>4. ASSUME NEW r \in Req, NEW k \in OneTime, NEW p \in Password, ResetFind(r, k, p)
          PROVE  SignersRead
      <3>1. ~Signs([Idle EXCEPT !.pc = "reset.consume", !.op = "reset_password",
                               !.usr = oneTime[k].usr, !.otk = k, !.pw = p])
        BY DEF Idle, Signs
      <3> QED BY <2>4, <3>1, SlotSigns DEF ResetFind
    <2> QED BY <1>1, <1>2, <2>1, <2>2, <2>3, <2>4 DEF AuthStart, logout_all,
            revoke_own_session, forgot_password
  <1>3. CASE AdminStart
    <2>0. \A op, u, pc : pc \notin {"login.issue", "refresh.rotate"} =>
             /\ ~Signs([Admin(op, u) EXCEPT !.pc = pc])
             /\ \A role : ~Signs([Admin(op, u) EXCEPT !.role = role, !.pc = pc])
             /\ \A k : ~Signs([Admin(op, u) EXCEPT !.pc = pc, !.otk = k])
             /\ \A p : ~Signs([Admin(op, u) EXCEPT !.pc = pc, !.pw = p])
             /\ \A p, row : ~Signs([Admin(op, u) EXCEPT !.pc = pc, !.snap = row, !.pw = p])
      BY DEF Admin, Idle, Signs
    <2>1. ASSUME NEW r \in Req, NEW u \in User, BanStart(r, u) PROVE SignersRead
      <3>1. PICK pc \in {"count", "flags.load"} :
               Start(r, [Admin("ban", u) EXCEPT !.pc = pc])
        BY <2>1, Zenon DEF BanStart, LastAdminCheck
      <3> QED BY <3>1, <2>0, SlotSigns
    <2>2. ASSUME NEW r \in Req, NEW u \in User, DeleteStart(r, u) PROVE SignersRead
      <3>1. PICK pc \in {"count", "delete.write"} :
               Start(r, [Admin("delete", u) EXCEPT !.pc = pc])
        BY <2>2, Zenon DEF DeleteStart, LastAdminCheck
      <3> QED BY <3>1, <2>0, SlotSigns
    <2>3. ASSUME NEW r \in Req, NEW u \in User, NEW role \in RoleInputs,
                 ChangeRoleStart(r, u, role)
          PROVE  SignersRead
      <3>1. PICK pc \in {"count", "flags.load"} :
               Start(r, [Admin("role", u) EXCEPT !.role = role, !.pc = pc])
        BY <2>3, Zenon DEF ChangeRoleStart
      <3> QED BY <3>1, <2>0, SlotSigns
    <2>4. ASSUME NEW r \in Req, NEW u \in User, NEW op \in Op, FlagsStart(r, op, u)
          PROVE  SignersRead
      BY <2>4, <2>0, SlotSigns DEF FlagsStart
    <2>5. ASSUME NEW r \in Req, NEW u \in User, NEW p \in Password \cup {None},
                 UpdateLoad(r, u, p)
          PROVE  SignersRead
      BY <2>5, <2>0, SlotSigns DEF UpdateLoad
    <2>6. ASSUME NEW r \in Req, NEW u \in User, NEW p \in Password, Register(r, u, p)
          PROVE  SignersRead
      BY <2>6, <2>0, SlotSigns DEF Register
    <2>7. ASSUME NEW r \in Req, NEW k \in OneTime, NEW op \in Op, LinkFind(r, op, k)
          PROVE  SignersRead
      BY <2>7, <2>0, SlotSigns DEF LinkFind
    <2>8. ASSUME NEW r \in Req, NEW p \in Password, SeedStart(r, p) PROVE SignersRead
      BY <2>8, <2>0, SlotSigns DEF SeedStart
    <2>9. ASSUME NEW r \in Req, AdminFails(r) PROVE SignersRead
      BY <2>9, MoveSigns DEF AdminFails
    <2> QED BY <1>1, <1>3, <2>1, <2>2, <2>3, <2>4, <2>5, <2>6, <2>7, <2>8, <2>9
            DEF AdminStart, reject_user, create_user_route
  <1>4. ASSUME NEW r \in Req, AuthContinue(r) PROVE SignersRead
    <2>1. CASE RefreshLoadUser(r)
      <3> DEFINE u == req[r].usr
                 new == [req[r] EXCEPT !.pc = "refresh.rotate", !.snap = users[u]]
      <3>1. new.usr = u /\ new.snap = users[u]
        BY <1>0 DEF Request
      <3>2. users' = users
        BY <2>1 DEF RefreshLoadUser, db
      <3>3. CASE Start(r, new) /\ ~Barred(u)
        <4> HIDE DEF new
        <4> QED BY <3>1, <3>2, <3>3, SlotSigns
      <3>4. CASE Done(r) \/ Goto(r, "refresh.dead")
        BY <3>4, MoveSigns
      <3> QED BY <2>1, <3>3, <3>4 DEF RefreshLoadUser, Barred
    <2> QED BY <1>4, <2>1, MoveSigns DEF AuthContinue, issue_session, RefreshRotate,
            RefreshReuse, RefreshDead, LogoutRevoke, ResetConsume, ResetWrite,
            RevokeAllAfterWrite
  <1>5. ASSUME NEW r \in Req, AdminContinue(r) PROVE SignersRead
    <2>1. CASE FlagsLoad(r)
      <3>1. ~Signs([req[r] EXCEPT !.pc = "flags.write", !.snap = users[req[r].usr]])
        BY <1>0 DEF Request, Signs
      <3> QED BY <2>1, <3>1, MoveSigns, SlotSigns DEF FlagsLoad
    <2>2. AfterCount(req[r].op) \notin {"login.issue", "refresh.rotate"}
      BY DEF AfterCount
    <2> QED BY <1>5, <2>1, <2>2, MoveSigns DEF AdminContinue, CountAdmins, FlagsWrite,
            DeleteWrite, DeleteRevoke, UpdateWrite, sign_approval_token, LinkConsume,
            LinkReject, SeedWrite
  <1>6. CASE Environment
    BY <1>1, <1>6, MoveSigns DEF Environment, purge_expired_auth_records, ExpireSession,
       ExpireOneTime, ExpireAccess, ForgetToken, Abort, Fails
  <1> QED BY <1>2, <1>3, <1>4, <1>5, <1>6 DEF Next

LEMMA AccessMoves ==
    ASSUME Next
    PROVE  TokensSigned
  <1>1. ASSUME NEW r \in Req, issue_session(r) \/ RefreshRotate(r) PROVE TokensSigned
    BY <1>1 DEF issue_session, RefreshRotate, TokensSigned, Signs, At
  <1>2. CASE access' \subseteq access
    BY <1>2 DEF TokensSigned
  <1>3. CASE AuthStart
    BY <1>2, <1>3 DEF AuthStart, LoginLoad, RefreshFind, LogoutFind, logout_all,
       revoke_own_session, forgot_password, ResetFind
  <1>4. CASE AdminStart
    BY <1>2, <1>4 DEF AdminStart, BanStart, DeleteStart, ChangeRoleStart, FlagsStart,
       reject_user, UpdateLoad, create_user_route, Register, LinkFind, SeedStart,
       AdminFails
  <1>5. ASSUME NEW r \in Req, AuthContinue(r) PROVE TokensSigned
    BY <1>1, <1>2, <1>5 DEF AuthContinue, RefreshLoadUser, RefreshReuse, RefreshDead,
       LogoutRevoke, ResetConsume, ResetWrite, RevokeAllAfterWrite
  <1>6. ASSUME NEW r \in Req, AdminContinue(r) PROVE TokensSigned
    BY <1>2, <1>6 DEF AdminContinue, CountAdmins, FlagsLoad, FlagsWrite, DeleteWrite,
       DeleteRevoke, UpdateWrite, sign_approval_token, LinkConsume, LinkReject, SeedWrite
  <1>7. CASE Environment
    BY <1>2, <1>7 DEF Environment, purge_expired_auth_records, ExpireSession,
       ExpireOneTime, ExpireAccess, ForgetToken, Abort, Fails
  <1> QED BY <1>3, <1>4, <1>5, <1>6, <1>7 DEF Next

\* What a step gives an account that is barred when it is taken.
BarredGainsNothing ==
    \A u \in User : Barred(u) =>
        /\ Signers(u)' \subseteq Signers(u)
        /\ TokensOf(u)' \subseteq TokensOf(u) \/ Signers(u)' # Signers(u)

(***************************************************************************)
(* While an account is banned, unapproved, deleted or removed, no sign-in  *)
(* and no refresh gets as far as signing for it, except those that had     *)
(* read its row before; and every token it is still given uses one of      *)
(* those up.                                                               *)
(***************************************************************************)
THEOREM BarredAccountsRunOut == Spec => [][BarredGainsNothing]_vars
  <1>1. LocalInv /\ [Next]_vars => [BarredGainsNothing]_vars
    <2> SUFFICES ASSUME LocalInv, Next, NEW u \in User, Barred(u)
                 PROVE  /\ Signers(u)' \subseteq Signers(u)
                        /\ TokensOf(u)' \subseteq TokensOf(u) \/ Signers(u)' # Signers(u)
      BY DEF BarredGainsNothing
    <2>1. Signers(u)' \subseteq Signers(u)
      BY SignersMove DEF SignersRead, Signers
    <2>2. ASSUME ~(access' \subseteq access), ~(TokensOf(u)' \subseteq TokensOf(u))
          PROVE  Signers(u)' # Signers(u)
      <3>1. PICK r \in Req :
               /\ Signs(req[r]) /\ Done(r)
               /\ access' = access \cup {sign_access(req[r].usr, req[r].snap)}
        BY <2>2, AccessMoves DEF TokensSigned
      <3>2. req[r].usr = u
        BY <2>2, <3>1 DEF TokensOf, sign_access
      <3>3. r \in Signers(u)
        BY <3>1, <3>2 DEF Signers
      <3>4. r \notin Signers(u)'
        BY <3>1 DEF Done, Idle, Signs, Signers, LocalInv, SlotsOK
      <3> QED BY <3>3, <3>4
    <2> QED BY <2>1, <2>2 DEF TokensOf
  <1> QED BY <1>1, LocalInvariance, PTL DEF Spec

\* What a step that leaves an account's role alone gives it under another role.
RoleSettles ==
    \A u \in User : users'[u].role = users[u].role =>
        /\ StaleSigners(u)' \subseteq StaleSigners(u)
        /\ \/ StaleTokens(u)' \subseteq StaleTokens(u)
           \/ StaleSigners(u)' # StaleSigners(u)

(***************************************************************************)
(* After a change of role no request comes to hold the old one, not even   *)
(* by refreshing a session opened under it, and every token that is still  *)
(* signed with the old role uses up a request that had read it before.     *)
(***************************************************************************)
THEOREM OldRolesRunOut == Spec => [][RoleSettles]_vars
  <1>1. LocalInv /\ [Next]_vars => [RoleSettles]_vars
    <2> SUFFICES ASSUME LocalInv, Next, NEW u \in User, users'[u].role = users[u].role
                 PROVE  /\ StaleSigners(u)' \subseteq StaleSigners(u)
                        /\ \/ StaleTokens(u)' \subseteq StaleTokens(u)
                           \/ StaleSigners(u)' # StaleSigners(u)
      BY DEF RoleSettles
    <2>1. StaleSigners(u)' \subseteq StaleSigners(u)
      BY SignersMove DEF SignersRead, Signers, StaleSigners
    <2>2. ASSUME ~(StaleTokens(u)' \subseteq StaleTokens(u))
          PROVE  StaleSigners(u)' # StaleSigners(u)
      <3>1. ~(access' \subseteq access)
        BY <2>2 DEF StaleTokens, TokensOf
      <3>2. PICK r \in Req :
               /\ Signs(req[r]) /\ Done(r)
               /\ access' = access \cup {sign_access(req[r].usr, req[r].snap)}
        BY <3>1, AccessMoves DEF TokensSigned
      <3>3. req[r].usr = u /\ req[r].snap.role # users[u].role
        BY <2>2, <3>2 DEF StaleTokens, TokensOf, sign_access
      <3>4. r \in StaleSigners(u)
        BY <3>2, <3>3 DEF StaleSigners, Signers
      <3>5. r \notin StaleSigners(u)'
        BY <3>2 DEF Done, Idle, Signs, Signers, StaleSigners, LocalInv, SlotsOK
      <3> QED BY <3>4, <3>5
    <2> QED BY <2>1, <2>2
  <1> QED BY <1>1, LocalInvariance, PTL DEF Spec

-----------------------------------------------------------------------------
(***************************************************************************)
(* Where administrators come from.                                         *)
(***************************************************************************)

\* No account and no access token has a role that administers users.
NobodyAdministers ==
    /\ \A u \in User : ~can_administer_users(users[u].role)
    /\ ~require_admin

\* Nor is any request about to give such a role to a row or to a token.
Harmless(rq) == /\ ~can_administer_users(rq.snap.role)
                /\ rq.op # "role"
                /\ rq.pc \notin {"count", "seed.write"}

OrdinaryInv == NobodyAdministers /\ \A r \in Req : Harmless(req[r])

LEMMA OrdinaryRoles ==
    ~can_administer_users(PENDING) /\ ~can_administer_users(DEFAULT_APPROVED_ROLE)
  BY DEF can_administer_users, PENDING, DEFAULT_APPROVED_ROLE

\* The request that a slot is given.
LEMMA StartHarmless ==
    ASSUME LocalInv, \A q \in Req : Harmless(req[q]), NEW r \in Req, NEW new,
           Start(r, new), Harmless(new)
    PROVE  \A q \in Req : Harmless(req[q])'
  BY DEF LocalInv, SlotsOK, Start

LEMMA MoveHarmless ==
    ASSUME LocalInv, \A q \in Req : Harmless(req[q]), NEW r \in Req,
           Done(r) \/ \E pc : pc \notin {"count", "seed.write"} /\ Goto(r, pc)
    PROVE  \A q \in Req : Harmless(req[q])'
  BY OrdinaryRoles DEF LocalInv, SlotsOK, Request, Done, Idle, NoUser, Goto, Harmless

\* The handlers of auth.rs write no role, and sign the one they have read.
LEMMA AuthOrdinary ==
    ASSUME LocalInv, OrdinaryInv, NEW r \in Req, AuthContinue(r)
    PROVE  OrdinaryInv'
  <1>0. req \in [Req -> Request] /\ users \in [User -> UserRow] /\ SlotOK(req[r])
    BY DEF LocalInv, SlotsOK, TablesOK
  <1>1. \A u \in User : users'[u].role = users[u].role
    <2>1. CASE users' = users
      BY <2>1
    <2>2. CASE users' = update_user_password(users, req[r].usr, req[r].pw)
      BY <1>0, <2>2 DEF update_user_password, UserRow
    <2> QED BY <2>1, <2>2 DEF AuthContinue, issue_session, RefreshLoadUser, RefreshRotate,
            RefreshReuse, RefreshDead, LogoutRevoke, ResetConsume, ResetWrite,
            RevokeAllAfterWrite, db
  <1>2. \/ access' = access
        \/ access' = access \cup {sign_access(req[r].usr, req[r].snap)}
    BY DEF AuthContinue, issue_session, RefreshLoadUser, RefreshRotate, RefreshReuse,
       RefreshDead, LogoutRevoke, ResetConsume, ResetWrite, RevokeAllAfterWrite
  <1>3. \A a \in access' : ~can_administer_users(a.role)
    BY <1>2 DEF OrdinaryInv, NobodyAdministers, require_admin, Harmless, sign_access
  <1>4. \A q \in Req : Harmless(req[q])'
    <2>1. CASE RefreshLoadUser(r)
      <3>1. req[r].usr \in User
        BY <1>0, <2>1 DEF RefreshLoadUser, At, SlotOK
      <3>2. Harmless([req[r] EXCEPT !.pc = "refresh.rotate", !.snap = users[req[r].usr]])
        BY <1>0, <3>1 DEF Request, Harmless, OrdinaryInv, NobodyAdministers
      <3> QED BY <2>1, <3>2, StartHarmless, MoveHarmless DEF RefreshLoadUser, OrdinaryInv
    <2> QED BY <2>1, MoveHarmless DEF AuthContinue, issue_session, RefreshRotate,
            RefreshReuse, RefreshDead, LogoutRevoke, ResetConsume, ResetWrite,
            RevokeAllAfterWrite, OrdinaryInv
  <1> QED
    BY <1>1, <1>3, <1>4 DEF OrdinaryInv, NobodyAdministers, require_admin

\* Of those of admin.rs, the flag writes that nobody had to authorise are approvals.
LEMMA AdminOrdinary ==
    ASSUME LocalInv, OrdinaryInv, NEW r \in Req, AdminContinue(r)
    PROVE  OrdinaryInv'
  <1>0. /\ req \in [Req -> Request] /\ users \in [User -> UserRow] /\ SlotOK(req[r])
        /\ Harmless(req[r])
        /\ access' = access
    BY DEF LocalInv, SlotsOK, TablesOK, OrdinaryInv, AdminContinue, CountAdmins, FlagsLoad,
       FlagsWrite, DeleteWrite, DeleteRevoke, UpdateWrite, sign_approval_token,
       LinkConsume, LinkReject, SeedWrite
  <1>1. ~CountAdmins(r) /\ ~SeedWrite(r)
    BY <1>0 DEF Harmless, CountAdmins, SeedWrite, At
  <1>2. \A u \in User : ~can_administer_users(users'[u].role)
    <2>1. \A u \in User : ~can_administer_users(users[u].role)
      BY DEF OrdinaryInv, NobodyAdministers
    <2>2. CASE FlagsWrite(r)
      <3> DEFINE role == Patched(Patch(req[r]).role, req[r].snap.role)
      <3>1. users' = update_user_flags(users, req[r].usr, req[r].snap, Patch(req[r]))
        BY <2>2 DEF FlagsWrite
      <3>2. ~can_administer_users(role)
        BY <1>0, OrdinaryRoles DEF Harmless, Patch, Patched
      <3>3. \A u \in User : users'[u].role \in {users[u].role, role}
        BY <1>0, <3>1 DEF update_user_flags, UserRow
      <3> QED BY <2>1, <3>2, <3>3
    <2>3. CASE DeleteWrite(r)
      BY <1>0, <2>1, <2>3 DEF DeleteWrite, soft_delete_user, UserRow
    <2>4. CASE UpdateWrite(r)
      BY <1>0, <2>1, <2>4 DEF UpdateWrite, update_user_password, UserRow
    <2>5. CASE LinkReject(r)
      BY <1>0, <2>1, <2>5, OrdinaryRoles DEF LinkReject, delete_user, NoUser, UserRow
    <2>6. CASE users' = users
      BY <2>1, <2>6
    <2> QED BY <1>1, <2>2, <2>3, <2>4, <2>5, <2>6 DEF AdminContinue, FlagsLoad, DeleteRevoke,
            sign_approval_token, LinkConsume, db
  <1>3. \A q \in Req : Harmless(req[q])'
    <2>1. CASE FlagsLoad(r)
      <3>1. req[r].usr \in User
        BY <1>0, <2>1 DEF FlagsLoad, At, SlotOK
      <3>2. Harmless([req[r] EXCEPT !.pc = "flags.write", !.snap = users[req[r].usr]])
        BY <1>0, <3>1 DEF Request, Harmless, OrdinaryInv, NobodyAdministers
      <3> QED BY <2>1, <3>2, StartHarmless, MoveHarmless DEF FlagsLoad, OrdinaryInv
    <2> QED BY <1>1, <2>1, MoveHarmless DEF AdminContinue, FlagsWrite, DeleteWrite,
            DeleteRevoke, UpdateWrite, sign_approval_token, LinkConsume, LinkReject,
            OrdinaryInv
  <1> QED BY <1>0, <1>2, <1>3 DEF OrdinaryInv, NobodyAdministers, require_admin

\* Of the requests that arrive, those that ask for a role need an administrator.
LEMMA StartOrdinary ==
    ASSUME "seed_admin" \notin Ops, LocalInv, OrdinaryInv,
           AuthStart \/ AdminStart \/ Environment
    PROVE  OrdinaryInv'
  <1>1. ~require_admin
    BY DEF OrdinaryInv, NobodyAdministers
  <1>2. /\ \A r, u : ~BanStart(r, u) /\ ~DeleteStart(r, u)
        /\ \A r, u, role : ~ChangeRoleStart(r, u, role)
        /\ \A r, op, u : ~FlagsStart(r, op, u)
        /\ \A u : ~reject_user(u)
        /\ \A r, u, p : ~UpdateLoad(r, u, p)
        /\ \A u, p, role : ~create_user_route(u, p, role)
        /\ \A r, p : ~SeedStart(r, p)
    BY <1>1 DEF BanStart, DeleteStart, ChangeRoleStart, FlagsStart, reject_user, UpdateLoad,
       create_user_route, SeedStart, Receive
  <1>3. access' \subseteq access
    BY <1>2 DEF AuthStart, LoginLoad, RefreshFind, LogoutFind, logout_all,
       revoke_own_session, forgot_password, ResetFind, AdminStart, Register, LinkFind,
       AdminFails, Environment, purge_expired_auth_records, ExpireSession, ExpireOneTime,
       ExpireAccess, ForgetToken, Abort, Fails
  <1>4. \A u \in User : ~can_administer_users(users'[u].role)
    <2>1. \A u \in User : ~can_administer_users(users[u].role)
      BY DEF OrdinaryInv, NobodyAdministers
    <2>2. ASSUME NEW r \in Req, NEW u \in User, NEW p \in Password, Register(r, u, p)
          PROVE  \A v \in User : ~can_administer_users(users'[v].role)
      BY <2>1, <2>2, OrdinaryRoles DEF Register, create_user, LocalInv, TablesOK
    <2>3. CASE users' = users
      BY <2>1, <2>3
    <2> QED BY <1>2, <2>2, <2>3 DEF AuthStart, LoginLoad, RefreshFind, LogoutFind,
            logout_all, revoke_own_session, forgot_password, ResetFind, AdminStart,
            LinkFind, AdminFails, Environment, purge_expired_auth_records, ExpireSession,
            ExpireOneTime, ExpireAccess, ForgetToken, Abort, Fails, db
  <1>5. \A q \in Req : Harmless(req[q])'
    <2>0. \A q \in Req : Harmless(req[q])
      BY DEF OrdinaryInv
    <2>1. ASSUME NEW r \in Req, NEW u \in User, NEW p \in Password, LoginLoad(r, u, p)
          PROVE  \A q \in Req : Harmless(req[q])'
      <3>1. Harmless([Idle EXCEPT !.pc = "login.issue", !.op = "login",
                                  !.usr = u, !.snap = users[u]])
        BY DEF Idle, Harmless, OrdinaryInv, NobodyAdministers
      <3> QED BY <2>0, <2>1, <3>1, StartHarmless DEF LoginLoad
    <2>2. ASSUME NEW r \in Req, NEW t \in Token, RefreshFind(r, t)
          PROVE  \A q \in Req : Harmless(req[q])'
      <3>1. PICK pc \in {"refresh.reuse", "refresh.dead", "refresh.user"} :
               Start(r, [Idle EXCEPT !.op = "refresh", !.usr = claims[t].sub,
                                     !.fam = claims[t].fam, !.tok = t, !.pc = pc])
        BY <2>2, Zenon DEF RefreshFind
      <3>2. Harmless([Idle EXCEPT !.op = "refresh", !.usr = claims[t].sub,
                                  !.fam = claims[t].fam, !.tok = t, !.pc = pc])
        BY OrdinaryRoles DEF Idle, NoUser, Harmless
      <3> QED BY <2>0, <3>1, <3>2, StartHarmless
    <2>3. ASSUME NEW r \in Req, NEW t \in Token, LogoutFind(r, t)
          PROVE  \A q \in Req : Harmless(req[q])'
      <3>1. Harmless([Idle EXCEPT !.pc = "logout.revoke", !.op = "logout",
                     !.usr = claims[t].sub, !.fam = claims[t].fam, !.tok = t])
        BY OrdinaryRoles DEF Idle, NoUser, Harmless
      <3> QED BY <2>0, <2>3, <3>1, StartHarmless DEF LogoutFind
    <2>4. ASSUME NEW r \in Req, NEW k \in OneTime, NEW p \in Password, ResetFind(r, k, p)
          PROVE  \A q \in Req : Harmless(req[q])'
      <3>1. Harmless([Idle EXCEPT !.pc = "reset.consume", !.op = "reset_password",
                               !.usr = oneTime[k].usr, !.otk = k, !.pw = p])
        BY OrdinaryRoles DEF Idle, NoUser, Harmless
      <3> QED BY <2>0, <2>4, <3>1, StartHarmless DEF ResetFind
    <2>5. ASSUME NEW r \in Req, NEW u \in User, NEW p \in Password, Register(r, u, p)
          PROVE  \A q \in Req : Harmless(req[q])'
      <3>1. Harmless([Admin("register", u) EXCEPT !.pc = "register.sign"])
        BY OrdinaryRoles DEF Admin, Idle, NoUser, Harmless
      <3> QED BY <2>0, <2>5, <3>1, StartHarmless DEF Register
    <2>6. ASSUME NEW r \in Req, NEW k \in OneTime, NEW op \in Op, LinkFind(r, op, k)
          PROVE  \A q \in Req : Harmless(req[q])'
      <3>1. Harmless([Admin(op, oneTime[k].usr) EXCEPT !.pc = "link.consume", !.otk = k])
        BY <2>6, OrdinaryRoles DEF LinkFind, Admin, Idle, NoUser, Harmless
      <3> QED BY <2>0, <2>6, <3>1, StartHarmless DEF LinkFind
    <2>7. CASE UNCHANGED req
      BY <2>0, <2>7
    <2>8. ASSUME NEW r \in Req, Done(r)
          PROVE  \A q \in Req : Harmless(req[q])'
      BY <2>0, <2>8, MoveHarmless
    <2> QED
      BY <1>2, <2>1, <2>2, <2>3, <2>4, <2>5, <2>6, <2>7, <2>8 DEF AuthStart, logout_all,
         revoke_own_session, forgot_password, AdminStart, AdminFails, Environment,
         purge_expired_auth_records, ExpireSession, ExpireOneTime, ExpireAccess,
         ForgetToken, Abort, Fails
  <1> QED BY <1>3, <1>4, <1>5 DEF OrdinaryInv, NobodyAdministers, require_admin

(***************************************************************************)
(* Administrators are made by administrators, or by the seed.  With seeding *)
(* switched off and nobody to administer at the start, no sequence of      *)
(* registrations, approval links, sign-ins, refreshes and resets gives an  *)
(* account or a token a role that administers users.  The other side of it *)
(* is that a platform whose last administrator is gone, tokens and requests *)
(* in flight included, stays without one.                                  *)
(***************************************************************************)
THEOREM AdministratorsDescend ==
    ASSUME "seed_admin" \notin Ops,
           \A u \in User : ~can_administer_users(InitUsers[u].role),
           \A a \in InitAccess : ~can_administer_users(a.role)
    PROVE  Spec => []NobodyAdministers
  <1>1. Init => OrdinaryInv
    BY OrdinaryRoles DEF Init, OrdinaryInv, NobodyAdministers, require_admin, Harmless,
       Idle, NoUser
  <1>2. OrdinaryInv /\ LocalInv /\ [Next]_vars => OrdinaryInv'
    <2> SUFFICES ASSUME OrdinaryInv, LocalInv, [Next]_vars
                 PROVE  OrdinaryInv'
      OBVIOUS
    <2>1. CASE UNCHANGED vars
      BY <2>1 DEF vars, OrdinaryInv, NobodyAdministers, require_admin
    <2> QED BY <2>1, StartOrdinary, AuthOrdinary, AdminOrdinary DEF Next
  <1>3. OrdinaryInv => NobodyAdministers
    BY DEF OrdinaryInv
  <1> QED BY <1>1, <1>2, <1>3, LocalInvariance, PTL DEF Spec
=============================================================================
