------------------------------ MODULE Accounts ------------------------------
(***************************************************************************)
(* The account service: the handlers of AuthFlows and AdminFlows over one  *)
(* database, and the properties that make it correct.                      *)
(***************************************************************************)
EXTENDS AdminFlows

\* A handler in flight takes its next step.
Continue(r) == AuthContinue(r) \/ AdminContinue(r)

Next ==
    \/ AuthStart
    \/ AdminStart
    \/ \E r \in Req : AuthContinue(r)
    \/ \E r \in Req : AdminContinue(r)
    \/ Environment

Spec == Init /\ [][Next]_vars

\* The runtime polls every task it has started, and an access token expires
\* 15 minutes after it was signed.
Fairness == /\ \A r \in Req : WF_vars(Continue(r))
            /\ \A a \in AccessToken : WF_vars(ExpireAccess(a))

FairSpec == Spec /\ Fairness

-----------------------------------------------------------------------------
\* Every variable stays in its type; in particular a handler in flight has
\* an account it is about.
TypeOK ==
    /\ users \in [User -> UserRow]
    /\ sessions \in [Family -> SessionRow]
    /\ oneTime \in [OneTime -> OneTimeRow]
    /\ claims \in [Token -> Claim]
    /\ access \subseteq AccessToken
    /\ req \in [Req -> Request]
    /\ \A r \in Req : req[r].pc # "idle" => req[r].usr \in User

\* refresh and logout trust the account named inside the refresh token and
\* never compare it with the row's user_id.  That is sound: whenever a token
\* a client holds, or one a handler has looked up, points at an existing row,
\* the row belongs to the account the token names.
TokensNameTheirSession ==
    /\ \A t \in Token :
          claims[t].fam \in Family /\ sessions[claims[t].fam].st # "free"
             => sessions[claims[t].fam].usr = claims[t].sub
    /\ \A r \in Req :
          req[r].fam \in Family /\ sessions[req[r].fam].st # "free"
             => sessions[req[r].fam].usr = req[r].usr

\* The request has spent its one-time link and not yet acted on it.
Acts(rq) == \/ rq.pc \in {"reset.write", "reject.write"}
            \/ rq.pc \in {"flags.load", "flags.write"} /\ rq.op = "quick_approve"
Acting(r) == Acts(req[r])

\* "A concurrent replay of the same token can never land twice" (auth.rs,
\* reset_password), and an approval link is applied once, as approve or as
\* reject: while one request acts on a link no other does, and nobody can
\* spend the link again.
LinkActsOnce ==
    \A r \in Req : Acting(r) =>
        /\ ~Consumable(oneTime, req[r].otk)
        /\ \A q \in Req \ {r} : Acting(q) => req[q].otk # req[r].otk

\* A pending applicant never holds an access token: an account is approved only
\* together with a real role, although update_user_flags writes both columns
\* back from a row read earlier.  (That it also undoes a ban or a role change this
\* way breaks nothing of this.)
PendingNeverSignsIn ==
    /\ \A u \in User : users[u].approved => users[u].role # PENDING
    /\ \A a \in access : a.role # PENDING

\* Ban, delete and role change never leave the platform without an active
\* SYSTEM_ADMIN (admin.rs:457), while one such request at a time is served and its
\* count succeeds.  Approval and rejection look at no count: either, of the last
\* administrator, leaves none.
ActiveAdminRemains == count_active_system_admins(users) >= 1

-----------------------------------------------------------------------------
\* The sessions table behaves as SessionLifecycle promises.
Table == INSTANCE SessionLifecycle WITH table <- sessions
SessionsFollowLifecycle == Table!Spec

\* An account that stays banned, unapproved, deleted or removed is in the end
\* left without any valid access token, whatever sessions slipped past the
\* revocation: refresh reads the account again every time.
Barred(u) == ~Loads(users, u) \/ ~MayAuthenticate(users[u])
BarredUserLosesAccess ==
    \A u \in User : <>[]Barred(u) => <>[](\A a \in access : a.sub # u)

\* Once an account's role settles, every access token it holds in the end
\* carries that role: no chain of refreshes keeps an old role alive.  Until then it
\* may answer to the old one, where admin.rs:591 has it that a session token "issued
\* under the old role must never keep working".
RoleInTokensSettles ==
    \A u \in User :
        <>[][users'[u].role = users[u].role]_vars
            => <>[](\A a \in access : a.sub = u => a.role = users[u].role)
=============================================================================
