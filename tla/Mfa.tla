-------------------------------- MODULE Mfa --------------------------------
(***************************************************************************)
(* Multi-factor authentication of one account: server/src/mfa.rs over the  *)
(* tables of server/src/db/mfa.rs, with the decision auth::login takes and *)
(* the administrator's reset.  No statement touches two accounts.  The     *)
(* account is approved and not banned throughout, and keeps its role.      *)
(*                                                                         *)
(* A request slot r runs one handler; each database statement with the     *)
(* local code after it is one action and req[r].pc names the next one.     *)
(* The client knows the password.  A handler that refuses before its first *)
(* write changes nothing and is not an action.                             *)
(*                                                                         *)
(* A TOTP secret stands for every code an authenticator shows for it: such *)
(* a code is accepted again and again while its time window lasts.  Random *)
(* values never repeat; None is a code nobody was given.                   *)
(***************************************************************************)
EXTENDS Naturals

CONSTANTS
    Req,        \* request slots
    Secret,     \* TOTP secrets
    EmailCode,  \* e-mailed codes (each stands for its hash)
    Batch,      \* sets of recovery codes, one per confirmation
    SetSize,    \* RECOVERY_CODE_COUNT
    None,
    Methods,    \* "totp"; "email" if the account has an address on file
    Faults      \* "db": a statement may fail; "abort": a handler may be dropped

RecoveryCode == Batch \X (1..SetSize)
OneTimeCode == EmailCode \cup RecoveryCode
Code == Secret \cup OneTimeCode

ASSUME SetSizeAssumption == SetSize \in Nat \ {0}
ASSUME KindsAssumption ==
    /\ None \notin Code
    /\ Secret \cap OneTimeCode = {} /\ EmailCode \cap RecoveryCode = {}
ASSUME MfaFaultsAssumption ==
    Methods \subseteq {"totp", "email"} /\ Faults \subseteq {"db", "abort"}

VARIABLES
    required,   \* whether the account's role is in MFA_REQUIRED_ROLES
    cred,       \* its row of mfa_credentials
    recovery,   \* its unused rows of mfa_recovery_codes
    challenge,  \* purposes of the challenge tokens handed out (one that has expired
                \* is one that its holder no longer uses)
    sessions,   \* whether a session was handed out, whose tokens are still used
    issued,     \* every random value generated so far
    confirmed,  \* history: the codes that confirmed an enrolment
    uses,       \* history: how often each one-time code was accepted
    req         \* the local state of each request slot

history == <<confirmed, uses>>
vars == <<required, cred, recovery, challenge, sessions, issued, history, req>>

-----------------------------------------------------------------------------
\* mfa_credentials.  The method picks the field that is meaningful.
Credential ==
    [st : {"pending", "enabled"}, method : {"totp"}, secret : Secret,
     code : {None}, expired : {FALSE}]
    \cup
    [st : {"pending", "enabled"}, method : {"email"}, secret : {None},
     code : EmailCode \cup {None}, expired : BOOLEAN]
NoCredential == [st |-> "none", method |-> "totp", secret |-> None,
                 code |-> None, expired |-> FALSE]

\* INSERT ... ON CONFLICT (user_id) DO UPDATE: whatever was there before, an
\* enabled credential included, the row is pending afterwards.
upsert_pending_mfa_credential(s) ==
    [st |-> "pending", method |-> "totp", secret |-> s, code |-> None,
     expired |-> FALSE]
upsert_pending_email_mfa_credential(c) ==
    [st |-> "pending", method |-> "email", secret |-> None, code |-> c,
     expired |-> FALSE]

\* Mutations: AND method = 'email' is missing; AND secret = $2 is missing.
AnyRow(row) == row.st # "none"
AnySecretMatches(row, s) == row.st # "none"

\* The WHERE clauses of the UPDATEs.
IsEmailRow(row) == row.st # "none" /\ row.method = "email"
SecretMatches(row, s) == row.st # "none" /\ row.secret = s
EmailCodeMatches(row, c) == IsEmailRow(row) /\ c # None /\ row.code = c /\ ~row.expired

\* Mutation: the code is not cleared.
AcceptAndKeep(row) == row

update_email_mfa_code(row, c) == [row EXCEPT !.code = c, !.expired = FALSE]
enable_mfa_credential(row) == [row EXCEPT !.st = "enabled"]
enable_email_mfa_credential(row) ==
    [row EXCEPT !.st = "enabled", !.code = None, !.expired = FALSE]
consume_email_mfa_code(row) == [row EXCEPT !.code = None, !.expired = FALSE]

\* Mutation: a pending credential passes as well.
IsEnrolled(row) == row.st # "none"
\* .filter(|row| row.enabled_at.is_some())
IsEnabled(row) == row.st = "enabled"

-----------------------------------------------------------------------------
Request == [pc     : {"idle", "send", "confirm.totp", "confirm.email", "codes.delete",
                      "codes.insert", "verify.email", "verify.recovery",
                      "credential.delete", "credential.codes", "issue"},
            op     : {"none", "login", "request_code", "enroll_confirm",
                      "challenge_enroll_confirm", "challenge_verify", "disable",
                      "admin_reset"},
            code   : Code \cup {None},    \* the code that was presented
            secret : Secret \cup {None},  \* the secret it was checked against
            set    : Batch \cup {None},   \* the recovery codes it generated
            n      : 1..(SetSize + 1)]    \* the next one to insert
Idle == [pc |-> "idle", op |-> "none", code |-> None, secret |-> None, set |-> None,
         n |-> 1]

Init ==
    /\ required \in BOOLEAN
    /\ cred = NoCredential
    /\ recovery = {}
    /\ challenge = {}
    /\ sessions = FALSE
    /\ issued = {}
    /\ confirmed = {}
    /\ uses = [c \in OneTimeCode |-> 0]
    /\ req = [r \in Req |-> Idle]

At(r, pc) == req[r].pc = pc
Start(r, new) == req' = [req EXCEPT ![r] = new]
Goto(r, pc) == Start(r, [req[r] EXCEPT !.pc = pc])
Done(r) == Start(r, Idle)

\* The answers of find_mfa_credential(..).await.ok().flatten(): a failed read
\* looks like a missing row.
Found == {cred} \cup (IF "db" \in Faults THEN {NoCredential} ELSE {})

\* What a client may type: a code it was given, or another one.
Typed == {None} \cup (issued \cap (Secret \cup EmailCode)) \cup
         ((issued \cap Batch) \X (1..SetSize))
Holds(purpose) == purpose \in challenge

Accepted(c) == IF c \in OneTimeCode THEN [uses EXCEPT ![c] = @ + 1] ELSE uses

-----------------------------------------------------------------------------
\* Mutation: the role is not looked at.
OutcomeByRowAlone(row) == IF IsEnabled(row) THEN "challenge" ELSE "not required"

\* login, once the password, the ban and the approval have been checked.
login_mfa_outcome(row) ==
    IF IsEnabled(row) THEN "challenge"
    ELSE IF required THEN "enrollment" ELSE "not required"

Login(r) ==
    /\ req[r] = Idle
    /\ \E row \in Found :
          \/ /\ login_mfa_outcome(row) = "not required"
             /\ Start(r, [Idle EXCEPT !.pc = "issue", !.op = "login"])
             /\ UNCHANGED challenge
          \/ /\ login_mfa_outcome(row) = "enrollment"
             /\ challenge' = challenge \cup {"mfa_enrollment"}
             /\ UNCHANGED req
          \/ /\ login_mfa_outcome(row) = "challenge"
             /\ row.method = "totp"
             /\ challenge' = challenge \cup {"mfa_login"}
             /\ UNCHANGED req
          \/ /\ login_mfa_outcome(row) = "challenge"
             /\ row.method = "email"
             /\ Start(r, [Idle EXCEPT !.pc = "send", !.op = "login"])
             /\ UNCHANGED challenge
    /\ UNCHANGED <<required, cred, recovery, sessions, issued, history>>

\* resend_email_code.  Its result is ignored by login, which answers with the
\* challenge token in any case.
resend_email_code(r) ==
    /\ At(r, "send")
    /\ \/ \E c \in EmailCode \ issued :
             /\ issued' = issued \cup {c}
             /\ cred' = IF IsEmailRow(cred) THEN update_email_mfa_code(cred, c) ELSE cred
       \/ "db" \in Faults /\ UNCHANGED <<cred, issued>>
    /\ challenge' = challenge \cup (IF req[r].op = "login" THEN {"mfa_login"} ELSE {})
    /\ Done(r)
    /\ UNCHANGED <<required, recovery, sessions, history>>

\* challenge_request_code
RequestCode(r) ==
    /\ req[r] = Idle
    /\ Holds("mfa_login")
    /\ IsEnabled(cred) /\ cred.method = "email"
    /\ Start(r, [Idle EXCEPT !.pc = "send", !.op = "request_code"])
    /\ UNCHANGED <<required, cred, recovery, challenge, sessions, issued, history>>

-----------------------------------------------------------------------------
\* enroll with an access token, challenge_enroll with an enrolment token; the
\* same pair for starting again and for resending the code.
MayEnroll == sessions \/ Holds("mfa_enrollment")

BeginTotpEnrollment ==
    /\ MayEnroll
    /\ "totp" \in Methods
    /\ \E s \in Secret \ issued :
          /\ issued' = issued \cup {s}
          /\ cred' = upsert_pending_mfa_credential(s)
    /\ UNCHANGED <<required, recovery, challenge, sessions, history, req>>

BeginEmailEnrollment ==
    /\ MayEnroll
    /\ "email" \in Methods
    /\ \E c \in EmailCode \ issued :
          /\ issued' = issued \cup {c}
          /\ cred' = upsert_pending_email_mfa_credential(c)
    /\ UNCHANGED <<required, recovery, challenge, sessions, history, req>>

\* enroll_resend, challenge_enroll_resend: one UPDATE, whatever state the row
\* is in.
EnrollResend ==
    /\ MayEnroll
    /\ IsEmailRow(cred)
    /\ \E c \in EmailCode \ issued :
          /\ issued' = issued \cup {c}
          /\ cred' = update_email_mfa_code(cred, c)
    /\ UNCHANGED <<required, recovery, challenge, sessions, history, req>>

-----------------------------------------------------------------------------
\* confirm_enrollment, called by enroll_confirm and challenge_enroll_confirm.
\* An enabled credential is taken for the success of an earlier try: the login
\* goes on, the code is not looked at.
ConfirmFind(r, op, c) ==
    /\ req[r] = Idle
    /\ IF op = "enroll_confirm" THEN sessions ELSE Holds("mfa_enrollment")
    /\ cred.st # "none"
    /\ LET new == [Idle EXCEPT !.op = op, !.code = c] IN
          \/ /\ IsEnabled(cred)
             /\ op = "challenge_enroll_confirm"
             /\ Start(r, [new EXCEPT !.pc = "issue", !.code = None])
          \/ /\ ~IsEnabled(cred)
             /\ cred.method = "email"
             /\ Start(r, [new EXCEPT !.pc = "confirm.email"])
          \/ /\ ~IsEnabled(cred)
             /\ cred.method = "totp"
             /\ c = cred.secret
             /\ Start(r, [new EXCEPT !.pc = "confirm.totp", !.secret = cred.secret])
    /\ UNCHANGED <<required, cred, recovery, challenge, sessions, issued, history>>

\* The enabling UPDATE changed a row: make a set of recovery codes.
Confirmed(r, row) ==
    /\ cred' = row
    /\ confirmed' = confirmed \cup {req[r].code}
    /\ uses' = Accepted(req[r].code)
    /\ \E b \in Batch \ issued :
          /\ issued' = issued \cup {b}
          /\ Start(r, [req[r] EXCEPT !.pc = "codes.delete", !.set = b])

NotConfirmed(r) == Done(r) /\ UNCHANGED <<cred, history, issued>>

EnableTotp(r) ==
    /\ At(r, "confirm.totp")
    /\ \/ SecretMatches(cred, req[r].secret) /\ Confirmed(r, enable_mfa_credential(cred))
       \/ ~SecretMatches(cred, req[r].secret) /\ NotConfirmed(r)
    /\ UNCHANGED <<required, recovery, challenge, sessions>>

EnableEmail(r) ==
    /\ At(r, "confirm.email")
    /\ \/ /\ EmailCodeMatches(cred, req[r].code)
          /\ Confirmed(r, enable_email_mfa_credential(cred))
       \/ ~EmailCodeMatches(cred, req[r].code) /\ NotConfirmed(r)
    /\ UNCHANGED <<required, recovery, challenge, sessions>>

\* replace_recovery_codes: a DELETE and one INSERT per code, not a transaction.
DeleteOldCodes(r) ==
    /\ At(r, "codes.delete")
    /\ recovery' = {}
    /\ Goto(r, "codes.insert")
    /\ UNCHANGED <<required, cred, challenge, sessions, issued, history>>

InsertCode(r) ==
    /\ At(r, "codes.insert")
    /\ req[r].n <= SetSize
    /\ recovery' = recovery \cup {<<req[r].set, req[r].n>>}
    /\ Start(r, [req[r] EXCEPT !.n = @ + 1])
    /\ UNCHANGED <<required, cred, challenge, sessions, issued, history>>

\* All codes are in: the mandatory audit record, and the answer or the session.
ConfirmEnd(r) ==
    /\ At(r, "codes.insert")
    /\ req[r].n > SetSize
    /\ \/ req[r].op = "enroll_confirm" /\ Done(r)
       \/ req[r].op = "challenge_enroll_confirm" /\ Goto(r, "issue")
    /\ UNCHANGED <<required, cred, recovery, challenge, sessions, issued, history>>

-----------------------------------------------------------------------------
\* verify_code, called by challenge_verify and disable: the row is judged here,
\* the one-time codes are consumed by later statements.
Pass(r, local) ==
    Start(r, [local EXCEPT !.pc = IF local.op = "disable" THEN "credential.delete"
                                  ELSE "issue"])

VerifyFind(r, op, c) ==
    /\ req[r] = Idle
    /\ IF op = "disable" THEN sessions ELSE Holds("mfa_login")
    /\ IsEnabled(cred)
    /\ LET new == [Idle EXCEPT !.op = op, !.code = c] IN
          \/ cred.method = "email" /\ Start(r, [new EXCEPT !.pc = "verify.email"])
          \/ cred.method = "totp" /\ c = cred.secret /\ Pass(r, new)
          \/ /\ cred.method = "totp" /\ c # cred.secret
             /\ Start(r, [new EXCEPT !.pc = "verify.recovery"])
    /\ UNCHANGED <<required, cred, recovery, challenge, sessions, issued, history>>

\* An error counts as no match (unwrap_or(false)).
ConsumeEmailCode(r) ==
    /\ At(r, "verify.email")
    /\ \/ /\ EmailCodeMatches(cred, req[r].code)
          /\ cred' = consume_email_mfa_code(cred)
          /\ uses' = Accepted(req[r].code)
          /\ Pass(r, req[r])
       \/ /\ ~EmailCodeMatches(cred, req[r].code) \/ "db" \in Faults
          /\ Goto(r, "verify.recovery")
          /\ UNCHANGED <<cred, uses>>
    /\ UNCHANGED <<required, recovery, challenge, sessions, issued, confirmed>>

consume_recovery_code(r) ==
    /\ At(r, "verify.recovery")
    /\ \/ /\ req[r].code \in recovery
          /\ recovery' = recovery \ {req[r].code}
          /\ uses' = Accepted(req[r].code)
          /\ Pass(r, req[r])
       \/ /\ req[r].code \notin recovery
          /\ Done(r)
          /\ UNCHANGED <<recovery, uses>>
    /\ UNCHANGED <<required, cred, challenge, sessions, issued, confirmed>>

-----------------------------------------------------------------------------
\* issue_session, called by login and by complete_login.
IssueSession(r) ==
    /\ At(r, "issue")
    /\ sessions' = TRUE
    /\ Done(r)
    /\ UNCHANGED <<required, cred, recovery, challenge, issued, history>>

\* mfa_reset_route of admin.rs.
AdminReset(r) ==
    /\ req[r] = Idle
    /\ Start(r, [Idle EXCEPT !.pc = "credential.delete", !.op = "admin_reset"])
    /\ UNCHANGED <<required, cred, recovery, challenge, sessions, issued, history>>

\* delete_mfa_credential: two DELETEs, not a transaction.
DeleteCredential(r) ==
    /\ At(r, "credential.delete")
    /\ cred' = NoCredential
    /\ Goto(r, "credential.codes")
    /\ UNCHANGED <<required, recovery, challenge, sessions, issued, history>>

DeleteRecoveryCodes(r) ==
    /\ At(r, "credential.codes")
    /\ recovery' = {}
    /\ Done(r)
    /\ UNCHANGED <<required, cred, challenge, sessions, issued, history>>

-----------------------------------------------------------------------------
\* A statement or the mandatory audit record failed, which ends every handler
\* here with an error, or the handler was dropped; what was written stays.
Fail(r) ==
    /\ Faults # {}
    /\ req[r] # Idle
    /\ Done(r)
    /\ UNCHANGED <<required, cred, recovery, challenge, sessions, issued, history>>

\* EMAIL_CODE_TTL_MINUTES have passed.
EmailCodeExpires ==
    /\ IsEmailRow(cred) /\ cred.code # None /\ ~cred.expired
    /\ cred' = [cred EXCEPT !.expired = TRUE]
    /\ UNCHANGED <<required, recovery, challenge, sessions, issued, history, req>>

Enrolling(r) ==
    \/ \E op \in {"enroll_confirm", "challenge_enroll_confirm"}, c \in Typed :
          ConfirmFind(r, op, c)
    \/ EnableTotp(r) \/ EnableEmail(r)
    \/ DeleteOldCodes(r) \/ InsertCode(r) \/ ConfirmEnd(r)

SigningIn(r) ==
    \/ Login(r) \/ RequestCode(r) \/ resend_email_code(r)
    \/ \E op \in {"challenge_verify", "disable"}, c \in Typed : VerifyFind(r, op, c)
    \/ ConsumeEmailCode(r) \/ consume_recovery_code(r)
    \/ IssueSession(r)

Removing(r) == AdminReset(r) \/ DeleteCredential(r) \/ DeleteRecoveryCodes(r)

Next ==
    \/ BeginTotpEnrollment \/ BeginEmailEnrollment \/ EnrollResend
    \/ \E r \in Req : Enrolling(r) \/ SigningIn(r) \/ Removing(r) \/ Fail(r)
    \/ EmailCodeExpires

Spec == Init /\ [][Next]_vars

-----------------------------------------------------------------------------
\* Every variable has its type; a TOTP row carries no e-mailed code and an
\* e-mail row no secret, whichever statements raced on it (db/mfa.rs:6).
TypeOK ==
    /\ required \in BOOLEAN
    /\ cred \in Credential \cup {NoCredential}
    /\ recovery \subseteq RecoveryCode
    /\ challenge \subseteq {"mfa_login", "mfa_enrollment"}
    /\ sessions \in BOOLEAN
    /\ issued \subseteq Secret \cup EmailCode \cup Batch
    /\ confirmed \subseteq Secret \cup EmailCode
    /\ uses \in [OneTimeCode -> Nat]
    /\ req \in [Req -> Request]

\* An e-mailed code or a recovery code is accepted once over all confirmations,
\* sign-ins and removals, however they interleave: a row that was read with the
\* code in it does not make the code good.
CodesActOnce == \A c \in OneTimeCode : uses[c] <= 1

\* A credential becomes enabled only by a confirmation that presented a code of
\* this very credential: one that an earlier enrolment handed out confirms
\* nothing once the enrolment was started again.
EnabledByItsOwnCode ==
    [][cred.st # "enabled" /\ cred'.st = "enabled" =>
          \E r \in Req : /\ req[r].code \in Secret \cup EmailCode
                         /\ req[r].code \in {cred.secret, cred.code}]_vars

\* An authenticator whose enrolment was never confirmed signs nobody in and
\* removes no factor.
PendingSecretActsNowhere ==
    \A r \in Req :
       /\ req[r].pc \in {"issue", "credential.delete"}
       /\ req[r].op \in {"challenge_verify", "disable"}
       /\ req[r].code \in Secret
       => req[r].code \in confirmed

\* The code of request r was good when it was taken, and no other sign-in rests
\* on it if it acts once.
TookCode(r) ==
    \/ req[r].code \in confirmed
    \/ /\ req[r].code \in OneTimeCode
       /\ uses[req[r].code] = 1
       /\ \A p \in Req \ {r} : req[p].pc = "issue" => req[p].code # req[r].code

\* Each session rests on a code of its own, with two exceptions (mfa.rs:15-28).
\* A sign-in without a factor is for a role that needs none; since a failed read
\* counts as no factor (mfa.rs:90-94), it is also given to such a role when its
\* factor is enabled.  An enrolment token is worth a session without any code
\* once an enrolment was confirmed, as a retry (mfa.rs:358); since the failed read
\* gives a required role that token instead of a challenge, its password alone is
\* then enough.  Both are against mfa.rs:26 ("no code path hands out an
\* access/refresh token pair for such an account without MFA actually being
\* satisfied first").
SessionsTakeCodes ==
    \A r \in Req :
       req[r].pc = "issue" =>
          \/ TookCode(r)
          \/ req[r].op = "login" /\ ~required
          \/ /\ req[r].op = "challenge_enroll_confirm" /\ req[r].code = None
             /\ confirmed # {}
=============================================================================
