----------------------------- MODULE Mfa_proofs -----------------------------
(***************************************************************************)
(* Proofs about Mfa, for any number of requests, secrets and codes, any    *)
(* size of a set of recovery codes and any faults.                         *)
(***************************************************************************)
EXTENDS Mfa, TLAPS

Confirms == {"enroll_confirm", "challenge_enroll_confirm"}
Checks == {"challenge_verify", "disable"}

\* A code that could still be accepted has not been accepted yet, and what was
\* never generated is nowhere.
CodesOK ==
    /\ \A c \in EmailCode : c \notin issued => uses[c] = 0
    /\ \A b \in Batch, k \in 1..SetSize :
          b \notin issued => uses[<<b, k>>] = 0 /\ <<b, k>> \notin recovery
    /\ cred.code \in EmailCode => cred.code \in issued /\ uses[cred.code] = 0
    /\ \A x \in recovery : uses[x] = 0
    /\ CodesActOnce

\* An enabled credential was confirmed.
FactorOK ==
    /\ cred.st = "enabled" => confirmed # {}
    /\ cred.st = "enabled" /\ cred.method = "totp" => cred.secret \in confirmed

Inserting(r) == req[r].pc \in {"codes.delete", "codes.insert"}

\* The codes r has yet to insert are new.
CodesAhead(r) ==
    \A k \in 1..SetSize :
       k >= req[r].n => /\ uses[<<req[r].set, k>>] = 0
                        /\ <<req[r].set, k>> \notin recovery

\* What a handler between two statements has established.
LocalOK(r) ==
    /\ req[r].pc \in {"confirm.totp", "confirm.email"} => req[r].op \in Confirms
    /\ req[r].pc = "confirm.totp" =>
          req[r].code = req[r].secret /\ req[r].code \in Secret
    /\ Inserting(r) => /\ req[r].op \in Confirms
                       /\ confirmed # {}
                       /\ req[r].set \in Batch
                       /\ req[r].set \in issued
                       /\ CodesAhead(r)
    /\ req[r].pc \in {"verify.email", "verify.recovery"} =>
          req[r].op \in Checks /\ confirmed # {}
    /\ req[r].pc = "issue" =>
          \/ req[r].op = "login" /\ ~required
          \/ req[r].op \in Confirms \cup {"challenge_verify"} /\ confirmed # {}
    /\ /\ req[r].pc \in {"issue", "credential.delete"}
       /\ req[r].op \in {"challenge_verify", "disable"}
       /\ req[r].code \in Secret
       => req[r].code \in confirmed

\* Two confirmations insert different sets.
SetsDiffer ==
    \A p, q \in Req : p # q /\ Inserting(p) /\ Inserting(q) => req[p].set # req[q].set

IInv == TypeOK /\ CodesOK /\ FactorOK /\ (\A r \in Req : LocalOK(r)) /\ SetsDiffer

-----------------------------------------------------------------------------
\* The statements on mfa_credentials return rows.
LEMMA RowsAreRows ==
    /\ NoCredential.st = "none" /\ NoCredential.code = None
    /\ \A s \in Secret :
          /\ upsert_pending_mfa_credential(s) \in Credential
          /\ upsert_pending_mfa_credential(s).st = "pending"
          /\ upsert_pending_mfa_credential(s).code = None
    /\ \A c \in EmailCode :
          /\ upsert_pending_email_mfa_credential(c) \in Credential
          /\ upsert_pending_email_mfa_credential(c).st = "pending"
          /\ upsert_pending_email_mfa_credential(c).code = c
    BY DEF upsert_pending_mfa_credential, upsert_pending_email_mfa_credential,
           NoCredential, Credential

\* An UPDATE keeps the method, and the state except where it enables.
LEMMA UpdatesKeepRows ==
    ASSUME NEW row \in Credential \cup {NoCredential}
    PROVE  /\ row.code \in EmailCode \cup {None}
           /\ row.secret \in Secret \cup {None}
           /\ row.st # "none" /\ row.method = "totp" => row.secret \in Secret
           /\ row.secret # None => row.code = None
           /\ IsEmailRow(row) =>
                 /\ enable_email_mfa_credential(row) \in Credential
                 /\ enable_email_mfa_credential(row).code = None
                 /\ enable_email_mfa_credential(row).method = "email"
           /\ IsEmailRow(row) =>
                 /\ consume_email_mfa_code(row) \in Credential
                 /\ consume_email_mfa_code(row).code = None
                 /\ consume_email_mfa_code(row).st = row.st
                 /\ consume_email_mfa_code(row).method = "email"
           /\ IsEmailRow(row) =>
                 /\ [row EXCEPT !.expired = TRUE] \in Credential
                 /\ [row EXCEPT !.expired = TRUE].code = row.code
                 /\ [row EXCEPT !.expired = TRUE].st = row.st
                 /\ [row EXCEPT !.expired = TRUE].method = "email"
           /\ row.st # "none" =>
                 /\ enable_mfa_credential(row) \in Credential
                 /\ enable_mfa_credential(row).code = row.code
                 /\ enable_mfa_credential(row).secret = row.secret
<1>1. CASE row = NoCredential
    BY <1>1 DEF NoCredential, IsEmailRow
<1>2. CASE row \in Credential
    BY <1>2 DEF Credential, IsEmailRow, consume_email_mfa_code,
                enable_email_mfa_credential, enable_mfa_credential
<1> QED
    BY <1>1, <1>2

\* A resent code replaces the one in the row and nothing else.
LEMMA ResendKeepsRow ==
    ASSUME NEW row \in Credential \cup {NoCredential}, IsEmailRow(row),
           NEW c \in EmailCode
    PROVE  /\ update_email_mfa_code(row, c) \in Credential
           /\ update_email_mfa_code(row, c).code = c
           /\ update_email_mfa_code(row, c).st = row.st
           /\ update_email_mfa_code(row, c).method = "email"
<1>1. row \in [st : {"pending", "enabled"}, method : {"email"}, secret : {None},
              code : EmailCode \cup {None}, expired : BOOLEAN]
    BY RowsAreRows DEF Credential, IsEmailRow
<1> QED
    BY <1>1 DEF Credential, update_email_mfa_code

\* The step of request r to the local state new.
LEMMA Frame ==
    ASSUME IInv, NEW r \in Req, NEW new \in Request, Start(r, new)
    PROVE  /\ req' \in [Req -> Request]
           /\ req'[r] = new
           /\ \A p \in Req \ {r} : req'[p] = req[p]
    BY DEF IInv, TypeOK, Start

\* What is left to show of a step of request r: what it does to the tables, that
\* its new local state is right, and that it takes nothing from the others.
LEMMA StepKeepsIInv ==
    ASSUME IInv, NEW r \in Req,
           TypeOK', CodesOK', FactorOK', LocalOK(r)',
           \A p \in Req \ {r} : req'[p] = req[p],
           required' = required,
           confirmed \subseteq confirmed', issued \subseteq issued',
           \A p \in Req \ {r} : Inserting(p) => CodesAhead(p)',
           Inserting(r)' => \A p \in Req \ {r} : Inserting(p) => req'[r].set # req[p].set
    PROVE  IInv'
<1>1. ASSUME NEW p \in Req \ {r}
      PROVE  LocalOK(p)'
    BY <1>1 DEF IInv, LocalOK, Inserting
<1>2. SetsDiffer'
    BY DEF IInv, SetsDiffer, Inserting
<1> QED
    BY <1>1, <1>2 DEF IInv

\* A step that changes nothing but the local state of r and the challenge
\* tokens.
LEMMA QuietStep ==
    ASSUME IInv, NEW r \in Req, NEW new \in Request, Start(r, new),
           challenge' \subseteq {"mfa_login", "mfa_enrollment"},
           UNCHANGED <<required, cred, recovery, sessions, issued, history>>,
           LocalOK(r)',
           Inserting(r)' => Inserting(r) /\ new.set = req[r].set
    PROVE  IInv'
<1>1. /\ req' \in [Req -> Request]
      /\ req'[r] = new
      /\ \A p \in Req \ {r} : req'[p] = req[p]
    BY Frame
<1>2. TypeOK'
    BY <1>1 DEF IInv, TypeOK, history
<1>3. CodesOK' /\ FactorOK'
    BY DEF IInv, CodesOK, FactorOK, CodesActOnce, history
<1>4. \A p \in Req \ {r} : Inserting(p) => CodesAhead(p)'
    BY <1>1 DEF IInv, LocalOK, CodesAhead, history
<1>5. Inserting(r)' => \A p \in Req \ {r} : Inserting(p) => req'[r].set # req[p].set
    BY <1>1 DEF IInv, SetsDiffer
<1> QED
    BY <1>1, <1>2, <1>3, <1>4, <1>5, StepKeepsIInv DEF history

\* The local states of a free slot.
LEMMA IdleIsRequest == Idle \in Request /\ Idle.pc = "idle" /\ Idle.code = None
    BY SetSizeAssumption DEF Idle, Request

\* A request that ends has nothing left to show.
LEMMA EndIsOK ==
    ASSUME IInv, NEW r \in Req, Done(r)
    PROVE  LocalOK(r)' /\ ~Inserting(r)' /\ req'[r] = Idle
<1>1. req'[r] = Idle
    BY DEF IInv, TypeOK, Done, Start
<1> QED
    BY <1>1, IdleIsRequest DEF LocalOK, Inserting

-----------------------------------------------------------------------------
\* The invariant holds of an account that has no factor.
LEMMA InitIInv == Init => IInv
<1> SUFFICES ASSUME Init PROVE IInv
    OBVIOUS
<1>1. \A r \in Req : req[r] = Idle
    BY DEF Init
<1>2. TypeOK
    BY IdleIsRequest DEF Init, TypeOK
<1>3. CodesOK /\ FactorOK
  <2>1. \A b \in Batch, k \in 1..SetSize : <<b, k>> \in OneTimeCode
      BY DEF OneTimeCode, RecoveryCode
  <2>2. cred.code \notin EmailCode /\ cred.st = "none"
      BY RowsAreRows, KindsAssumption DEF Init, Code, OneTimeCode
  <2> QED
      BY <2>1, <2>2 DEF Init, CodesOK, FactorOK, CodesActOnce,
                        OneTimeCode
<1>4. (\A r \in Req : LocalOK(r)) /\ SetsDiffer
    BY <1>1, IdleIsRequest DEF LocalOK, SetsDiffer, Inserting
<1> QED
    BY <1>2, <1>3, <1>4 DEF IInv

-----------------------------------------------------------------------------
\* login
LEMMA LoginStep == ASSUME IInv, NEW r \in Req, Login(r) PROVE IInv'
<1> DEFINE issue == [Idle EXCEPT !.pc = "issue", !.op = "login"]
           send == [Idle EXCEPT !.pc = "send", !.op = "login"]
<1>1. /\ UNCHANGED <<required, cred, recovery, sessions, issued, history>>
      /\ \/ ~required /\ Start(r, issue) /\ UNCHANGED challenge
         \/ Start(r, send) /\ UNCHANGED challenge
         \/ UNCHANGED req /\ challenge' \subseteq {"mfa_login", "mfa_enrollment"}
    BY DEF Login, login_mfa_outcome, IInv, TypeOK
<1>2. issue \in Request /\ send \in Request
    BY IdleIsRequest DEF Request
<1>3. issue.pc = "issue" /\ issue.op = "login" /\ send.pc = "send"
    BY IdleIsRequest DEF Idle
<1> HIDE DEF issue, send
<1>4. CASE ~required /\ Start(r, issue) /\ UNCHANGED challenge
  <2>1. req'[r] = issue
      BY <1>2, <1>4, Frame
  <2>2. LocalOK(r)' /\ ~Inserting(r)'
      BY <1>1, <1>3, <1>4, <2>1 DEF LocalOK, Inserting
  <2> QED
      BY <1>1, <1>2, <1>4, <2>2, QuietStep DEF IInv, TypeOK
<1>5. CASE Start(r, send) /\ UNCHANGED challenge
  <2>1. req'[r] = send
      BY <1>2, <1>5, Frame
  <2>2. LocalOK(r)' /\ ~Inserting(r)'
      BY <1>3, <2>1 DEF LocalOK, Inserting
  <2> QED
      BY <1>1, <1>2, <1>5, <2>2, QuietStep DEF IInv, TypeOK
<1>6. CASE UNCHANGED req /\ challenge' \subseteq {"mfa_login", "mfa_enrollment"}
  <2>1. req[r] \in Request /\ Start(r, req[r])
      BY <1>6 DEF IInv, TypeOK, Start
  <2>2. LocalOK(r)' /\ (Inserting(r)' => Inserting(r))
      BY <1>1, <1>6 DEF IInv, LocalOK, Inserting, CodesAhead, history
  <2> QED
      BY <1>1, <1>6, <2>1, <2>2, QuietStep
<1> QED
    BY <1>1, <1>4, <1>5, <1>6

\* challenge_request_code, the administrator's reset, and a handler that fails.
LEMMA SmallSteps ==
    ASSUME IInv, NEW r \in Req, RequestCode(r) \/ AdminReset(r) \/ Fail(r)
    PROVE  IInv'
<1> DEFINE send == [Idle EXCEPT !.pc = "send", !.op = "request_code"]
           reset == [Idle EXCEPT !.pc = "credential.delete", !.op = "admin_reset"]
<1>1. /\ UNCHANGED <<required, cred, recovery, challenge, sessions, issued, history>>
      /\ Start(r, send) \/ Start(r, reset) \/ Start(r, Idle)
    BY DEF RequestCode, AdminReset, Fail, Done
<1>2. send \in Request /\ reset \in Request
    BY IdleIsRequest DEF Request
<1>3. send.pc = "send" /\ reset.pc = "credential.delete" /\ reset.op = "admin_reset"
    BY IdleIsRequest DEF Idle
<1> HIDE DEF send, reset
<1>4. ASSUME NEW new \in {send, reset, Idle}, Start(r, new)
      PROVE  IInv'
  <2>1. new \in Request /\ req'[r] = new
      BY <1>2, <1>4, IdleIsRequest, Frame
  <2>2. LocalOK(r)' /\ ~Inserting(r)'
      BY <1>3, <2>1, IdleIsRequest DEF LocalOK, Inserting
  <2> QED
      BY <1>1, <1>4, <2>1, <2>2, QuietStep DEF IInv, TypeOK
<1> QED
    BY <1>1, <1>4

\* confirm_enrollment reads the row.
LEMMA ConfirmFindStep ==
    ASSUME IInv, NEW r \in Req, NEW op \in Confirms, NEW c \in Typed,
           ConfirmFind(r, op, c)
    PROVE  IInv'
<1> DEFINE new == [Idle EXCEPT !.op = op, !.code = c]
           retry == [new EXCEPT !.pc = "issue", !.code = None]
           email == [new EXCEPT !.pc = "confirm.email"]
           totp == [new EXCEPT !.pc = "confirm.totp", !.secret = cred.secret]
<1>1. /\ UNCHANGED <<required, cred, recovery, challenge, sessions, issued, history>>
      /\ \/ cred.st = "enabled" /\ Start(r, retry)
         \/ Start(r, email)
         \/ cred.st # "none" /\ cred.method = "totp" /\ c = cred.secret /\ Start(r, totp)
    BY DEF ConfirmFind, IsEnabled
<1>2. c \in Code \cup {None}
    BY DEF Typed, Code, OneTimeCode, RecoveryCode
<1>3. /\ cred.secret \in Secret \cup {None}
      /\ cred.st # "none" /\ cred.method = "totp" => cred.secret \in Secret
    BY UpdatesKeepRows DEF IInv, TypeOK
<1>4. retry \in Request /\ email \in Request /\ totp \in Request
    BY <1>2, <1>3, IdleIsRequest DEF Request, Confirms
<1>5. /\ retry.pc = "issue" /\ retry.op = op /\ retry.code = None
      /\ email.pc = "confirm.email" /\ email.op = op
      /\ totp.pc = "confirm.totp" /\ totp.op = op
      /\ totp.code = c /\ totp.secret = cred.secret
    BY IdleIsRequest DEF Idle
<1>6. cred.st = "enabled" => confirmed # {}
    BY DEF IInv, FactorOK
<1> HIDE DEF new, retry, email, totp
<1>7. ASSUME NEW local \in {retry, email, totp}, Start(r, local),
             local = retry => cred.st = "enabled",
             local = totp => c = cred.secret /\ c \in Secret
      PROVE  IInv'
  <2>1. local \in Request /\ req'[r] = local
      BY <1>4, <1>7, Frame
  <2>2. LocalOK(r)' /\ ~Inserting(r)'
      BY <1>1, <1>5, <1>6, <1>7, <2>1, KindsAssumption
         DEF LocalOK, Inserting, Confirms, history, Code
  <2> QED
      BY <1>1, <1>7, <2>1, <2>2, QuietStep DEF IInv, TypeOK
<1>8. CASE cred.st = "enabled" /\ Start(r, retry)
  <2>1. retry # totp
      BY <1>5
  <2> QED
      BY <1>7, <1>8, <2>1
<1>9. CASE Start(r, email)
  <2>1. email # totp /\ email # retry
      BY <1>5
  <2> QED
      BY <1>7, <1>9, <2>1
<1>10. CASE cred.st # "none" /\ cred.method = "totp" /\ c = cred.secret /\ Start(r, totp)
  <2>1. totp # retry
      BY <1>5
  <2> QED
      BY <1>3, <1>7, <1>10, <2>1
<1> QED
    BY <1>1, <1>8, <1>9, <1>10

\* The enabling UPDATE of a confirmation changed a row; row is what it is now.
LEMMA ConfirmedStep ==
    ASSUME IInv, NEW r \in Req, NEW row \in Credential, Confirmed(r, row),
           req[r].op \in Confirms,
           req[r].code \in Secret \cup EmailCode,
           req[r].code \in EmailCode =>
              req[r].code \in issued /\ uses[req[r].code] = 0,
           row.code = None,
           row.method = "totp" => row.secret = req[r].code,
           UNCHANGED <<required, recovery, challenge, sessions>>
    PROVE  IInv'
<1> DEFINE c == req[r].code
<1>1. PICK b \in Batch \ issued :
         /\ issued' = issued \cup {b}
         /\ Start(r, [req[r] EXCEPT !.pc = "codes.delete", !.set = b])
    BY DEF Confirmed
<1>2. /\ cred' = row
      /\ confirmed' = confirmed \cup {c}
      /\ uses' = Accepted(c)
    BY DEF Confirmed
<1>3. [req[r] EXCEPT !.pc = "codes.delete", !.set = b] \in Request
  <2>1. req[r] \in Request
      BY DEF IInv, TypeOK
  <2> QED
      BY <2>1 DEF Request
<1>4. /\ req' \in [Req -> Request]
      /\ req'[r] = [req[r] EXCEPT !.pc = "codes.delete", !.set = b]
      /\ \A p \in Req \ {r} : req'[p] = req[p]
    BY <1>1, <1>3, Frame
<1>5. /\ req'[r].pc = "codes.delete"
      /\ req'[r].set = b
      /\ req'[r].op = req[r].op
  <2>1. req[r] \in Request
      BY DEF IInv, TypeOK
  <2> QED
      BY <1>4, <2>1 DEF Request
<1>6. /\ uses' \in [OneTimeCode -> Nat]
      /\ c \in EmailCode => uses'[c] = 1
      /\ \A x \in OneTimeCode : x # c => uses'[x] = uses[x]
    BY <1>2 DEF IInv, TypeOK, Accepted, OneTimeCode
<1>7. \A k \in 1..SetSize, a \in Batch :
         /\ <<a, k>> \in OneTimeCode
         /\ <<a, k>> # c
         /\ uses'[<<a, k>>] = uses[<<a, k>>]
  <2>1. \A k \in 1..SetSize, a \in Batch : <<a, k>> \in RecoveryCode
      BY DEF RecoveryCode
  <2>2. c \notin RecoveryCode
      BY KindsAssumption DEF OneTimeCode
  <2> QED
      BY <1>6, <2>1, <2>2 DEF OneTimeCode
<1>8. TypeOK'
    BY <1>1, <1>2, <1>4, <1>6 DEF IInv, TypeOK
<1>9. CodesOK'
  <2>1. \A x \in EmailCode : x \notin issued' => uses'[x] = 0
      BY <1>1, <1>6 DEF IInv, CodesOK, OneTimeCode
  <2>2. ASSUME NEW a \in Batch, NEW k \in 1..SetSize, a \notin issued'
        PROVE  uses'[<<a, k>>] = 0 /\ <<a, k>> \notin recovery'
      BY <1>1, <1>7, <2>2 DEF IInv, CodesOK
  <2>3. cred'.code \notin EmailCode
      BY <1>2, KindsAssumption DEF Code, OneTimeCode
  <2>4. ASSUME NEW x \in recovery'
        PROVE  uses'[x] = 0
    <3>1. x \in RecoveryCode /\ x # c
        BY <2>4, KindsAssumption DEF IInv, TypeOK, OneTimeCode
    <3> QED
        BY <1>6, <2>4, <3>1 DEF IInv, CodesOK, OneTimeCode
  <2>5. CodesActOnce'
      BY <1>6, KindsAssumption DEF IInv, CodesOK, CodesActOnce, OneTimeCode
  <2> QED
      BY <2>1, <2>2, <2>3, <2>4, <2>5 DEF CodesOK
<1>10. FactorOK'
    BY <1>2 DEF IInv, FactorOK
<1>11. LocalOK(r)'
  <2>1. CodesAhead(r)'
      BY <1>1, <1>5, <1>7 DEF IInv, CodesOK, CodesAhead
  <2> QED
      BY <1>1, <1>2, <1>5, <2>1 DEF LocalOK, Inserting
<1>12. \A p \in Req \ {r} : Inserting(p) => CodesAhead(p)'
    BY <1>4, <1>7 DEF IInv, LocalOK, CodesAhead
<1>13. Inserting(r)' => \A p \in Req \ {r} : Inserting(p) => req'[r].set # req[p].set
    BY <1>5 DEF IInv, LocalOK
<1> QED
    BY <1>1, <1>2, <1>4, <1>8, <1>9, <1>10, <1>11, <1>12, <1>13, StepKeepsIInv

\* A statement of a confirmation that changes no row ends it.
LEMMA NotConfirmedStep ==
    ASSUME IInv, NEW r \in Req, NotConfirmed(r),
           UNCHANGED <<required, recovery, challenge, sessions>>
    PROVE  IInv'
<1>1. Start(r, Idle) /\ LocalOK(r)' /\ ~Inserting(r)'
    BY EndIsOK DEF NotConfirmed, Done
<1> QED
    BY <1>1, IdleIsRequest, QuietStep DEF NotConfirmed, IInv, TypeOK

\* enable_mfa_credential: the secret in the row is the one the code was checked
\* against.
LEMMA EnableTotpStep == ASSUME IInv, NEW r \in Req, EnableTotp(r) PROVE IInv'
<1>1. CASE SecretMatches(cred, req[r].secret) /\ Confirmed(r, enable_mfa_credential(cred))
  <2>1. /\ req[r].op \in Confirms
        /\ req[r].code = req[r].secret
        /\ req[r].code \in Secret
      BY DEF EnableTotp, At, IInv, LocalOK
  <2>2. cred.st # "none" /\ cred.secret = req[r].code
      BY <1>1, <2>1 DEF SecretMatches
  <2>3. /\ enable_mfa_credential(cred) \in Credential
        /\ enable_mfa_credential(cred).secret = req[r].code
        /\ enable_mfa_credential(cred).code = cred.code
      BY <2>2, UpdatesKeepRows DEF IInv, TypeOK
  <2>4. cred.code = None
    <3>1. cred.secret # None
        BY <2>1, <2>2, KindsAssumption DEF Code
    <3> QED
        BY <3>1, UpdatesKeepRows DEF IInv, TypeOK
  <2>5. req[r].code \notin EmailCode
      BY <2>1, KindsAssumption DEF OneTimeCode
  <2> QED
      BY <1>1, <2>1, <2>3, <2>4, <2>5, ConfirmedStep DEF EnableTotp
<1>2. CASE NotConfirmed(r)
    BY <1>2, NotConfirmedStep DEF EnableTotp
<1> QED
    BY <1>1, <1>2 DEF EnableTotp

\* A code that matches the row is one that was e-mailed and not yet accepted.
LEMMA MatchIsNew ==
    ASSUME IInv, NEW c, EmailCodeMatches(cred, c)
    PROVE  /\ IsEmailRow(cred)
           /\ c \in EmailCode
           /\ c = cred.code
           /\ c \in issued /\ uses[c] = 0
    BY UpdatesKeepRows DEF EmailCodeMatches, IInv, TypeOK, CodesOK

\* enable_email_mfa_credential
LEMMA EnableEmailStep == ASSUME IInv, NEW r \in Req, EnableEmail(r) PROVE IInv'
<1>1. CASE /\ EmailCodeMatches(cred, req[r].code)
           /\ Confirmed(r, enable_email_mfa_credential(cred))
  <2>1. req[r].op \in Confirms
      BY DEF EnableEmail, At, IInv, LocalOK
  <2>2. /\ IsEmailRow(cred)
        /\ req[r].code \in EmailCode /\ req[r].code \in issued
        /\ uses[req[r].code] = 0
      BY <1>1, MatchIsNew
  <2>3. /\ enable_email_mfa_credential(cred) \in Credential
        /\ enable_email_mfa_credential(cred).code = None
        /\ enable_email_mfa_credential(cred).method = "email"
      BY <2>2, UpdatesKeepRows DEF IInv, TypeOK
  <2> QED
      BY <1>1, <2>1, <2>2, <2>3, ConfirmedStep DEF EnableEmail
<1>2. CASE NotConfirmed(r)
    BY <1>2, NotConfirmedStep DEF EnableEmail
<1> QED
    BY <1>1, <1>2 DEF EnableEmail

-----------------------------------------------------------------------------
\* A request that moves on to another statement.
LEMMA MoveOn ==
    ASSUME IInv, NEW r \in Req, NEW pc, Goto(r, pc),
           pc \in {"codes.delete", "codes.insert", "verify.email", "verify.recovery",
                   "credential.delete", "credential.codes", "issue"}
    PROVE  /\ req' \in [Req -> Request]
           /\ \A p \in Req \ {r} : req'[p] = req[p]
           /\ [req[r] EXCEPT !.pc = pc] \in Request
           /\ req'[r].pc = pc
           /\ req'[r].op = req[r].op /\ req'[r].code = req[r].code
           /\ req'[r].set = req[r].set /\ req'[r].n = req[r].n
<1>1. req[r] \in Request
    BY DEF IInv, TypeOK
<1>2. [req[r] EXCEPT !.pc = pc] \in Request
    BY <1>1 DEF Request
<1>3. /\ req' \in [Req -> Request]
      /\ req'[r] = [req[r] EXCEPT !.pc = pc]
      /\ \A p \in Req \ {r} : req'[p] = req[p]
    BY <1>2, Frame DEF Goto
<1> QED
    BY <1>1, <1>2, <1>3 DEF Request

\* Recovery codes are deleted, by a confirmation or with the credential: what is
\* not there need not be right.
LEMMA DeleteCodesStep ==
    ASSUME IInv, NEW r \in Req, DeleteOldCodes(r) \/ DeleteRecoveryCodes(r)
    PROVE  IInv'
<1>1. /\ recovery' = {}
      /\ UNCHANGED <<required, cred, challenge, sessions, issued, confirmed, uses>>
    BY DEF DeleteOldCodes, DeleteRecoveryCodes, history
<1>2. CodesOK' /\ FactorOK'
    BY <1>1 DEF IInv, CodesOK, FactorOK, CodesActOnce
<1>3. ASSUME req' \in [Req -> Request], \A p \in Req \ {r} : req'[p] = req[p]
      PROVE  TypeOK' /\ \A p \in Req \ {r} : Inserting(p) => CodesAhead(p)'
    BY <1>1, <1>3 DEF IInv, TypeOK, LocalOK, CodesAhead
<1>4. CASE DeleteOldCodes(r)
  <2>1. /\ req[r].pc = "codes.delete" /\ Inserting(r)
        /\ Goto(r, "codes.insert")
      BY <1>4 DEF DeleteOldCodes, At, Inserting
  <2>2. /\ req' \in [Req -> Request]
        /\ \A p \in Req \ {r} : req'[p] = req[p]
        /\ req'[r].pc = "codes.insert"
        /\ req'[r].op = req[r].op
        /\ req'[r].set = req[r].set /\ req'[r].n = req[r].n
      BY <2>1, MoveOn
  <2>3. LocalOK(r)'
      BY <1>1, <2>1, <2>2 DEF IInv, LocalOK, Inserting, CodesAhead
  <2>4. \A p \in Req \ {r} : Inserting(p) => req'[r].set # req[p].set
      BY <2>1, <2>2 DEF IInv, SetsDiffer
  <2> QED
      BY <1>1, <1>2, <1>3, <2>2, <2>3, <2>4, StepKeepsIInv
<1>5. CASE DeleteRecoveryCodes(r)
  <2>1. Done(r) /\ LocalOK(r)' /\ ~Inserting(r)'
      BY <1>5, EndIsOK DEF DeleteRecoveryCodes
  <2>2. req' \in [Req -> Request] /\ \A p \in Req \ {r} : req'[p] = req[p]
      BY <2>1, Frame, IdleIsRequest DEF Done
  <2> QED
      BY <1>1, <1>2, <1>3, <2>1, <2>2, StepKeepsIInv
<1> QED
    BY <1>4, <1>5

\* One recovery code is inserted: it has not been accepted, and nobody else is
\* going to insert it.
LEMMA InsertCodeStep == ASSUME IInv, NEW r \in Req, InsertCode(r) PROVE IInv'
<1> DEFINE new == [req[r] EXCEPT !.n = @ + 1]
           x == <<req[r].set, req[r].n>>
<1>1. /\ req[r].pc = "codes.insert" /\ req[r].n <= SetSize
      /\ recovery' = recovery \cup {x}
      /\ Start(r, new)
      /\ UNCHANGED <<required, cred, challenge, sessions, issued, confirmed, uses>>
    BY DEF InsertCode, At, history
<1>2. req[r] \in Request /\ req[r].n \in 1..SetSize
    BY <1>1, SetSizeAssumption DEF IInv, TypeOK, Request
<1>3. /\ new \in Request
      /\ new.pc = "codes.insert" /\ new.op = req[r].op
      /\ new.set = req[r].set /\ new.n = req[r].n + 1
    BY <1>1, <1>2, SetSizeAssumption DEF Request
<1> HIDE DEF new
<1>4. /\ req' \in [Req -> Request]
      /\ req'[r] = new
      /\ \A p \in Req \ {r} : req'[p] = req[p]
    BY <1>1, <1>3, Frame
<1>5. /\ req[r].op \in Confirms /\ confirmed # {}
      /\ req[r].set \in Batch /\ req[r].set \in issued
      /\ \A k \in 1..SetSize :
            k >= req[r].n => /\ uses[<<req[r].set, k>>] = 0
                             /\ <<req[r].set, k>> \notin recovery
    BY <1>1 DEF IInv, LocalOK, Inserting, CodesAhead
<1>6. uses[x] = 0 /\ x \in RecoveryCode
    BY <1>2, <1>5, SetSizeAssumption DEF RecoveryCode
<1>7. TypeOK'
    BY <1>1, <1>4, <1>6 DEF IInv, TypeOK
<1>8. CodesOK' /\ FactorOK'
    BY <1>1, <1>5, <1>6
       DEF IInv, CodesOK, FactorOK, CodesActOnce
<1>9. LocalOK(r)'
  <2>1. CodesAhead(r)'
    <3> SUFFICES ASSUME NEW k \in 1..SetSize, k >= req[r].n + 1
                 PROVE  /\ uses[<<req[r].set, k>>] = 0
                        /\ <<req[r].set, k>> \notin recovery \cup {x}
        BY <1>1, <1>3, <1>4 DEF CodesAhead
    <3>1. k >= req[r].n /\ k # req[r].n
        BY <1>2, SetSizeAssumption
    <3> QED
        BY <1>5, <3>1
  <2> QED
      BY <1>1, <1>3, <1>4, <1>5, <2>1 DEF LocalOK, Inserting
<1>10. \A p \in Req \ {r} : Inserting(p) => CodesAhead(p)' /\ req'[r].set # req[p].set
  <2> SUFFICES ASSUME NEW p \in Req \ {r}, Inserting(p)
               PROVE  CodesAhead(p)' /\ req'[r].set # req[p].set
      OBVIOUS
  <2>1. req[r].set # req[p].set
      BY <1>1 DEF IInv, SetsDiffer, Inserting
  <2>2. CodesAhead(p)
      BY DEF IInv, LocalOK
  <2> QED
      BY <1>1, <1>3, <1>4, <2>1, <2>2 DEF CodesAhead
<1> QED
    BY <1>1, <1>4, <1>7, <1>8, <1>9, <1>10, StepKeepsIInv

\* The confirmation is over.
LEMMA ConfirmEndStep == ASSUME IInv, NEW r \in Req, ConfirmEnd(r) PROVE IInv'
<1>1. /\ Inserting(r) /\ req[r].pc = "codes.insert"
      /\ UNCHANGED <<required, cred, recovery, challenge, sessions, issued, history>>
      /\ Done(r) \/ Goto(r, "issue")
    BY DEF ConfirmEnd, At, Inserting
<1>2. CASE Done(r)
  <2>1. Start(r, Idle) /\ LocalOK(r)' /\ ~Inserting(r)'
      BY <1>2, EndIsOK DEF Done
  <2> QED
      BY <1>1, <2>1, IdleIsRequest, QuietStep DEF IInv, TypeOK
<1>3. CASE Goto(r, "issue")
  <2>1. req[r].op \in Confirms /\ confirmed # {}
      BY <1>1 DEF IInv, LocalOK
  <2>2. /\ [req[r] EXCEPT !.pc = "issue"] \in Request
        /\ req'[r].pc = "issue" /\ req'[r].op = req[r].op
      BY <1>3, MoveOn
  <2>3. LocalOK(r)' /\ ~Inserting(r)'
      BY <1>1, <2>1, <2>2 DEF LocalOK, Inserting, Confirms, history
  <2> QED
      BY <1>1, <1>3, <2>2, <2>3, QuietStep DEF Goto, IInv, TypeOK
<1> QED
    BY <1>1, <1>2, <1>3

-----------------------------------------------------------------------------
\* verify_code lets a request pass whose code was accepted.
LEMMA PassMoves ==
    ASSUME IInv, NEW r \in Req, NEW local \in Request, Pass(r, local),
           local.op \in Checks
    PROVE  /\ req' \in [Req -> Request]
           /\ \A p \in Req \ {r} : req'[p] = req[p]
           /\ req'[r].op = local.op /\ req'[r].code = local.code
           /\ \/ req'[r].pc = "issue" /\ local.op = "challenge_verify"
              \/ req'[r].pc = "credential.delete"
           /\ \E new \in Request : Start(r, new)
<1> DEFINE pc == IF local.op = "disable" THEN "credential.delete" ELSE "issue"
           new == [local EXCEPT !.pc = pc]
<1>1. new \in Request
    BY DEF Request
<1>2. new.pc = pc /\ new.op = local.op /\ new.code = local.code
    BY DEF Request
<1>3. Start(r, new)
    BY DEF Pass
<1> HIDE DEF new
<1>4. /\ req' \in [Req -> Request]
      /\ req'[r] = new
      /\ \A p \in Req \ {r} : req'[p] = req[p]
    BY <1>1, <1>3, Frame
<1> QED
    BY <1>1, <1>2, <1>3, <1>4 DEF Checks

\* verify_code reads the row; a code of the authenticator is judged at once.
LEMMA VerifyFindStep ==
    ASSUME IInv, NEW r \in Req, NEW op \in Checks, NEW c \in Typed,
           VerifyFind(r, op, c)
    PROVE  IInv'
<1> DEFINE local == [Idle EXCEPT !.op = op, !.code = c]
           email == [local EXCEPT !.pc = "verify.email"]
           code == [local EXCEPT !.pc = "verify.recovery"]
<1>1. /\ UNCHANGED <<required, cred, recovery, challenge, sessions, issued, history>>
      /\ cred.st = "enabled"
      /\ \/ Start(r, email) \/ Start(r, code)
         \/ cred.method = "totp" /\ c = cred.secret /\ Pass(r, local)
    BY DEF VerifyFind, IsEnabled
<1>2. c \in Code \cup {None}
    BY DEF Typed, Code, OneTimeCode, RecoveryCode
<1>3. local \in Request /\ email \in Request /\ code \in Request
    BY <1>2, IdleIsRequest DEF Request, Checks
<1>4. /\ local.op = op /\ local.code = c
      /\ email.op = op /\ email.pc = "verify.email"
      /\ code.op = op /\ code.pc = "verify.recovery"
    BY IdleIsRequest DEF Idle
<1>5. confirmed # {} /\ (cred.method = "totp" => cred.secret \in confirmed)
    BY <1>1 DEF IInv, FactorOK
<1> HIDE DEF local, email, code
<1>6. ASSUME NEW new \in {email, code}, Start(r, new)
      PROVE  IInv'
  <2>1. new \in Request /\ req'[r] = new
      BY <1>3, <1>6, Frame
  <2>2. LocalOK(r)' /\ ~Inserting(r)'
      BY <1>1, <1>4, <1>5, <2>1 DEF LocalOK, Inserting, history
  <2> QED
      BY <1>1, <1>6, <2>1, <2>2, QuietStep DEF IInv, TypeOK
<1>7. CASE cred.method = "totp" /\ c = cred.secret /\ Pass(r, local)
  <2>1. /\ req'[r].op = op /\ req'[r].code = c
        /\ \/ req'[r].pc = "issue" /\ op = "challenge_verify"
           \/ req'[r].pc = "credential.delete"
        /\ \E new \in Request : Start(r, new)
      BY <1>3, <1>4, <1>7, PassMoves
  <2>2. LocalOK(r)' /\ ~Inserting(r)'
      BY <1>1, <1>5, <1>7, <2>1 DEF LocalOK, Inserting, history
  <2> QED
      BY <1>1, <2>1, <2>2, QuietStep DEF IInv, TypeOK
<1> QED
    BY <1>1, <1>6, <1>7

\* Counting the acceptance of a code that was not accepted before.
LEMMA AcceptedOnce ==
    ASSUME IInv, NEW c \in OneTimeCode, uses[c] = 0, uses' = Accepted(c)
    PROVE  /\ uses' \in [OneTimeCode -> Nat]
           /\ uses'[c] = 1
           /\ \A x \in OneTimeCode \ {c} : uses'[x] = uses[x]
           /\ CodesActOnce'
    BY DEF IInv, TypeOK, CodesOK, CodesActOnce, Accepted

\* consume_email_mfa_code
LEMMA ConsumeEmailStep == ASSUME IInv, NEW r \in Req, ConsumeEmailCode(r) PROVE IInv'
<1>1. /\ req[r].pc = "verify.email"
      /\ UNCHANGED <<required, recovery, challenge, sessions, issued, confirmed>>
    BY DEF ConsumeEmailCode, At
<1>2. req[r] \in Request /\ req[r].op \in Checks /\ confirmed # {}
    BY <1>1 DEF IInv, TypeOK, LocalOK
<1>3. CASE /\ EmailCodeMatches(cred, req[r].code)
           /\ cred' = consume_email_mfa_code(cred)
           /\ uses' = Accepted(req[r].code)
           /\ Pass(r, req[r])
  <2> DEFINE c == req[r].code
  <2>1. IsEmailRow(cred) /\ c \in EmailCode /\ c \in issued /\ uses[c] = 0
      BY <1>3, MatchIsNew
  <2>2. /\ cred' \in Credential /\ cred'.code = None
        /\ cred'.st = cred.st /\ cred'.method = "email"
      BY <1>3, <2>1, UpdatesKeepRows DEF IInv, TypeOK
  <2>3. /\ uses' \in [OneTimeCode -> Nat]
        /\ \A x \in OneTimeCode \ {c} : uses'[x] = uses[x]
        /\ CodesActOnce'
      BY <1>3, <2>1, AcceptedOnce DEF OneTimeCode
  <2>4. \A x \in RecoveryCode : uses'[x] = uses[x]
      BY <2>1, <2>3, KindsAssumption DEF OneTimeCode
  <2>5. \A a \in Batch, k \in 1..SetSize : <<a, k>> \in RecoveryCode
      BY DEF RecoveryCode
  <2>6. /\ req' \in [Req -> Request]
        /\ \A p \in Req \ {r} : req'[p] = req[p]
        /\ req'[r].op = req[r].op /\ req'[r].code = c
        /\ \/ req'[r].pc = "issue" /\ req[r].op = "challenge_verify"
           \/ req'[r].pc = "credential.delete"
      BY <1>2, <1>3, PassMoves
  <2>7. c \notin Secret
      BY <2>1, KindsAssumption DEF OneTimeCode
  <2> HIDE DEF c
  <2>8. TypeOK'
      BY <1>1, <2>2, <2>3, <2>6 DEF IInv, TypeOK
  <2>9. CodesOK'
    <3>1. \A x \in EmailCode : x \notin issued' => uses'[x] = 0
        BY <1>1, <2>1, <2>3 DEF IInv, CodesOK, OneTimeCode
    <3>2. \A b \in Batch, k \in 1..SetSize :
             b \notin issued' => uses'[<<b, k>>] = 0 /\ <<b, k>> \notin recovery'
        BY <1>1, <2>4, <2>5 DEF IInv, CodesOK
    <3>3. cred'.code \notin EmailCode
        BY <2>2, KindsAssumption DEF Code, OneTimeCode
    <3>4. \A x \in recovery' : uses'[x] = 0
        BY <1>1, <2>4 DEF IInv, TypeOK, CodesOK
    <3> QED
        BY <2>3, <3>1, <3>2, <3>3, <3>4 DEF CodesOK
  <2>10. FactorOK'
      BY <1>1, <2>2 DEF IInv, FactorOK
  <2>11. LocalOK(r)' /\ ~Inserting(r)'
      BY <1>1, <1>2, <2>6, <2>7 DEF LocalOK, Inserting
  <2>12. \A p \in Req \ {r} : Inserting(p) => CodesAhead(p)'
      BY <1>1, <2>4, <2>5, <2>6 DEF IInv, LocalOK, CodesAhead
  <2> QED
      BY <1>1, <2>6, <2>8, <2>9, <2>10, <2>11, <2>12, StepKeepsIInv
<1>4. CASE Goto(r, "verify.recovery") /\ UNCHANGED <<cred, uses>>
  <2>1. /\ [req[r] EXCEPT !.pc = "verify.recovery"] \in Request
        /\ req'[r].pc = "verify.recovery" /\ req'[r].op = req[r].op
      BY <1>4, MoveOn
  <2>2. LocalOK(r)' /\ ~Inserting(r)'
      BY <1>1, <1>2, <2>1 DEF LocalOK, Inserting
  <2> QED
      BY <1>1, <1>4, <2>1, <2>2, QuietStep DEF Goto, IInv, TypeOK, history
<1> QED
    BY <1>3, <1>4 DEF ConsumeEmailCode

\* consume_recovery_code
LEMMA ConsumeRecoveryStep ==
    ASSUME IInv, NEW r \in Req, consume_recovery_code(r)
    PROVE  IInv'
<1>1. /\ req[r].pc = "verify.recovery"
      /\ UNCHANGED <<required, cred, challenge, sessions, issued, confirmed>>
    BY DEF consume_recovery_code, At
<1>2. req[r] \in Request /\ req[r].op \in Checks /\ confirmed # {}
    BY <1>1 DEF IInv, TypeOK, LocalOK
<1>3. CASE /\ req[r].code \in recovery
           /\ recovery' = recovery \ {req[r].code}
           /\ uses' = Accepted(req[r].code)
           /\ Pass(r, req[r])
  <2> DEFINE c == req[r].code
  <2>1. c \in RecoveryCode /\ c \in OneTimeCode /\ uses[c] = 0
      BY <1>3 DEF IInv, TypeOK, CodesOK, OneTimeCode
  <2>2. /\ uses' \in [OneTimeCode -> Nat]
        /\ \A x \in OneTimeCode \ {c} : uses'[x] = uses[x]
        /\ CodesActOnce'
      BY <1>3, <2>1, AcceptedOnce
  <2>3. \A x \in EmailCode : uses'[x] = uses[x]
      BY <2>1, <2>2, KindsAssumption DEF OneTimeCode
  <2>4. \A a \in Batch, k \in 1..SetSize : <<a, k>> \in OneTimeCode
      BY DEF RecoveryCode, OneTimeCode
  <2>5. /\ req' \in [Req -> Request]
        /\ \A p \in Req \ {r} : req'[p] = req[p]
        /\ req'[r].op = req[r].op /\ req'[r].code = c
        /\ \/ req'[r].pc = "issue" /\ req[r].op = "challenge_verify"
           \/ req'[r].pc = "credential.delete"
      BY <1>2, <1>3, PassMoves
  <2>6. c \notin Secret
      BY <2>1, KindsAssumption
  <2>7. /\ c \in recovery
        /\ recovery' = recovery \ {c}
      BY <1>3
  <2> HIDE DEF c
  <2>8. TypeOK'
      BY <1>1, <2>2, <2>5, <2>7 DEF IInv, TypeOK
  <2>9. CodesOK'
    <3>1. \A b \in Batch, k \in 1..SetSize :
             b \notin issued' => uses'[<<b, k>>] = 0 /\ <<b, k>> \notin recovery'
        BY <1>1, <2>2, <2>4, <2>7 DEF IInv, CodesOK
    <3>2. \A x \in recovery' : uses'[x] = 0
        BY <2>2, <2>7 DEF IInv, TypeOK, CodesOK, OneTimeCode
    <3> QED
        BY <1>1, <2>2, <2>3, <3>1, <3>2 DEF IInv, CodesOK
  <2>10. FactorOK'
      BY <1>1 DEF IInv, FactorOK
  <2>11. LocalOK(r)' /\ ~Inserting(r)'
      BY <1>1, <1>2, <2>5, <2>6 DEF LocalOK, Inserting
  <2>12. \A p \in Req \ {r} : Inserting(p) => CodesAhead(p)'
    <3> SUFFICES ASSUME NEW p \in Req \ {r}, Inserting(p), NEW k \in 1..SetSize,
                        k >= req[p].n
                 PROVE  /\ uses'[<<req[p].set, k>>] = 0
                        /\ <<req[p].set, k>> \notin recovery'
        BY <2>5 DEF CodesAhead
    <3>1. /\ uses[<<req[p].set, k>>] = 0
          /\ <<req[p].set, k>> \notin recovery
          /\ <<req[p].set, k>> \in OneTimeCode
        BY <2>4 DEF IInv, LocalOK, CodesAhead
    <3> QED
        BY <2>2, <2>7, <3>1
  <2> QED
      BY <1>1, <2>5, <2>8, <2>9, <2>10, <2>11, <2>12, StepKeepsIInv
<1>4. CASE Done(r) /\ UNCHANGED <<recovery, uses>>
  <2>1. Start(r, Idle) /\ LocalOK(r)' /\ ~Inserting(r)'
      BY <1>4, EndIsOK DEF Done
  <2> QED
      BY <1>1, <1>4, <2>1, IdleIsRequest, QuietStep DEF IInv, TypeOK, history
<1> QED
    BY <1>3, <1>4 DEF consume_recovery_code

-----------------------------------------------------------------------------
\* A session is issued only to an account that needs no factor or has one.
LEMMA IssueStep == ASSUME IInv, NEW r \in Req, IssueSession(r) PROVE IInv'
<1>1. /\ req[r].pc = "issue"
      /\ sessions' = TRUE
      /\ Done(r)
      /\ UNCHANGED <<required, cred, recovery, challenge, issued, confirmed, uses>>
    BY DEF IssueSession, At, history
<1>2. required => confirmed # {}
    BY <1>1 DEF IInv, LocalOK
<1>3. LocalOK(r)' /\ ~Inserting(r)'
    BY <1>1, EndIsOK
<1>4. req' \in [Req -> Request] /\ \A p \in Req \ {r} : req'[p] = req[p]
    BY <1>1, Frame, IdleIsRequest DEF Done
<1>5. TypeOK'
    BY <1>1, <1>4 DEF IInv, TypeOK
<1>6. CodesOK' /\ FactorOK'
    BY <1>1, <1>2 DEF IInv, CodesOK, FactorOK, CodesActOnce
<1>7. \A p \in Req \ {r} : Inserting(p) => CodesAhead(p)'
    BY <1>1, <1>4 DEF IInv, LocalOK, CodesAhead
<1> QED
    BY <1>1, <1>3, <1>4, <1>5, <1>6, <1>7, StepKeepsIInv

\* The credential is deleted.
LEMMA DeleteCredentialStep ==
    ASSUME IInv, NEW r \in Req, DeleteCredential(r)
    PROVE  IInv'
<1>1. /\ cred' = NoCredential
      /\ Goto(r, "credential.codes")
      /\ UNCHANGED <<required, recovery, challenge, sessions, issued, confirmed, uses>>
    BY DEF DeleteCredential, history
<1>2. /\ req' \in [Req -> Request]
      /\ \A p \in Req \ {r} : req'[p] = req[p]
      /\ req'[r].pc = "credential.codes"
    BY <1>1, MoveOn
<1>3. LocalOK(r)' /\ ~Inserting(r)'
    BY <1>2 DEF LocalOK, Inserting
<1>4. TypeOK'
    BY <1>1, <1>2 DEF IInv, TypeOK
<1>5. cred'.code \notin EmailCode /\ cred'.st = "none"
    BY <1>1, RowsAreRows, KindsAssumption DEF Code, OneTimeCode
<1>6. CodesOK' /\ FactorOK'
    BY <1>1, <1>5 DEF IInv, CodesOK, FactorOK, CodesActOnce
<1>7. \A p \in Req \ {r} : Inserting(p) => CodesAhead(p)'
    BY <1>1, <1>2 DEF IInv, LocalOK, CodesAhead
<1> QED
    BY <1>1, <1>2, <1>3, <1>4, <1>6, <1>7, StepKeepsIInv

-----------------------------------------------------------------------------
\* A new value x was generated and the row is now row, which carries x if it is
\* an e-mailed code; no handler's local state needs to change.
LEMMA NewRowStep ==
    ASSUME IInv, NEW row \in Credential, NEW x \in (Secret \cup EmailCode) \ issued,
           cred' = row, issued' = issued \cup {x},
           row.code \in {None, x},
           row.st = "enabled" => cred.st = "enabled" /\ row.method # "totp",
           UNCHANGED <<required, recovery, sessions, confirmed, uses>>
    PROVE  /\ CodesOK' /\ FactorOK'
           /\ issued' \subseteq Secret \cup EmailCode \cup Batch
           /\ \A p \in Req : req'[p] = req[p] => LocalOK(p)'
<1>1. CodesOK'
  <2>1. row.code \in EmailCode => row.code \in issued' /\ uses[row.code] = 0
      BY KindsAssumption DEF IInv, CodesOK, Code, OneTimeCode
  <2> QED
      BY <2>1 DEF IInv, CodesOK, CodesActOnce
<1>2. FactorOK'
    BY DEF IInv, FactorOK
<1>3. ASSUME NEW p \in Req, req'[p] = req[p]
      PROVE  LocalOK(p)'
    BY <1>3 DEF IInv, LocalOK, Inserting, CodesAhead
<1> QED
    BY <1>1, <1>2, <1>3 DEF IInv, TypeOK

\* Enrolments begun and codes resent by a statement of their own.
LEMMA BeginSteps ==
    ASSUME IInv, BeginTotpEnrollment \/ BeginEmailEnrollment \/ EnrollResend
    PROVE  IInv'
<1>1. UNCHANGED <<required, recovery, challenge, sessions, confirmed, uses, req>>
    BY DEF BeginTotpEnrollment, BeginEmailEnrollment, EnrollResend, history
<1>2. PICK row \in Credential, x \in (Secret \cup EmailCode) \ issued :
         /\ cred' = row /\ issued' = issued \cup {x}
         /\ row.code \in {None, x}
         /\ row.st = "enabled" => cred.st = "enabled" /\ row.method # "totp"
  <2>1. CASE BeginTotpEnrollment
      BY <2>1, RowsAreRows DEF BeginTotpEnrollment
  <2>2. CASE BeginEmailEnrollment
      BY <2>2, RowsAreRows DEF BeginEmailEnrollment
  <2>3. CASE EnrollResend
    <3>1. PICK c \in EmailCode \ issued :
             /\ issued' = issued \cup {c}
             /\ cred' = update_email_mfa_code(cred, c)
        BY <2>3 DEF EnrollResend
    <3> DEFINE row == update_email_mfa_code(cred, c)
    <3>2. /\ row \in Credential /\ row.code = c
          /\ row.st = cred.st /\ row.method = "email"
      <4>1. cred \in Credential \cup {NoCredential} /\ IsEmailRow(cred)
          BY <2>3 DEF EnrollResend, IInv, TypeOK
      <4> QED
          BY <4>1, ResendKeepsRow
    <3> HIDE DEF row
    <3> QED
        BY <3>1, <3>2 DEF row
  <2> QED
      BY <2>1, <2>2, <2>3
<1>3. /\ CodesOK' /\ FactorOK'
      /\ issued' \subseteq Secret \cup EmailCode \cup Batch
      /\ \A p \in Req : LocalOK(p)'
    BY <1>1, <1>2, NewRowStep
<1>4. TypeOK'
    BY <1>1, <1>2, <1>3 DEF IInv, TypeOK
<1>5. SetsDiffer'
    BY <1>1 DEF IInv, SetsDiffer, Inserting
<1> QED
    BY <1>3, <1>4, <1>5 DEF IInv

\* resend_email_code
LEMMA ResendStep == ASSUME IInv, NEW r \in Req, resend_email_code(r) PROVE IInv'
<1>1. /\ Done(r)
      /\ UNCHANGED <<required, recovery, sessions, confirmed, uses>>
      /\ challenge' \subseteq {"mfa_login", "mfa_enrollment"}
    BY DEF resend_email_code, history, IInv, TypeOK
<1>2. LocalOK(r)' /\ ~Inserting(r)'
    BY <1>1, EndIsOK
<1>3. req' \in [Req -> Request] /\ \A p \in Req \ {r} : req'[p] = req[p]
    BY <1>1, Frame, IdleIsRequest DEF Done
<1>4. /\ cred' \in Credential \cup {NoCredential}
      /\ issued \subseteq issued'
      /\ issued' \subseteq Secret \cup EmailCode \cup Batch
      /\ CodesOK' /\ FactorOK'
  <2>1. CASE UNCHANGED <<cred, issued>>
      BY <1>1, <2>1
         DEF IInv, TypeOK, CodesOK, FactorOK, CodesActOnce
  <2>2. CASE \E c \in EmailCode \ issued :
                /\ issued' = issued \cup {c}
                /\ cred' = IF IsEmailRow(cred) THEN update_email_mfa_code(cred, c)
                           ELSE cred
    <3>1. PICK c \in EmailCode \ issued :
             /\ issued' = issued \cup {c}
             /\ cred' = IF IsEmailRow(cred) THEN update_email_mfa_code(cred, c)
                        ELSE cred
        BY <2>2
    <3>2. CASE IsEmailRow(cred)
      <4> DEFINE row == update_email_mfa_code(cred, c)
      <4>1. cred \in Credential \cup {NoCredential}
          BY DEF IInv, TypeOK
      <4>2. /\ row \in Credential /\ row.code = c
            /\ row.st = cred.st /\ row.method = "email"
          BY <3>2, <4>1, ResendKeepsRow
      <4>3. cred' = row
          BY <3>1, <3>2
      <4> HIDE DEF row
      <4> QED
          BY <1>1, <3>1, <4>2, <4>3, NewRowStep
    <3>3. CASE ~IsEmailRow(cred)
        BY <1>1, <3>1, <3>3
           DEF IInv, TypeOK, CodesOK, FactorOK, CodesActOnce
    <3> QED
        BY <3>2, <3>3
  <2> QED
      BY <2>1, <2>2 DEF resend_email_code
<1>5. TypeOK'
    BY <1>1, <1>3, <1>4 DEF IInv, TypeOK
<1>6. \A p \in Req \ {r} : Inserting(p) => CodesAhead(p)'
    BY <1>1, <1>3 DEF IInv, LocalOK, CodesAhead
<1> QED
    BY <1>1, <1>2, <1>3, <1>4, <1>5, <1>6, StepKeepsIInv

\* An e-mailed code expires.
LEMMA ExpireStep == ASSUME IInv, EmailCodeExpires PROVE IInv'
<1>1. UNCHANGED <<required, recovery, challenge, sessions, issued, confirmed, uses, req>>
    BY DEF EmailCodeExpires, history
<1>2. /\ cred' \in Credential /\ cred'.code = cred.code
      /\ cred'.st = cred.st /\ cred'.method = "email"
    BY UpdatesKeepRows DEF EmailCodeExpires, IInv, TypeOK
<1>3. TypeOK'
    BY <1>1, <1>2 DEF IInv, TypeOK
<1>4. CodesOK' /\ FactorOK'
    BY <1>1, <1>2 DEF IInv, CodesOK, FactorOK, CodesActOnce
<1>5. (\A p \in Req : LocalOK(p)') /\ SetsDiffer'
    BY <1>1 DEF IInv, LocalOK, SetsDiffer, Inserting, CodesAhead
<1> QED
    BY <1>3, <1>4, <1>5 DEF IInv

-----------------------------------------------------------------------------
\* Every step of a request keeps the invariant.
LEMMA RequestStep ==
    ASSUME IInv, NEW r \in Req, Enrolling(r) \/ SigningIn(r) \/ Removing(r) \/ Fail(r)
    PROVE  IInv'
<1>1. CASE Enrolling(r)
    BY <1>1, ConfirmFindStep, EnableTotpStep, EnableEmailStep, DeleteCodesStep,
       InsertCodeStep, ConfirmEndStep DEF Enrolling, Confirms
<1>2. CASE SigningIn(r)
    BY <1>2, LoginStep, SmallSteps, ResendStep, VerifyFindStep, ConsumeEmailStep,
       ConsumeRecoveryStep, IssueStep DEF SigningIn, Checks
<1>3. CASE Removing(r)
    BY <1>3, SmallSteps, DeleteCredentialStep, DeleteCodesStep DEF Removing
<1>4. CASE Fail(r)
    BY <1>4, SmallSteps
<1> QED
    BY <1>1, <1>2, <1>3, <1>4

\* So does every step, and one that changes nothing.
LEMMA NextIInv == IInv /\ [Next]_vars => IInv'
<1> SUFFICES ASSUME IInv, [Next]_vars PROVE IInv'
    OBVIOUS
<1>1. CASE Next
    BY <1>1, RequestStep, BeginSteps, ExpireStep DEF Next
<1>2. CASE UNCHANGED vars
    BY <1>2 DEF vars, history, IInv, TypeOK, CodesOK, FactorOK, CodesActOnce, LocalOK, SetsDiffer, Inserting, CodesAhead
<1> QED
    BY <1>1, <1>2

\* The invariant from which the theorems follow.
THEOREM MfaInvariance == Spec => []IInv
    BY InitIInv, NextIInv, PTL DEF Spec

\* Every variable keeps its type, whatever races and fails, in db/mfa.rs and
\* mfa.rs.
THEOREM MfaTypeCorrect == Spec => []TypeOK
<1>1. IInv => TypeOK
    BY DEF IInv
<1> QED
    BY <1>1, MfaInvariance, PTL

\* No e-mailed and no recovery code is accepted twice: the WHERE clauses of
\* enable_email_mfa_credential, consume_email_mfa_code and consume_recovery_code
\* suffice, though verify_code judged an older row.
THEOREM CodesAreSpent == Spec => []CodesActOnce
<1>1. IInv => CodesActOnce
    BY DEF IInv, CodesOK
<1> QED
    BY <1>1, MfaInvariance, PTL

\* A secret whose enrolment nobody confirmed lets no verify_code pass.
THEOREM PendingIsPowerless == Spec => []PendingSecretActsNowhere
<1>1. IInv => PendingSecretActsNowhere
    BY DEF IInv, LocalOK, PendingSecretActsNowhere
<1> QED
    BY <1>1, MfaInvariance, PTL

-----------------------------------------------------------------------------
\* Where a code that was accepted leads to a session.
Taken(r) == req[r].pc \in {"codes.delete", "codes.insert", "issue"} /\ req[r].code # None

\* The code was good, and is spent if it acts once.
TakenOK(r) ==
    /\ req[r].code \in Secret => req[r].code \in confirmed
    /\ req[r].code \in OneTimeCode => uses[req[r].code] = 1

\* A session is issued without a code by login and by the retry only.
IssuesKnown ==
    \A r \in Req : req[r].pc = "issue" =>
       req[r].op \in {"login", "challenge_enroll_confirm"} \/ req[r].code # None

\* The codes of the requests on the way to a session, by which one each goes.
TakenCodes ==
    /\ \A r \in Req : Taken(r) => TakenOK(r)
    /\ IssuesKnown
    /\ \A p, r \in Req : p # r /\ Taken(p) /\ Taken(r) /\ req[p].code \in OneTimeCode
                         => req[p].code # req[r].code

\* The same, of a step: a request was on its way with that code, or it takes it
\* now from where nobody had taken it.
KeepsCode(r) == Taken(r)' => Taken(r) /\ req'[r].code = req[r].code
TakesCode(r) ==
    /\ req'[r].code = req[r].code
    /\ req[r].code \in OneTimeCode => uses[req[r].code] = 0
    /\ uses' = Accepted(req[r].code)
    /\ req[r].code \in Secret => req[r].code \in confirmed'

\* A step that accepts no code; an authenticator's code may be taken again.
LEMMA TakesNothing ==
    ASSUME IInv, TakenCodes, IssuesKnown', uses' = uses, confirmed \subseteq confirmed',
           \A r \in Req : \/ KeepsCode(r)
                          \/ req'[r].code \in Secret /\ req'[r].code \in confirmed'
    PROVE  TakenCodes'
<1>1. \A r \in Req : Taken(r)' => TakenOK(r)'
    BY KindsAssumption DEF TakenCodes, KeepsCode, TakenOK
<1>2. ASSUME NEW p \in Req, NEW r \in Req, p # r, Taken(p)', Taken(r)',
             req'[p].code \in OneTimeCode
      PROVE  req'[p].code # req'[r].code
    BY <1>2, KindsAssumption DEF TakenCodes, KeepsCode
<1> QED
    BY <1>1, <1>2 DEF TakenCodes, IssuesKnown

\* A step in which request r takes its code.
LEMMA TakesOne ==
    ASSUME IInv, TakenCodes, IssuesKnown', confirmed \subseteq confirmed',
           NEW r \in Req, TakesCode(r), \A p \in Req \ {r} : KeepsCode(p)
    PROVE  TakenCodes'
<1> DEFINE c == req[r].code
<1>1. /\ c \in OneTimeCode => uses'[c] = 1
      /\ \A x \in OneTimeCode : x # c => uses'[x] = uses[x]
    BY DEF TakesCode, Accepted, IInv, TypeOK
<1>2. \A p \in Req \ {r} : Taken(p)' /\ req'[p].code \in OneTimeCode =>
         req'[p].code # c
    BY DEF TakenCodes, TakenOK, KeepsCode, TakesCode
<1>3. TakenOK(r)'
    BY <1>1 DEF TakenOK, TakesCode
<1>4. ASSUME NEW p \in Req \ {r}, Taken(p)'
      PROVE  TakenOK(p)'
    BY <1>1, <1>2, <1>4 DEF TakenCodes, KeepsCode, TakenOK
<1>5. ASSUME NEW p \in Req, NEW q \in Req, p # q, Taken(p)', Taken(q)',
             req'[p].code \in OneTimeCode
      PROVE  req'[p].code # req'[q].code
  <2>1. CASE p = r \/ q = r
      BY <1>2, <1>5, <2>1 DEF TakesCode
  <2>2. CASE p # r /\ q # r
      BY <1>5, <2>2 DEF TakenCodes, KeepsCode
  <2> QED
      BY <2>1, <2>2
<1> QED
    BY <1>3, <1>4, <1>5 DEF TakenCodes, IssuesKnown

\* A request that starts or moves, and accepts nothing.
LEMMA NothingTaken ==
    ASSUME IInv, TakenCodes, NEW r \in Req, NEW new \in Request, Start(r, new),
           UNCHANGED <<confirmed, uses>>,
           \/ new.pc \notin {"codes.delete", "codes.insert", "issue"}
           \/ new.code = None
           \/ Taken(r) /\ new.code = req[r].code
           \/ new.code \in Secret /\ new.code \in confirmed,
           new.pc = "issue" =>
              new.op \in {"login", "challenge_enroll_confirm"} \/ new.code # None
    PROVE  TakenCodes'
<1>1. req'[r] = new /\ \A p \in Req \ {r} : req'[p] = req[p]
    BY Frame
<1>2. \A p \in Req \ {r} : KeepsCode(p)
    BY <1>1 DEF KeepsCode, Taken
<1>3. KeepsCode(r) \/ (req'[r].code \in Secret /\ req'[r].code \in confirmed')
    BY <1>1 DEF KeepsCode, Taken
<1>4. IssuesKnown'
    BY <1>1 DEF TakenCodes, IssuesKnown
<1>5. uses' = uses /\ confirmed \subseteq confirmed'
    OBVIOUS
<1> QED
    BY <1>2, <1>3, <1>4, <1>5, TakesNothing

\* The reads that end in a session at once: the sign-in without a factor, the
\* retry, and the code an authenticator shows.
LEMMA ReadsTakeNothing ==
    ASSUME IInv, TakenCodes, NEW r \in Req,
           \/ Login(r)
           \/ \E op \in Confirms, c \in Typed : ConfirmFind(r, op, c)
           \/ \E op \in Checks, c \in Typed : VerifyFind(r, op, c)
    PROVE  TakenCodes'
<1>1. \A c \in Typed : c \in Code \cup {None}
    BY DEF Typed, Code, OneTimeCode, RecoveryCode
<1>2. CASE Login(r)
  <2> DEFINE issue == [Idle EXCEPT !.pc = "issue", !.op = "login"]
             send == [Idle EXCEPT !.pc = "send", !.op = "login"]
  <2>1. UNCHANGED <<confirmed, uses>> /\ (Start(r, issue) \/ Start(r, send) \/ UNCHANGED req)
      BY <1>2 DEF Login, history
  <2>2. /\ issue \in Request /\ issue.pc = "issue" /\ issue.op = "login"
        /\ send \in Request /\ send.pc = "send"
      BY IdleIsRequest DEF Request, Idle
  <2> HIDE DEF issue, send
  <2>3. CASE Start(r, issue)
    <3>1. issue.code = None
        BY IdleIsRequest DEF issue, Idle
    <3> QED
        BY <2>1, <2>2, <2>3, <3>1, NothingTaken
  <2>4. CASE Start(r, send)
      BY <2>1, <2>2, <2>4, NothingTaken
  <2>5. CASE UNCHANGED req
      BY <2>1, <2>5 DEF TakenCodes, IssuesKnown, Taken, TakenOK
  <2> QED
      BY <2>1, <2>3, <2>4, <2>5
<1>3. CASE \E op \in Confirms, c \in Typed : ConfirmFind(r, op, c)
  <2>1. PICK op \in Confirms, c \in Typed : ConfirmFind(r, op, c)
      BY <1>3
  <2> DEFINE new == [Idle EXCEPT !.op = op, !.code = c]
             retry == [new EXCEPT !.pc = "issue", !.code = None]
             email == [new EXCEPT !.pc = "confirm.email"]
             totp == [new EXCEPT !.pc = "confirm.totp", !.secret = cred.secret]
  <2>2. /\ UNCHANGED <<confirmed, uses>>
        /\ \/ op = "challenge_enroll_confirm" /\ Start(r, retry)
           \/ Start(r, email)
           \/ Start(r, totp)
      BY <2>1 DEF ConfirmFind, history
  <2>3. cred.secret \in Secret \cup {None}
      BY UpdatesKeepRows DEF IInv, TypeOK
  <2>4. retry \in Request /\ email \in Request /\ totp \in Request
      BY <1>1, <2>3, IdleIsRequest DEF Request, Confirms
  <2>5. /\ retry.pc = "issue" /\ retry.op = op /\ retry.code = None
        /\ email.pc = "confirm.email" /\ totp.pc = "confirm.totp"
      BY IdleIsRequest DEF Idle
  <2> HIDE DEF new, retry, email, totp
  <2>6. CASE op = "challenge_enroll_confirm" /\ Start(r, retry)
      BY <2>2, <2>4, <2>5, <2>6, NothingTaken
  <2>7. CASE Start(r, email)
      BY <2>2, <2>4, <2>5, <2>7, NothingTaken
  <2>8. CASE Start(r, totp)
      BY <2>2, <2>4, <2>5, <2>8, NothingTaken
  <2> QED
      BY <2>2, <2>6, <2>7, <2>8
<1>4. CASE \E op \in Checks, c \in Typed : VerifyFind(r, op, c)
  <2>1. PICK op \in Checks, c \in Typed : VerifyFind(r, op, c)
      BY <1>4
  <2> DEFINE new == [Idle EXCEPT !.op = op, !.code = c]
             email == [new EXCEPT !.pc = "verify.email"]
             code == [new EXCEPT !.pc = "verify.recovery"]
             pass == [new EXCEPT !.pc = IF new.op = "disable" THEN "credential.delete"
                                        ELSE "issue"]
  <2>2. /\ UNCHANGED <<confirmed, uses>>
        /\ cred.st = "enabled"
        /\ \/ Start(r, email) \/ Start(r, code)
           \/ cred.method = "totp" /\ c = cred.secret /\ Start(r, pass)
      BY <2>1 DEF VerifyFind, Pass, IsEnabled, history
  <2>3. email \in Request /\ code \in Request /\ pass \in Request
      BY <1>1, IdleIsRequest DEF Request, Checks
  <2>4. /\ email.pc = "verify.email" /\ code.pc = "verify.recovery"
        /\ pass.code = c
      BY IdleIsRequest DEF Idle
  <2> HIDE DEF new, email, code, pass
  <2>5. CASE Start(r, email)
      BY <2>2, <2>3, <2>4, <2>5, NothingTaken
  <2>6. CASE Start(r, code)
      BY <2>2, <2>3, <2>4, <2>6, NothingTaken
  <2>7. CASE cred.method = "totp" /\ c = cred.secret /\ Start(r, pass)
    <3>1. c \in Secret /\ c \in confirmed
        BY <2>2, <2>7, UpdatesKeepRows DEF IInv, TypeOK, FactorOK
    <3>2. c # None
        BY <3>1, KindsAssumption DEF Code
    <3> QED
        BY <2>2, <2>3, <2>4, <2>7, <3>1, <3>2, NothingTaken
  <2> QED
      BY <2>2, <2>5, <2>6, <2>7
<1> QED
    BY <1>2, <1>3, <1>4

\* A confirmation that changed a row takes its code.
LEMMA ConfirmationTakes ==
    ASSUME IInv, TakenCodes, NEW r \in Req, NEW row, Confirmed(r, row),
           req[r].code \in OneTimeCode => uses[req[r].code] = 0
    PROVE  TakenCodes'
<1>1. PICK b \in Batch \ issued :
         Start(r, [req[r] EXCEPT !.pc = "codes.delete", !.set = b])
    BY DEF Confirmed
<1> DEFINE new == [req[r] EXCEPT !.pc = "codes.delete", !.set = b]
<1>2. req[r] \in Request
    BY DEF IInv, TypeOK
<1>3. new \in Request /\ new.pc = "codes.delete" /\ new.code = req[r].code
    BY <1>2 DEF Request
<1> HIDE DEF new
<1>4. req'[r] = new /\ \A p \in Req \ {r} : req'[p] = req[p]
    BY <1>1, <1>3, Frame DEF new
<1>5. TakesCode(r) /\ confirmed \subseteq confirmed'
    BY <1>3, <1>4 DEF TakesCode, Confirmed
<1>6. \A p \in Req \ {r} : KeepsCode(p)
    BY <1>4 DEF KeepsCode, Taken
<1>7. IssuesKnown'
    BY <1>3, <1>4 DEF TakenCodes, IssuesKnown
<1> QED
    BY <1>5, <1>6, <1>7, TakesOne

\* So does a check that consumed one.
LEMMA CheckTakes ==
    ASSUME IInv, TakenCodes, NEW r \in Req, Pass(r, req[r]), req[r].op \in Checks,
           req[r].code \in OneTimeCode, uses[req[r].code] = 0,
           uses' = Accepted(req[r].code), confirmed' = confirmed
    PROVE  TakenCodes'
<1>1. req[r] \in Request
    BY DEF IInv, TypeOK
<1>2. req'[r].code = req[r].code /\ \A p \in Req \ {r} : req'[p] = req[p]
    BY <1>1, PassMoves
<1>3. req[r].code \notin Secret /\ req[r].code # None
    BY KindsAssumption DEF Code
<1>4. TakesCode(r)
    BY <1>2, <1>3 DEF TakesCode
<1>5. \A p \in Req \ {r} : KeepsCode(p)
    BY <1>2 DEF KeepsCode, Taken
<1>6. IssuesKnown'
    BY <1>2, <1>3 DEF TakenCodes, IssuesKnown
<1> QED
    BY <1>4, <1>5, <1>6, TakesOne

\* Every step of a request keeps what the taken codes say.
LEMMA RequestTakes ==
    ASSUME IInv, TakenCodes, NEW r \in Req,
           Enrolling(r) \/ SigningIn(r) \/ Removing(r) \/ Fail(r)
    PROVE  TakenCodes'
<1>1. req[r] \in Request
    BY DEF IInv, TypeOK
<1>2. ASSUME Done(r), UNCHANGED <<confirmed, uses>>
      PROVE  TakenCodes'
    BY <1>2, IdleIsRequest, NothingTaken DEF Done
<1>3. ASSUME NEW pc \in {"verify.recovery", "credential.codes"}, Goto(r, pc),
             UNCHANGED <<confirmed, uses>>
      PROVE  TakenCodes'
  <2>1. [req[r] EXCEPT !.pc = pc] \in Request /\ [req[r] EXCEPT !.pc = pc].pc = pc
      BY <1>1 DEF Request
  <2> QED
      BY <1>3, <2>1, NothingTaken DEF Goto
<1>4. CASE Enrolling(r)
  <2>1. CASE \E op \in Confirms, c \in Typed : ConfirmFind(r, op, c)
      BY <2>1, ReadsTakeNothing
  <2>2. CASE EnableTotp(r)
    <3>1. req[r].code \in Secret
        BY <2>2 DEF EnableTotp, At, IInv, LocalOK
    <3>2. req[r].code \notin OneTimeCode
        BY <3>1, KindsAssumption
    <3> QED
        BY <1>2, <2>2, <3>2, ConfirmationTakes DEF EnableTotp, NotConfirmed, history
  <2>3. CASE EnableEmail(r)
    <3>1. EmailCodeMatches(cred, req[r].code) => uses[req[r].code] = 0
        BY MatchIsNew
    <3> QED
        BY <1>2, <2>3, <3>1, ConfirmationTakes DEF EnableEmail, NotConfirmed, history
  <2>4. CASE DeleteOldCodes(r) \/ InsertCode(r)
    <3>1. /\ req[r].pc \in {"codes.delete", "codes.insert"}
          /\ UNCHANGED <<confirmed, uses>>
          /\ \/ Start(r, [req[r] EXCEPT !.pc = "codes.insert"])
             \/ req[r].n <= SetSize /\ Start(r, [req[r] EXCEPT !.n = @ + 1])
        BY <2>4 DEF DeleteOldCodes, InsertCode, At, Goto, history
    <3>2. ASSUME NEW new \in Request, new.code = req[r].code,
                 new.pc \in {"codes.delete", "codes.insert"}, Start(r, new)
          PROVE  TakenCodes'
        BY <3>1, <3>2, NothingTaken DEF Taken
    <3>3. CASE Start(r, [req[r] EXCEPT !.pc = "codes.insert"])
      <4>1. /\ [req[r] EXCEPT !.pc = "codes.insert"] \in Request
            /\ [req[r] EXCEPT !.pc = "codes.insert"].code = req[r].code
            /\ [req[r] EXCEPT !.pc = "codes.insert"].pc = "codes.insert"
          BY <1>1 DEF Request
      <4> QED
          BY <3>2, <3>3, <4>1
    <3>4. CASE req[r].n <= SetSize /\ Start(r, [req[r] EXCEPT !.n = @ + 1])
      <4>1. /\ [req[r] EXCEPT !.n = @ + 1] \in Request
            /\ [req[r] EXCEPT !.n = @ + 1].code = req[r].code
            /\ [req[r] EXCEPT !.n = @ + 1].pc = req[r].pc
          BY <1>1, <3>4, SetSizeAssumption DEF Request
      <4> QED
          BY <3>1, <3>2, <3>4, <4>1
    <3> QED
        BY <3>1, <3>3, <3>4
  <2>5. CASE ConfirmEnd(r)
    <3>1. /\ req[r].pc = "codes.insert"
          /\ UNCHANGED <<confirmed, uses>>
          /\ \/ Done(r)
             \/ /\ req[r].op = "challenge_enroll_confirm"
                /\ Start(r, [req[r] EXCEPT !.pc = "issue"])
        BY <2>5 DEF ConfirmEnd, At, Goto, history
    <3>2. /\ [req[r] EXCEPT !.pc = "issue"] \in Request
          /\ [req[r] EXCEPT !.pc = "issue"].code = req[r].code
          /\ [req[r] EXCEPT !.pc = "issue"].op = req[r].op
        BY <1>1 DEF Request
    <3> QED
        BY <1>2, <3>1, <3>2, NothingTaken DEF Taken
  <2> QED
      BY <1>4, <2>1, <2>2, <2>3, <2>4, <2>5 DEF Enrolling, Confirms
<1>5. CASE SigningIn(r)
  <2>1. CASE \/ Login(r)
             \/ \E op \in Checks, c \in Typed : VerifyFind(r, op, c)
      BY <2>1, ReadsTakeNothing
  <2>2. CASE RequestCode(r)
    <3>1. /\ [Idle EXCEPT !.pc = "send", !.op = "request_code"] \in Request
          /\ [Idle EXCEPT !.pc = "send", !.op = "request_code"].pc = "send"
        BY IdleIsRequest DEF Request, Idle
    <3> QED
        BY <2>2, <3>1, NothingTaken DEF RequestCode, history
  <2>3. CASE resend_email_code(r) \/ IssueSession(r)
      BY <1>2, <2>3 DEF resend_email_code, IssueSession, history
  <2>4. CASE ConsumeEmailCode(r)
    <3>1. req[r].op \in Checks /\ confirmed' = confirmed
        BY <2>4 DEF ConsumeEmailCode, At, IInv, LocalOK
    <3>2. EmailCodeMatches(cred, req[r].code) =>
             req[r].code \in OneTimeCode /\ uses[req[r].code] = 0
        BY MatchIsNew DEF OneTimeCode
    <3> QED
        BY <1>3, <2>4, <3>1, <3>2, CheckTakes DEF ConsumeEmailCode
  <2>5. CASE consume_recovery_code(r)
    <3>1. req[r].op \in Checks /\ confirmed' = confirmed
        BY <2>5 DEF consume_recovery_code, At, IInv, LocalOK
    <3>2. req[r].code \in recovery =>
             req[r].code \in OneTimeCode /\ uses[req[r].code] = 0
        BY DEF IInv, TypeOK, CodesOK, OneTimeCode
    <3> QED
        BY <1>2, <2>5, <3>1, <3>2, CheckTakes DEF consume_recovery_code
  <2> QED
      BY <1>5, <2>1, <2>2, <2>3, <2>4, <2>5 DEF SigningIn, Checks
<1>6. CASE Removing(r) \/ Fail(r)
  <2>1. CASE AdminReset(r)
    <3>1. /\ [Idle EXCEPT !.pc = "credential.delete", !.op = "admin_reset"] \in Request
          /\ [Idle EXCEPT !.pc = "credential.delete", !.op = "admin_reset"].pc
                = "credential.delete"
        BY IdleIsRequest DEF Request, Idle
    <3> QED
        BY <2>1, <3>1, NothingTaken DEF AdminReset, history
  <2> QED
      BY <1>2, <1>3, <1>6, <2>1
         DEF Removing, DeleteCredential, DeleteRecoveryCodes, Fail, history
<1> QED
    BY <1>4, <1>5, <1>6

\* Each session rests on a code of its own, but for the sign-in of a role that
\* needs no factor and the retry of a confirmed enrolment: the code that
\* challenge_verify or challenge_enroll_confirm took was good then, and no two
\* sessions came of one e-mailed or recovery code.
THEOREM SessionsAreEarned == Spec => []SessionsTakeCodes
<1>1. Init => TakenCodes
  <2> SUFFICES ASSUME Init PROVE TakenCodes
      OBVIOUS
  <2>1. \A r \in Req : ~Taken(r) /\ req[r].pc # "issue"
      BY IdleIsRequest DEF Init, Taken
  <2> QED
      BY <2>1 DEF TakenCodes, IssuesKnown
<1>2. IInv /\ TakenCodes /\ [Next]_vars => TakenCodes'
  <2> SUFFICES ASSUME IInv, TakenCodes, [Next]_vars PROVE TakenCodes'
      OBVIOUS
  <2>1. CASE UNCHANGED <<confirmed, uses, req>>
      BY <2>1 DEF TakenCodes, IssuesKnown, Taken, TakenOK
  <2>2. CASE \E r \in Req : Enrolling(r) \/ SigningIn(r) \/ Removing(r) \/ Fail(r)
      BY <2>2, RequestTakes
  <2> QED
      BY <2>1, <2>2 DEF Next, vars, history, BeginTotpEnrollment, BeginEmailEnrollment,
                        EnrollResend, EmailCodeExpires
<1>3. IInv /\ TakenCodes => SessionsTakeCodes
  <2> SUFFICES ASSUME IInv, TakenCodes, NEW r \in Req, req[r].pc = "issue"
               PROVE  \/ TookCode(r)
                      \/ req[r].op = "login" /\ ~required
                      \/ /\ req[r].op = "challenge_enroll_confirm"
                         /\ req[r].code = None
                         /\ confirmed # {}
      BY DEF SessionsTakeCodes
  <2>1. \/ req[r].op = "login" /\ ~required
        \/ req[r].op \in Confirms \cup {"challenge_verify"} /\ confirmed # {}
      BY DEF IInv, LocalOK
  <2>2. CASE req[r].code = None
      BY <2>1, <2>2 DEF TakenCodes, IssuesKnown, Confirms
  <2>3. CASE req[r].code # None
    <3>1. req[r].code \in Secret \cup OneTimeCode
        BY <2>3 DEF IInv, TypeOK, Request, Code
    <3>2. Taken(r) /\ TakenOK(r)
        BY <2>3 DEF Taken, TakenCodes
    <3>3. ASSUME NEW p \in Req \ {r}, req[p].pc = "issue", req[r].code \in OneTimeCode
          PROVE  req[p].code # req[r].code
        BY <2>3, <3>2, <3>3 DEF Taken, TakenCodes
    <3> QED
        BY <3>1, <3>2, <3>3 DEF TookCode, TakenOK
  <2> QED
      BY <2>2, <2>3
<1> QED
    BY <1>1, <1>2, <1>3, MfaInvariance, PTL DEF Spec

-----------------------------------------------------------------------------
\* Of the steps of a request only the two enabling UPDATEs enable a credential
\* that was not, and they present its code.
LEMMA EnablingStep ==
    ASSUME IInv, NEW r \in Req, Enrolling(r) \/ SigningIn(r) \/ Removing(r) \/ Fail(r),
           cred.st # "enabled", cred'.st = "enabled"
    PROVE  /\ req[r].code \in Secret \cup EmailCode
           /\ req[r].code \in {cred.secret, cred.code}
<1> DEFINE OwnCode == /\ req[r].code \in Secret \cup EmailCode
                      /\ req[r].code \in {cred.secret, cred.code}
<1>1. EnableTotp(r) => OwnCode
    BY DEF EnableTotp, At, SecretMatches, NotConfirmed, IInv, LocalOK
<1>2. EnableEmail(r) => OwnCode
    BY MatchIsNew DEF EnableEmail, NotConfirmed
<1>3. ~resend_email_code(r)
  <2> SUFFICES ASSUME resend_email_code(r) PROVE cred'.st = cred.st
      OBVIOUS
  <2>1. CASE UNCHANGED cred
      BY <2>1
  <2>2. CASE \E c \in EmailCode :
                /\ IsEmailRow(cred)
                /\ cred' = update_email_mfa_code(cred, c)
      BY <2>2, ResendKeepsRow DEF IInv, TypeOK
  <2> QED
      BY <2>1, <2>2 DEF resend_email_code
<1>4. ~ConsumeEmailCode(r)
    BY MatchIsNew, UpdatesKeepRows DEF ConsumeEmailCode, IInv, TypeOK
<1>5. ~DeleteCredential(r)
    BY RowsAreRows DEF DeleteCredential
<1>6. cred' # cred
    OBVIOUS
<1> SUFFICES OwnCode
    OBVIOUS
<1> HIDE DEF OwnCode
<1>7. CASE Enrolling(r)
  <2>1. \A op, c : ~ConfirmFind(r, op, c)
      BY <1>6 DEF ConfirmFind
  <2>2. ~DeleteOldCodes(r) /\ ~InsertCode(r) /\ ~ConfirmEnd(r)
      BY <1>6 DEF DeleteOldCodes, InsertCode, ConfirmEnd
  <2> QED
      BY <1>1, <1>2, <1>7, <2>1, <2>2 DEF Enrolling
<1>8. CASE SigningIn(r)
    BY <1>3, <1>4, <1>6, <1>8 DEF SigningIn, Login, RequestCode, VerifyFind,
                                  consume_recovery_code, IssueSession
<1>9. CASE Removing(r) \/ Fail(r)
    BY <1>5, <1>6, <1>9 DEF Removing, AdminReset, DeleteRecoveryCodes, Fail
<1> QED
    BY <1>7, <1>8, <1>9

\* An enrolment is confirmed with its own code only: enable_mfa_credential and
\* enable_email_mfa_credential compare it with the row they change, not with the
\* row confirm_enrollment read.
THEOREM ConfirmedAsEnrolled == Spec => EnabledByItsOwnCode
<1> DEFINE Own == cred.st # "enabled" /\ cred'.st = "enabled" =>
                     \E r \in Req : /\ req[r].code \in Secret \cup EmailCode
                                    /\ req[r].code \in {cred.secret, cred.code}
<1>1. IInv /\ [Next]_vars => [Own]_vars
  <2> SUFFICES ASSUME IInv, Next, cred.st # "enabled", cred'.st = "enabled"
               PROVE  \E r \in Req : /\ req[r].code \in Secret \cup EmailCode
                                     /\ req[r].code \in {cred.secret, cred.code}
      OBVIOUS
  <2>1. ASSUME NEW r \in Req, Enrolling(r) \/ SigningIn(r) \/ Removing(r) \/ Fail(r)
        PROVE  /\ req[r].code \in Secret \cup EmailCode
               /\ req[r].code \in {cred.secret, cred.code}
      BY <2>1, EnablingStep
  <2>2. ~BeginTotpEnrollment /\ ~BeginEmailEnrollment
      BY RowsAreRows DEF BeginTotpEnrollment, BeginEmailEnrollment
  <2>3. ~EnrollResend
      BY ResendKeepsRow DEF EnrollResend, IInv, TypeOK
  <2>4. ~EmailCodeExpires
      BY UpdatesKeepRows DEF EmailCodeExpires, IInv, TypeOK
  <2> QED
      BY <2>1, <2>2, <2>3, <2>4 DEF Next
<1>2. Spec => [][Own]_vars
    BY <1>1, MfaInvariance, PTL DEF Spec
<1> QED
    BY <1>2 DEF EnabledByItsOwnCode
=============================================================================
