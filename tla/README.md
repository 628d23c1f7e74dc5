# Verification project for the BİS server

TLA+ models of the Rust server under `src/server/src`, the TLC instances that
check them and the TLAPS proofs about them. Paths below are relative to
`src/server/src`.

    tlc -config Sessions.cfg MCAccounts      # any run of PROJECT.json
    tlapm Accounts_proofs.tla                # the proofs of one module

## The system

The server is an Axum application over one SQL database (Postgres, or SQLite in
WAL mode with a pool of four connections). Handlers run concurrently as async
tasks; they share nothing in memory but the rate limiter and the circuit breakers of
the evidence providers. **There is almost no
transaction in the code**: a handler is a sequence of autocommitted statements
with an `await` between them, so every pair of statements is a place where
another handler, a failure, a dropped connection or a restart can come in. That
is where this code is hard, and what the models are about.

| Component | State | Operations | Who it talks to | What makes it correct |
|---|---|---|---|---|
| Users and roles (`db/identity.rs`, `roles.rs`, `permission.rs`) | `users` table: existence, approved, banned, role, password hash | create, patch flags, set password, soft and hard delete, count administrators | every handler | a patch changes only what it carries; an approved account has a real role; an administrator remains |
| Sessions and links (`db/session.rs`) | `sessions`: one row per token family; `approval_tokens`: one row per mailed link | open, rotate, revoke (one, family, all), consume, purge | `auth.rs`, `admin.rs`, `mfa.rs` | a revoked session never returns; a link acts once |
| Sign-in and refresh (`auth.rs`) | stateless access tokens (15 min), refresh cookies | login, refresh, logout, logout-all, forgot/reset password, seed, register | users, sessions, MFA, audit, rate limiter | a barred account loses access; tokens speak for their owner |
| User administration (`admin.rs`) | none of its own | ban, unban, role, delete, approve, reject (panel and link), edit, create | users, sessions, audit, mail | last administrator protected; stale reads not written back |
| Audit log (`audit.rs`, `db/audit.rs`) | `audit_events` rows chained by hash, `audit_chain_state` tip | append (best effort or mandatory), verify, list | every handler | an untouched log verifies; a mandatory record is not silently missing; damage shows |
| Multi-factor authentication (`mfa.rs`, `db/mfa.rs`) | credentials (pending or enabled), e-mail codes, recovery codes | enrol, confirm, challenge, verify, disable, reset | login, sessions | an enabled factor cannot be lost without its code; a code works once; a session rests on a code of its own |
| Search jobs (`search.rs`, `db/mod.rs`) | `searches` row: queued, processing, completed, failed; OSINT results | create, background run, automatic OSINT, fail | biometric pipeline, candidates, audit | a failed search stays failed; a completed one has its record; an ended task leaves nothing queued |
| Candidate review (`search.rs`, `db/mod.rs`) | candidate decision, first reviewer | decide (four-eyes) in one transaction | audit | two different reviewers; a decision is not overwritten |
| Organizations (`org.rs`, `db/org.rs`, `permission.rs`) | organizations, units, memberships; the organization of each candidate and search | assign, remove, stamp, scope check | candidates, searches, evidence | what the scoped routes show, do or refuse follows from memberships the user had meanwhile |
| Candidates and templates (`candidates.rs`, `db/biometric.rs`) | candidate rows, biometric templates, vector index or none | create, enrol, revoke, match, warn of duplicates | biometric pipeline, audit, organizations | an enrolled candidate is found or outranked, a revoked template is not matched; a success has its record |
| Evidence (`evidence.rs`, `db/evidence.rs`) | evidence rows | collect (by hand or after a search) | OSINT, organizations | an item is stored once for each candidate |
| Entity graph and resolution | relations | relate, resolve | evidence | not modelled (below) |
| OSINT connectors (`osint/`) | a circuit breaker for each provider | query with retry | third parties | a provider that fails is left alone for a cooldown, another one is not |
| Rate limiter (`ratelimit.rs`) | map from key to count and start of its window | check, clean up | auth, mfa | a budget holds; a refusal is earned |
| Biometric pipeline, configuration, mail, web client | – | – | – | not modelled (below) |

The hazards, each at its line and with the property that watches it, are in
`PROJECT.json`.

## Modules

    IdentityStore        users table, one operator per SQL statement
      SessionStore       sessions and approval_tokens, likewise
        AuthFlows        variables, Init, the handlers of auth.rs, clock, faults
          AdminFlows     the handlers of admin.rs, registration, seeding
            Accounts     Next, fairness, properties
              MCAccounts          TLC instances
              Accounts_proofs     types, sessions, links
                Standing_proofs   administrators, bans, roles
    SessionLifecycle     abstract specification of the sessions table
    AuditChain           the audit log
      MCAuditChain, AuditChain_proofs
    Mfa                  one account's second factor
      MCMfa, Mfa_proofs
    CaseFile             abstract specification of a search and its review
    Searches             the search task, the review transactions
      MCSearches, Searches_proofs
    OrgStore             memberships and the scope rule, as operators
    Gallery              templates with both search paths, evidence rows
      Registry           both: the handlers of candidates, evidence, organizations
        MCRegistry          TLC instances
        Registry_proofs     types, scope, stamps
          Gallery_proofs    enrolment, revocation, match, duplicates, evidence
    Clock
      Throttle           the rate limiter
      Breaker            the circuit breakers and the calls under way
        Guards           both under one clock, with a restart
          MCGuards, Guards_proofs

### Accounts

One statement is one action. `req[r]` holds the local variables of the handler in
slot `r`; `req[r].pc` names the statement it will run next, so
`"flags.load"`/`"flags.write"` are the SELECT and the UPDATE of
`update_user_flags`, and everything may happen between them. A handler that
refuses before its first write is not an action: its conditions are the guard of
the action that goes on. `let _ = ...` around a statement is `BestEffort`; a
statement followed by `?` or an error response is covered by `Fails` and
`AdminFails`; a handler dropped at an await (client gone, process restarted) is
`Abort`. A restart loses exactly the request slots.

What is abstracted, and why it does not matter to the properties:

* A user is its row id; `user_code` is unique, so the two are one. A hard-deleted
  id (`"gone"`) never returns. Names, e-mail and national id are left out.
* bcrypt is equality, SHA-256 of a token is the token, a JWT is a record.
* uuids and jtis are names that nothing in the system mentions any more
  (`FreshFamily`, `FreshToken`, `FreshOneTime`), so a finite set of names stands
  for an endless supply.
* Time is a nondeterministic flag: a session, a link or an access token may expire
  at any moment. The fairness says that an access token does so in the end.
* Accounts have no second factor here (that is `Mfa`), `BOOTSTRAP_ENABLED` is
  unset, and audit records are written by `AuditChain`, not here: every
  handler records after its writes, and what the record may do to the response
  changes no table.
* The rate limiter and input validation only refuse requests.

### Audit log

A writer has committed its operation and calls `save` or `save_mandatory`. BEGIN
with the SELECT of the tip, INSERT, UPDATE and COMMIT are one action each; the
transaction's writes become visible at COMMIT. On Postgres `FOR UPDATE` makes the
next writer wait; on SQLite a deferred transaction reads without a lock and its
INSERT fails if anyone committed since (`SQLITE_BUSY_SNAPSHOT`) or if the busy
timeout passes. `backend` is chosen once, as `DATABASE_URL` chooses it. A hash is
the tuple of what was hashed, so it has no collisions and nothing else is assumed
of it: `EventOf` says that whoever has the hash has the event. `StoredText` is the conversion that matters: a `jsonb` column prints a text
of its own. `LoseRow` and `AlterRow` are what the chain exists to reveal; columns
outside the hash (`organization_id`, `organization_unit_id`) are left out, so
the model says nothing of changes to those.

### Multi-factor authentication

No statement of `db/mfa.rs` touches two accounts, so the model has one: its row of
`mfa_credentials` (`cred`), its unused recovery codes, the challenge tokens that
`login` handed out, and whether a session was handed out. As in `Accounts`, a
statement is an action and `req[r].pc` names the next one; the request keeps the
code that was presented, the secret it was checked against (`req[r].secret`, the row
`confirm_enrollment` or `challenge_verify` read), and the recovery codes it is about
to insert. The WHERE clause of every UPDATE is a predicate on the row as it is then
(`SecretMatches`, `EmailCodeMatches`), not as it was read.

A TOTP secret stands for all the codes an authenticator shows for it, and such a code
is accepted as often as it is presented. E-mailed and recovery codes are values of
their own; the expiry of an e-mailed code is an action, that of a challenge token is
its holder not using it any more. Random values never repeat. Left out: rate limits,
`last_used_at` (nothing reads it), the encryption of the secret, and what bans
and role changes do to a sign-in in flight (the account stays approved and keeps
its role; `Accounts` covers those).

Three things that the code does and a reader may not expect are modelled as they are.
Starting an enrolment over an enabled credential makes the row pending
(`upsert_pending_mfa_credential` has no condition on `enabled_at`). Confirming a
challenge enrolment of a credential that is enabled already completes the sign-in
without looking at the code, as a retry. A failing read of the credential counts as
"no factor" (`login_mfa_outcome`): a role that requires none is signed in, and a role
that requires one is given an enrolment token, which for an enabled factor is worth a
session without any code. `SessionsTakeCodes` says that every other session rests
on a code that this sign-in alone took, and names the two ways around it, which are
against `mfa.rs:26`.

### Searches and review

`Searches` has one search: its row (`search`), its candidate list (`rows`), the review
history (`events`), what the audit log says of both (`recorded`, `verdicts`), the task
that `create_search_route` spawns (`job`) and review requests (`req`). No statement
touches two searches. An action is a statement that commits on its own or the part of
a transaction that takes effect at once; its outcome is `"ok"`, `"failed"` (no effect)
or `"lost"` (it took effect and the program was told that it failed). The status
`processing` is written and overwritten in one transaction, so nobody sees it.
`job.code` says why the task gave up: the probe was rejected (`"provider"`), the list
could not be committed (`"persist"`), the mandatory record failed (`"audit"`).

`record_review_decision` is two actions: the SELECT, after which the request knows
whether it is a first or a second review, and the writes with the COMMIT. On Postgres
`FOR UPDATE` makes the second SELECT wait; on SQLite the SELECT takes a snapshot,
which any later commit makes stale, whereupon the INSERT fails (`WriteRefused`). After
the commit the row is read again outside the transaction (`ReadAgain`), and the name of
the audit record is chosen from what is read then.

`CaseFile` is what those who look at the tables are promised: the list appears whole,
a search fails once, decisions happen one at a time. `review` checks the reviewer's role
and no organization, so there is no scope to model. Left out:
reasons and notes, the single evidence items, the read-only routes, and a panic of the
provider. `config` is fixed, as the environment fixes it.

### The registry: organizations, candidates, evidence

`Registry` puts the handlers that share candidates into one model, because the scope
check in front of them, the memberships and the tables change under each other's
feet. As elsewhere, a statement is an action whose outcome is `"ok"`, `"failed"` or
`"lost"`, `req[r].pc` names the next one, `Drop` ends a handler between two
statements and `Restart` ends them all.

* `assign_membership` inserts a second row when the unit is NULL, since NULLs do not
  conflict in the UNIQUE constraint, although `db/org.rs` calls it idempotent; hence
  `members` counts rows. `remove_membership` deletes them all.
* `get_candidate_route` checks the role and no organization (`BeginRead` goes straight to
  the rows), although `candidates.rs:38` calls such a candidate "only visible to members
  of that organization". `ScopeDecides` is about the routes that check.
* The scope check reads the resource, then the memberships, then decides. Its failed
  read counts as *no membership* (`actor_org_ids`), whereas the failed read of
  `list_searches_route` counts as *no restriction* (`ReadListScope`): that is the
  finding `failed_scope_read`. The failed read of a stamp gives *no organization*,
  which makes the new row visible to all.
* `mode` is what the last start found: no `vector` extension (`"bare"`), the column
  without its index, or both. It decides which path a match takes and whether an
  INSERT fills the vector column. On a bare Postgres the INSERT names a column that does
  not exist, so nobody can be enrolled, although the module's comment promises the
  brute-force path there. A row inserted without a vector is not found through the index
  later on, although `db/biometric.rs:228` says that it falls back to the scan.
* An embedding is a `Look` and `Score` their similarity, any symmetric table of numbers.
  A search ranks the candidates by their best template and keeps the first `top_k`,
  with no threshold; among equal scores any may come first. So an enrolled candidate may
  be missing from an answer that is full of better ones, and `EnrolledIsFound` says so.
  A look for duplicates takes the first `warned_k` (five in the code) of the other
  candidates and only then drops those below the threshold; with more than five
  look-alikes neither of two operators need be told of the other, and
  `LookalikesWarned` says what a full list must then look like. Both paths rank exactly;
  the provider may reject any photo.
* `revoke_template_route` checks the scope of the candidate in its path and revokes the
  template in its path; it does not compare the two, so `BeginRevoke` takes any template.
* A candidate that a match found is loaded by itself, and left out if that fails.
* `collect_and_store_candidate_evidence` reads what is stored once, after the providers
  have answered, and then inserts item by item with its own set of keys.
* `held`, `told`, `gone`, `run`, `over`, `via` in a request and `ready`, `told`, `after`
  in a row are history that only the properties read.

Entity relations proposed from evidence, calibration records, names and photos are
left out.

### The guards: rate limiter and circuit breakers

Both live in process memory behind a mutex, so `check`, `is_open`, `record_success` and
`record_failure` are one step each; `Clock` gives them one time, which `Tick` advances.
`Throttle` has keys of call sites with budgets and windows of their own in one map. A
call that finds more than `Capacity` entries drops those that are older than *its own*
window. So a call with a short window forgets running entries of a longer one, against
the comment at `ratelimit.rs:15`; `BudgetKept` says exactly which keys that can touch.
The window starts at its first attempt, so twice the budget fits where two meet.
`Breaker` has calls under way, each past `is_open` and somewhere in its attempts, which
answer in any order. `OpenForCooldown` states when a breaker is open, and with it the two
ways in which the code departs from `osint/resilience.rs:22`-24, which has it stay open for
the cooldown and then allow "a single trial call": the success of a call that had begun
before the breaker opened closes it early (`LateSuccess`), and after the cooldown every
call passes until one fails.

## Runs

| Run | Instance | Shows |
|---|---|---|
| sessions | 2 accounts, 2 slots, 2 families, 3 tokens, all faults | `SessionsFollowLifecycle` (refinement of `SessionLifecycle`), `TokensNameTheirSession`, types |
| settling | 1 account and the last token of a deleted administrator, 2 slots, fair | `BarredUserLosesAccess`, `RoleInTokensSettles` |
| onboarding | empty database, 2 users, 2 slots, 1 link, failing statements | `LinkActsOnce`, `PendingNeverSignsIn` |
| last_admin | 2 administrators, 1 slot | `ActiveAdminRemains` when ban, delete and role change do not overlap and nobody is approved or rejected |
| audit_chain | 2 writers, 3 events, 2 rows, both databases, all faults and damage, fair | `UntouchedLogVerifies`, `AssuredIsRecorded`, `DamageShows`, `WritersFinish`, types |
| mfa | 2 requests, 2 secrets, 2 e-mailed codes, 2 recovery sets, all faults | `CodesActOnce`, `EnabledByItsOwnCode`, `PendingSecretActsNowhere`, `SessionsTakeCodes`, types |
| searches | 1 candidate, 2 reviewers, 2 requests, 3 decisions, 1 fault, both databases | `FollowsCaseFile` (refinement of `CaseFile`), `TwoReviewers`, `StandingDecisionRecorded`, `CompletedIsRecorded`, `EvidenceAfterRecord`, `EndedTaskSettles`, types |
| registry | 1 user and 1 administrator, 3 candidates, 3 templates, 2 looks, `top_k` and `warned_k` 1, 1 search, 2 items of one key, 2 requests, 1 fault or restart; nine scenarios | `ScopeDecides`, `StampedByCreator`, `AnsweredIsRecorded`, `RevocationIsFinal`, `LookalikesWarned`, `EnrolledIsFound`, `CollectedOnce`, types |
| guards | 3 keys of 2 windows in a map that 2 fill; 2 providers, 2 calls at once, 2 attempts, threshold 2; 5 ticks, 1 restart | `BudgetKept`, `RefusalEarned`, `OpenForCooldown`, `NoFurtherAttempts`, types |
| failed_scope_read | 1 listing, 1 failed read | finding: the listing shows every search |
| last_admin_race | 2 administrators, 2 slots | finding: none remains |
| audit_metadata | Postgres, one event with metadata | finding: an untouched log is reported as broken |

The three findings disagree with a sentence of the repository that PROJECT.json
quotes. Others follow from the models and have no run of their own; where a property
would cover them, its statement excepts them and its comment says so.
Any role that may view searches reads any candidate by its id, and any reviewer
decides on any search, of whatever organization, although
`docs/SECURITY_ARCHITECTURE.md:662` ff. and `candidates.rs:38` speak of members only.
A session is given without a code after a failed read of the credential (`mfa.rs:90`,
and with `mfa.rs:358` also to a role that requires a factor), against `mfa.rs:26`. A
breaker closes before its cooldown is over and admits more than one trial call
(`osint/resilience.rs:24`). After a role change, tokens "issued under the old role"
(`admin.rs:591`) keep working until they expire, and one more may be signed by a request in
flight; `RoleInTokensSettles` says only that this ends. A single approval or
rejection of the last administrator leaves none, which the checks of ban, delete and role
change (`admin.rs:457`) are there to prevent.
Two refreshes of one token that overlap both succeed, although `API.md:161` says that a
token already rotated away is refused: the second UPDATE does not look at the
hash (`RefreshRotate`). A ban that lands between the two statements of a role change is undone
(`update_user_flags`, `db/identity.rs:422`), and an edit (`update_user_route`) likewise
writes back the password hash it read, over a reset that landed in between. Two
confirmations of one enrolment that overlap leave both sets of recovery codes valid
(`db/mfa.rs:476`). Approving an account that is approved already sets its role back to `OPERATOR`
(`update_user_flags` as `approve_user` calls it). A mailed rejection link hard-deletes the account even after the panel
has approved it. A poller can see
a search `completed` before its record is in the audit log, between the commit of
`finalize_queued_search` and `save_mandatory`, although
`docs/SECURITY_ARCHITECTURE.md:155` says it never does. A first review may be
recorded as a confirmation, if another reviewer confirms between the commit and the
second read. A rejected probe whose one UPDATE to `failed` fails, an INSERT whose answer
is lost, and a restart each leave a search that its requester polls for ever; a restart between the
commit and the record leaves a completed search that has none. `EndedTaskSettles` and
`CompletedIsRecorded` are about tasks that ran to their end. Two
collections for one candidate that overlap store the same item twice. Those of the
registry and of the guards are told with their modules above.

**Bounds.** Two slots are enough for every interference of one handler with
another, and the hazards listed are all of two actors; what three would do to the
safety properties is covered by the theorems, which hold for any number. Two
families and three tokens allow a superseded token, a current one and a fresh one
side by side with another session. `last_admin` has one slot on purpose: with two
the property is false, which is `last_admin_race`. `MaxSeq = 2` gives a first row, a
row with a predecessor, and a row lost both at the end and in front of a survivor; a
third event keeps the supply of names from running out, and an append beyond the
bound is refused like any failing statement. In `mfa`, two of each random value let an
enrolment be replaced while another request still works with the first; recovery
sets have one code (`SetSize = 1`), because a code is spent regardless of the size
of its set.

In `searches` one candidate is enough, since only the commit of the list touches two;
three decisions allow a first, a second and a new first review; two
requests race for every step. One fault breaks each statement in turn in every state; what two
do is covered by the theorems. The run does not check for deadlock: when the task and
all decisions are done, the system stops.

In `registry`, `Scenarios` bounds how often each operation is asked for, so that each
scenario has the requests whose interference matters: two changes of membership around
a creation, a view and a listing; a listing and an unscoped read beside a creation; two
enrolments and a match with the index or without it; an enrolment or a second revocation
and a match beside a stored template; two enrolments beside a third candidate's template,
which may fill the list of warnings; two collections. `top_k = 1` and `warned_k = 1` are the
smallest limits, so that two candidates already compete for a place. Both items have one key, the case in which
a second one must be refused. One unit and one organization suffice, because
membership of another organization is like none. In `guards`, the budget of the long
window is 2 and of the short ones 1, so that six checks fill two adjacent
windows and a clean-up; five ticks let a window of three and a cooldown of two
pass. Neither run checks for deadlock: when all has been asked for, the
system stops.

`sessions`, `settling`, `onboarding` and `last_admin` each leave out the operations that do
not bear on their properties (`Ops`); that a reset link acts once, too, is shown by the
theorem `LinksActOnce`, which is about all of them.

**Faults.** `settling` runs without faults: the hard case for the barring
property, a session created after the revocation had passed, arises from
interleaving alone, and a revocation that fails only leaves out one of its steps.

**Fairness.** `WF(Continue(r))`: the runtime polls every task it has started.
`WF(ExpireAccess(a))`: access tokens carry `exp` fifteen minutes ahead. No fairness
is assumed of clients, administrators, the retention job or faults. In `AuditChain`,
`WF(Step(w))` is the same polling, and `SF(Begin(w))` states that Postgres grants a
row lock to its waiters in turn. `Registry` and `Guards` state safety only: their handlers
are straight sequences of statements, with no loop and no lock to wait for.

## Proofs

Assumptions: the named `ASSUME`s of the modules (`None` is not an element of the
sets it extends; the initial accounts are typed, and none is approved while
pending). `User`, `Req`, `Family`, `Token`, `OneTime`, `Writer` and `Event` are
arbitrary sets, the faults are any; a theorem that needs more says so in its
ASSUME (`User` is finite where administrators are counted).

**Accounts.** `LocalInvariance` proves the inductive invariant
`LocalInv == TablesOK /\ TokensOK /\ SlotsOK`. `TypeOK` is not inductive: that
a handler's account is a user, that a row it read was well typed and not approved
while pending, and that the role it will set is a real one, depend on how the slot
got to its `pc`, and `SlotOK` says so for every `pc`. `TypeCorrect` and
`PendingStaysOut` follow. For the sessions table, every action is one of five moves
(open, rotate, revoke a set, expire, purge); `TableInvariance` shows that free rows stay
blank, from which `SessionsRefine` (each move is a step of `SessionLifecycle` or a stutter) and
`TokensSpeakForOwners` follow. `LinksActOnce` rests on the fact that a request acts
on a link only after it has consumed it and that nothing makes a consumed link live
again while a slot mentions it.

**The last administrator.** The run `last_admin` has one slot because with two the
property is false. `LastAdminStays` says what it takes instead: `ActiveAdminRemains`
holds under any number of requests, dropped ones included, as long as no two of them are between the
last-administrator check and the write it allows (`ChecksDoNotOverlap`, which is what
a transaction around the two would enforce). The invariant `AdminInv` says that such a
request knows of a second administrator, or that its write takes nothing away
(`Spares`), and that the row it will write back is still as it read it. What else
`ChecksAreMade` excludes is what the code leaves unchecked: approving (by
panel or link) gives the role `OPERATOR` to whoever is approved, an administrator
too, and rejecting removes the row, neither with a look at the last administrator; and a
count or a load that fails counts as "not the last one". `AdministratorsDescend` is the other side: with seeding switched
off, a platform without an administrator (in a row, a token or a request) never gets one.

**Bans and roles.** `BarredUserLosesAccess` and `RoleInTokensSettles` are liveness, but what
they rest on is not. A handler signs a token one or more awaits after it read
the row, so a barred account may still be given tokens. `BarredAccountsRunOut` says that no
step adds a request that can sign for it, and that each token uses one of these
requests up; `OldRolesRunOut` says the same of tokens with a role the account no longer
has. So if finitely many requests are in flight, finitely many tokens are left, and those expire.

**Audit log.** `ChainInvariance` proves `IInv`: whoever is past the last point of
refusal holds the lock and works on the current tip (`LockOK`), and an untouched
log is a chain that ends at the tip (`ChainOK`). `UntouchedLogVerifies` is not
inductive, since the row a writer will commit is decided by the tip it read earlier.
`UntouchedVerifies` needs the hypothesis that metadata reads back as written: SQLite,
or no metadata; the run `audit_metadata` shows that it is needed. `MandatoryRecorded`
and `AuditTypeCorrect` need none.

`DamageIsSeen` is about rows lost or altered at any moment, with appends before and after.
Its invariant `DamageInv` says what survives such damage: a row that was not altered
still holds its own event and metadata (`RowKept`), the hash a row names as its predecessor was made by
the row of the number before it and by no other (`NamesBefore`, `NamesDiffer`). Two rows
never have one hash, because each has its event inside it (`EventOf`), no event is recorded
twice, and a handler in flight holds none that a row was written for. That a lost row shows somewhere is an argument about the least row behind a
gap, for which `LeastNatural` and `GreatestNatural` are proved from the library's
well-founded induction. `VerdictIsExact` is the converse: where metadata reads back
as written, `verify_chain` names the altered rows and those right behind a lost one, and
no other. Rows lost at the very end are found only once
something is appended after them. `NobodyWaitsForNothing` is the safety half of `WritersFinish`: the
lock is held by nobody but a handler inside its transaction.

**Multi-factor authentication.** `MfaInvariance` proves
`IInv == TypeOK /\ CodesOK /\ FactorOK /\ LocalOK(r) for every request /\ SetsDiffer`.
That a code acts once needs more than its count: a code that is still in a row, still to
be inserted, or never generated has not been accepted (`CodesOK`), and two
confirmations never insert the same set (`SetsDiffer`). That a factor which acts was
confirmed (`FactorOK`, `LocalOK`) depends on an enabled row holding a confirmed
secret, and a request that read such a row keeps that knowledge after the row
has changed. `CodesAreSpent`, `PendingIsPowerless` and
`MfaTypeCorrect` follow. `SessionsAreEarned` adds what was taken (`TakenOK`): a request
that is about to issue a session took a confirmed secret or a one-time code that nobody else
took, or stands on one of the two ways that `SessionsTakeCodes` excepts; `ConfirmedAsEnrolled` goes over the actions that write
`cred` (`EnablingStep`) and finds only the two enabling UPDATEs. All five hold for
any numbers of requests and codes and any size of a recovery set.

**Searches and review.** `SearchInvariance` proves `IInv`: what the task has established
where it stands (`TaskOK`), that a transaction which can still write has read the row
as it is now (`SnapshotOK`, from `RowLocks` on Postgres and from staleness on SQLite),
that a row is the outcome of its history (`HistoryOK`), and that the decision which
stands is recorded or some request is still about to record it (`StandingOK`).
`TwoReviewers` alone is not inductive: it needs to know that a row in
`needs_second_review` names the author of its last event, and that the request's
target was computed from that row. From `IInv` follow `FinalTakesTwo`,
`StandingIsRecorded`, `CompletionIsRecorded`, `EvidenceIsBacked`, `EndedTasksSettle`,
`SearchTypeCorrect`, and `SearchesRefine`: every step is one step of `CaseFile` or a
stutter. They hold for any number of candidates, reviewers, requests and faults, on
both databases.

**Registry.** `Registry_proofs` first says, for every action, what it makes of the request
that runs it (the `...Local` lemmas); an invariant is then proved over these facts
and the few actions that write a table. `Typed` is `TypeOK` with `Shape`, what the point
a handler has reached says of its other local state. `ScopeInv` proves
`ScopingIsDecided` and `StampsAreTheCreators`: the memberships table says what was assigned and
not removed (`MembersMatch`, which needs the row counts), the memberships of now are
among those a request in flight has `held`, and a request whose scope has passed
stays justified because `owner` never changes once it is set (`OwnersStay`, from
`Creators`: no two requests insert one row). In `Gallery_proofs`, `RowsInv` says what
each request that stored, revoked, recorded or matched something can rely on
(`Backed`), and that the table never takes it away (`Outlasts`); the duplicate warning
needs the pair of requests (`Warned`), because neither alone knows which of the two stored
last, and what a ranking that was cut off says of whom it left out. `AnswersAreRecorded`, `RevocationsAreFinal`, `LookalikesAreSeen` and `EnrolmentsAreFound`
follow. At its end, `EvidenceInv` says that a collection knows the keys
of its own rows and of those whose collection was over when it read (`Informed`), and
that a collection under way is over for nobody (`NotOver`, `Apart`), from which
`EvidenceIsCollectedOnce` follows. They hold for any number of users, organizations,
requests, candidates, templates, items, faults and restarts.

**Guards.** `RefusalsAreEarned` and `BudgetsAreKept` rest on an invariant that ties each
entry of the map to the end of the history of what its key was granted: the entry's count
is the number of grants in its window. `BreakersHold`
rests on `consecutive_failures` being the length of the run of failures at the end of what the
breaker was told, and on what an opened breaker has still heard since (`HeldOff`:
nothing but failures, unless a call that had begun before succeeded), and `StrugglingIsLeftAlone` on the order in which calls passed
the breaker. They hold for any finite set of keys, any budgets, windows, thresholds,
cooldowns and number of calls.

Only model-checked are the liveness properties, `BarredUserLosesAccess`,
`RoleInTokensSettles` and `WritersFinish`, which TLAPS cannot reach.
Every other property of a passing run is stated by a theorem.

## What is left

The model could still gain the panic of a provider inside the search task, and the entity
relations that evidence proposes. Search review and the registry are modelled apart
because no statement of one touches a table of the other; a review looks at no
membership.

## Not modelled

The biometric pipeline and calibration are floating-point image processing and
neural networks. The OSINT connectors, beyond their breakers, are HTTP clients and
parsers. A relation of the entity graph is one INSERT without a condition that nothing updates
afterwards, and entity resolution scores texts in floating point and writes nothing, so
neither has a behaviour that steps could break. Organizations and units are created by
one INSERT and never change. Configuration, headers, mail and the encryption of one
column keep no state. The web client is a view of the API, which enforces every rule
itself.
