------------------------------ MODULE Registry ------------------------------
(***************************************************************************)
(* The registry of candidates under its organizations: the handlers of     *)
(* server/src/candidates.rs, evidence.rs and org.rs, and the scoped routes *)
(* of search.rs, over the tables of OrgStore and Gallery.                  *)
(*                                                                         *)
(* Handlers run in request slots, one statement per action.  A statement   *)
(* is "ok"; "failed", with no effect; or "lost": it took effect and the    *)
(* handler was told that it failed.  A dropped connection ends a handler   *)
(* between two statements, a restart ends all of them and decides anew     *)
(* whether the vector index can be used.                                   *)
(***************************************************************************)
EXTENDS OrgStore, Gallery

CONSTANTS
    Search,     \* ids of searches
    Req,        \* request slots
    Scenarios,  \* a database, its memberships, owners and templates at first, and how
                \* often each operation is asked for: the bound on requests and
                \* membership changes
    MaxFaults

Resource == Candidate \cup Search
Owner == Org \cup {None, "absent"}
Ops == {"move", "create", "enroll", "revoke", "collect", "view", "read", "list", "match"}

\* Rows stored while no index could be used.
Stored == [of : Candidate, look : Look, revoked : BOOLEAN, vec : {FALSE}, ready : {FALSE},
           told : BOOLEAN]

ASSUME RegistryAssumption ==
    /\ Scenarios \subseteq [backend : {"postgres", "sqlite"}, owner : [Resource -> Owner],
                            belongs : [User -> SUBSET Org],
                            templates : [Template -> Stored \cup {NoRow}],
                            asks : [Ops -> Nat]]
    /\ Candidate \cap Search = {} /\ None \notin Candidate \cup Search \cup Template
    /\ NoOne = None /\ None # "absent"
    /\ None \notin User

VARIABLES
    backend,
    asks,       \* how often each operation is still to be asked for
    mode,       \* what the last start found, see ensure_pgvector_index
    members,    \* user_memberships
    owner,      \* organization_id of each candidate and search, or "absent"
    templates,  \* biometric_templates
    evidence,   \* candidate_evidence
    log,        \* the mandatory records in the audit log
    req,        \* the local state of each request
    belongs,    \* history: the memberships assigned and not removed since
    begun,      \* requests so far
    faults

tables == <<members, owner, templates, evidence, log>>
vars == <<backend, asks, mode, tables, req, belongs, begun, faults>>

Record == [act : {"CANDIDATE_CREATED", "CANDIDATE_REFERENCE_PHOTO_ENROLLED",
                  "CANDIDATE_TEMPLATE_REVOKED"},
           on : Candidate, tmpl : Template \cup {None}]

\* blind: a read failed and the handler went on with a default.
\* via: history, the mode a match was made in.
\* held, run, over, told, gone are history: the sets of organizations its user
\* has had since it began; its number; and, when it read or began, which
\* collections were over, which templates were in use and which revoked.
Idle == [op |-> "none", pc |-> "idle", who |-> None, on |-> None, look |-> None,
         tmpl |-> None, org |-> None, ids |-> {}, todo |-> {}, seen |-> {},
         shown |-> {}, blind |-> FALSE, via |-> "none", out |-> "none",
         held |-> {}, run |-> 0, over |-> {}, told |-> {}, gone |-> {}]

PC == {"idle", "primary", "insert", "record", "scope", "enroll", "check", "revoke",
       "collect", "store", "view", "list", "page", "match", "done"}

Outcome == {"ok", "failed", "lost"}
Happens(o) ==
    \/ o = "ok" /\ faults' = faults
    \/ o # "ok" /\ faults < MaxFaults /\ faults' = faults + 1
Effect(o) == o # "failed"

Ask(op) == asks[op] > 0 /\ asks' = [asks EXCEPT ![op] = @ - 1]

At(r, pc) == req[r].pc = pc
Free(r) == req[r].pc \in {"idle", "done"}
Set(r, l) == req' = [req EXCEPT ![r] = l]
Goes(r, pc) == Set(r, [req[r] EXCEPT !.pc = pc])
Answer(l, out) == [l EXCEPT !.pc = "done", !.out = out]
Ends(r, out) == Set(r, Answer(req[r], out))

Init ==
    /\ \E s \in Scenarios : /\ backend = s.backend /\ owner = s.owner
                           /\ belongs = s.belongs /\ templates = s.templates
                           /\ asks = s.asks
    /\ mode \in ensure_pgvector_index(backend, "bare")
    /\ members = [row \in User \X Org \X Place |->
                     IF row[3] = None /\ row[2] \in belongs[row[1]] THEN 1 ELSE 0]
    /\ evidence = {}
    /\ log = {}
    /\ req = [r \in Req |-> Idle]
    /\ begun = 0 /\ faults = 0

-----------------------------------------------------------------------------
\* Memberships.  The administrator's handler is one statement; its record is
\* best effort.

Tell(q, u, orgs) ==
    [r \in Req |->
        IF q[r].who = u /\ q[r].pc # "done" THEN [q[r] EXCEPT !.held = @ \cup {orgs}]
        ELSE q[r]]

Moved(u, orgs, o) ==
    /\ Ask("move")
    /\ Happens(o)
    /\ belongs' = IF Effect(o) THEN [belongs EXCEPT ![u] = orgs] ELSE belongs
    /\ req' = IF Effect(o) THEN Tell(req, u, orgs) ELSE req
    /\ UNCHANGED <<backend, mode, owner, templates, evidence, log, begun>>

assign_membership_route(u, org, unit, o) ==
    /\ members' = IF Effect(o) THEN assign_membership(members, u, org, unit) ELSE members
    /\ Moved(u, belongs[u] \cup {org}, o)

remove_membership_route(u, org, o) ==
    /\ members' = IF Effect(o) THEN remove_membership(members, u, org) ELSE members
    /\ Moved(u, belongs[u] \ {org}, o)

-----------------------------------------------------------------------------
\* A request arrives.

Begin(r, l) ==
    /\ Free(r) /\ Ask(l.op)
    /\ begun' = begun + 1
    /\ Set(r, l)
    /\ UNCHANGED <<backend, mode, tables, belongs, faults>>

Asks(op, pc, u, x) ==
    [Idle EXCEPT !.op = op, !.pc = pc, !.who = u, !.on = x, !.held = {belongs[u]}]

\* The new row's id is chosen by the INSERT; no two are the same.
BeginCreate(r, u, x) ==
    /\ owner[x] = "absent"
    /\ \A q \in Req : req[q].op = "create" => req[q].on # x
    /\ Begin(r, Asks("create", "primary", u, x))

BeginEnroll(r, u, c, l) ==
    /\ owner[c] # "absent"
    /\ Begin(r, [Asks("enroll", "scope", u, c) EXCEPT !.look = l])

\* The path names a candidate and a template.
BeginRevoke(r, u, c, t) ==
    /\ owner[c] # "absent"
    /\ Begin(r, [Asks("revoke", "scope", u, c) EXCEPT !.tmpl = t])

BeginCollect(r, u, c) ==
    /\ owner[c] # "absent"
    /\ Begin(r, [Asks("collect", "scope", u, c) EXCEPT !.run = begun + 1])

\* run_auto_osint, for a candidate that a background search has found.
BeginAutoCollect(r, c) ==
    /\ owner[c] # "absent"
    /\ Begin(r, [Idle EXCEPT !.op = "collect", !.pc = "collect", !.on = c, !.run = begun + 1])

\* The scoped reads: of a search, or of a candidate's templates, evidence or
\* relations.
BeginView(r, u, x) ==
    /\ owner[x] # "absent"
    /\ Begin(r, Asks("view", "scope", u, x))

\* get_candidate_route looks at the user's role and at no organization.
BeginRead(r, u, c) ==
    /\ owner[c] # "absent"
    /\ Begin(r, Asks("read", "view", u, c))

BeginList(r, u) == Begin(r, Asks("list", "list", u, None))

\* The provider's part of a search; it has no actor.
BeginMatch(r, l) ==
    Begin(r, [Idle EXCEPT !.op = "match", !.pc = "match", !.look = l,
                          !.told = {t \in Template : templates[t].told},
                          !.gone = {t \in Template : templates[t].revoked}])

-----------------------------------------------------------------------------
\* create_candidate_route, and the stamp of create_search_route.

\* A failed read of the memberships stamps no organization.
StampOwner(r) ==
    /\ At(r, "primary")
    /\ \/ \E org \in primary_organization_id(members, req[r].who) :
             /\ Set(r, [req[r] EXCEPT !.pc = "insert", !.org = org])
             /\ Happens("ok")
       \/ /\ Set(r, [req[r] EXCEPT !.pc = "insert", !.blind = TRUE])
          /\ Happens("failed")
    /\ UNCHANGED <<backend, asks, mode, tables, belongs, begun>>

\* The record of a search's creation is best effort.
InsertResource(r, o) ==
    /\ At(r, "insert")
    /\ Happens(o)
    /\ owner' = IF Effect(o) THEN [owner EXCEPT ![req[r].on] = req[r].org] ELSE owner
    /\ IF o # "ok" THEN Ends(r, "error")
       ELSE IF req[r].on \in Search THEN Ends(r, "ok") ELSE Goes(r, "record")
    /\ UNCHANGED <<backend, asks, mode, members, templates, evidence, log, belongs, begun>>

-----------------------------------------------------------------------------
\* The scope check in front of the other routes.

AfterScope ==
    [enroll |-> "enroll", revoke |-> "revoke", collect |-> "collect", view |-> "view"]

\* The row is read first; its organization never changes.  A failed read of the
\* memberships counts as having none.
authorize_candidate_scope(r, ids) ==
    IF can_view_scoped_resource(req[r].who, ids, owner[req[r].on])
    THEN AfterScope[req[r].op] ELSE "done"

Decided(r, ids, failed) ==
    LET pc == authorize_candidate_scope(r, ids)
    IN  Set(r, [req[r] EXCEPT !.pc = pc, !.blind = failed,
                              !.out = IF pc = "done" THEN "refused" ELSE "none"])

CheckScope(r) ==
    /\ At(r, "scope")
    /\ \/ Decided(r, user_organization_ids(members, req[r].who), FALSE) /\ Happens("ok")
       \/ Decided(r, {}, TRUE) /\ Happens("failed")
       \/ Ends(r, "error") /\ Happens("failed")
    /\ UNCHANGED <<backend, asks, mode, tables, belongs, begun>>

\* The rows are read and shown.
View(r) ==
    /\ At(r, "view")
    /\ \/ Ends(r, "ok") /\ Happens("ok")
       \/ Ends(r, "error") /\ Happens("failed")
    /\ UNCHANGED <<backend, asks, mode, tables, belongs, begun>>

\* list_searches_route: nobody but SYSTEM_ADMIN is meant to be unscoped, but so
\* is a request whose read of the memberships fails.
ReadListScope(r) ==
    /\ At(r, "list")
    /\ \/ /\ Set(r, [req[r] EXCEPT !.pc = "page",
                               !.ids = user_organization_ids(members, req[r].who)])
          /\ Happens("ok")
       \/ /\ req[r].who \notin Admins
          /\ Set(r, [req[r] EXCEPT !.pc = "page", !.blind = TRUE])
          /\ Happens("failed")
    /\ UNCHANGED <<backend, asks, mode, tables, belongs, begun>>

list_searches_page(r) ==
    {s \in Search : /\ owner[s] # "absent"
                    /\ push_search_org_scope(req[r].who \in Admins \/ req[r].blind,
                                             req[r].ids, owner[s])}

ListPage(r) ==
    /\ At(r, "page")
    /\ \/ Set(r, [Answer(req[r], "ok") EXCEPT !.shown = list_searches_page(r)]) /\ Happens("ok")
       \/ Ends(r, "error") /\ Happens("failed")
    /\ UNCHANGED <<backend, asks, mode, tables, belongs, begun>>

-----------------------------------------------------------------------------
\* upload_reference_photo_route and revoke_template_route.

Keeps == UNCHANGED <<backend, asks, mode, members, owner, evidence, belongs, begun>>

\* The provider may reject the photo; on a bare postgres the INSERT fails.
EnrollTemplate(r, t, o) ==
    /\ At(r, "enroll")
    /\ templates[t].of = NoOne
    /\ \/ /\ o = "failed" /\ faults' = faults
          /\ Ends(r, "error") /\ UNCHANGED templates
       \/ /\ CanInsert(backend, mode)
          /\ Happens(o)
          /\ templates' = IF Effect(o)
                          THEN insert_template(templates, t, req[r].on, req[r].look, mode)
                          ELSE templates
          /\ Set(r, IF o = "ok" THEN [req[r] EXCEPT !.pc = "record", !.tmpl = t]
                    ELSE Answer(req[r], "error"))
    /\ Keeps /\ UNCHANGED log

RevokeTemplate(r, o) ==
    /\ At(r, "revoke")
    /\ IF Revocable(templates, req[r].tmpl)
       THEN /\ Happens(o)
            /\ templates' = IF Effect(o) THEN revoke_template(templates, req[r].tmpl)
                            ELSE templates
            /\ IF o = "ok" THEN Goes(r, "record") ELSE Ends(r, "error")
       ELSE o = "ok" /\ Happens(o) /\ Ends(r, "error") /\ UNCHANGED templates
    /\ Keeps /\ UNCHANGED log

RecordOf(l) ==
    [act |-> CASE l.op = "create" -> "CANDIDATE_CREATED"
               [] l.op = "enroll" -> "CANDIDATE_REFERENCE_PHOTO_ENROLLED"
               [] l.op = "revoke" -> "CANDIDATE_TEMPLATE_REVOKED",
     on |-> l.on, tmpl |-> l.tmpl]

\* Mutation: the record is best effort.
WhateverRecorded(r, o) == IF req[r].op = "enroll" THEN Goes(r, "check") ELSE Ends(r, "ok")

AfterRecord(r, o) ==
    IF o # "ok" THEN Ends(r, "error")
    ELSE IF req[r].op = "enroll" THEN Goes(r, "check") ELSE Ends(r, "ok")

\* save_mandatory (the append itself is AuditChain).
SaveMandatory(r, o) ==
    /\ At(r, "record")
    /\ Happens(o)
    /\ log' = IF Effect(o) THEN log \cup {RecordOf(req[r])} ELSE log
    /\ AfterRecord(r, o)
    /\ Keeps /\ UNCHANGED templates

\* The candidates the operator may be warned about: the first warned_k others,
\* without those that score less than the threshold.
WarnedAmong(r, ts) ==
    {{c \in m : Reaches(templates, ts, c, req[r].look, DUPLICATE_TEMPLATE_SIMILARITY_THRESHOLD)} :
        m \in top_k_matches(templates, ts, req[r].look, warned_k)}

OfOthers(r) == {t \in list_active_templates(templates) : templates[t].of # req[r].on}

\* Mutation: only templates that the index can find are compared.
IndexedDuplicates(r) == WarnedAmong(r, {t \in OfOthers(r) : templates[t].vec})

possible_duplicates(r) == WarnedAmong(r, OfOthers(r))

CheckDuplicates(r) ==
    /\ At(r, "check")
    /\ \/ /\ \E shown \in possible_duplicates(r) :
                Set(r, [Answer(req[r], "ok") EXCEPT !.shown = shown])
          /\ Happens("ok")
       \/ Set(r, [Answer(req[r], "ok") EXCEPT !.blind = TRUE]) /\ Happens("failed")
    /\ templates' = [templates EXCEPT ![req[r].tmpl].told = TRUE]
    /\ Keeps /\ UNCHANGED log

\* search_top_k is one statement on either path; each candidate is then loaded,
\* and left out if that fails.
MatchProbe(r) ==
    LET Found(shown, blind) ==
            Set(r, [Answer(req[r], "ok") EXCEPT !.shown = shown, !.blind = blind,
                                                !.via = mode])
    IN  /\ At(r, "match")
        /\ \/ \E found \in search_top_k(templates, req[r].look, mode) :
                 \/ Found(found, FALSE) /\ Happens("ok")
                 \/ \E c \in found : Found(found \ {c}, TRUE) /\ Happens("failed")
           \/ Ends(r, "error") /\ Happens("failed")
        /\ UNCHANGED <<backend, asks, mode, tables, belongs, begun>>

-----------------------------------------------------------------------------
\* collect_and_store_candidate_evidence.

RunsUnderWay == {req[q].run : q \in {p \in Req : ~Free(p)}}
RunsOver(c) == {e.run : e \in list_evidence_for_candidate(evidence, c)} \ RunsUnderWay

\* The providers return some items, then the stored ones are read; a failed read
\* counts as none.
ReadEvidence(r) ==
    /\ At(r, "collect")
    /\ \E items \in SUBSET Item :
        \/ /\ Set(r, [req[r] EXCEPT !.pc = "store", !.todo = items,
                          !.seen = dedupe_keys(list_evidence_for_candidate(evidence, req[r].on)),
                          !.over = RunsOver(req[r].on)])
           /\ Happens("ok")
        \/ /\ Set(r, [req[r] EXCEPT !.pc = "store", !.todo = items, !.blind = TRUE])
           /\ Happens("failed")
    /\ UNCHANGED <<backend, asks, mode, tables, belongs, begun>>

\* Mutation: keys are compared with the stored items only.
SeenBefore(l, i) == [l EXCEPT !.todo = @ \ {i}]

\* An item whose INSERT fails is not tried again.
MarkSeen(l, i) == [l EXCEPT !.todo = @ \ {i}, !.seen = @ \cup {KeyOf[i]}]

StoreItem(r, i, o) ==
    /\ At(r, "store") /\ i \in req[r].todo
    /\ Set(r, MarkSeen(req[r], i))
    /\ IF KeyOf[i] \in req[r].seen
       THEN o = "ok" /\ Happens(o) /\ UNCHANGED evidence
       ELSE /\ Happens(o)
            /\ evidence' = IF ~Effect(o) THEN evidence
                           ELSE evidence \cup {[on |-> req[r].on, item |-> i,
                                                run |-> req[r].run, after |-> req[r].over]}
    /\ UNCHANGED <<backend, asks, mode, members, owner, templates, log, belongs, begun>>

Collected(r) ==
    /\ At(r, "store") /\ req[r].todo = {}
    /\ Ends(r, "ok")
    /\ UNCHANGED <<backend, asks, mode, tables, belongs, begun, faults>>

-----------------------------------------------------------------------------
\* The client goes away between two statements.
Drop(r) ==
    /\ ~Free(r)
    /\ Happens("failed")
    /\ Set(r, Idle)
    /\ UNCHANGED <<backend, asks, mode, tables, belongs, begun>>

\* A restart ends every handler and migrates again.
Restart ==
    /\ Happens("failed")
    /\ mode' \in ensure_pgvector_index(backend, mode)
    /\ req' = [r \in Req |-> IF Free(r) THEN req[r] ELSE Idle]
    /\ UNCHANGED <<backend, asks, tables, belongs, begun>>

Next ==
    \/ \E u \in User, org \in Org, o \in Outcome :
        \/ \E unit \in Place : assign_membership_route(u, org, unit, o)
        \/ remove_membership_route(u, org, o)
    \/ \E r \in Req, u \in User :
        \/ \E x \in Resource : BeginCreate(r, u, x) \/ BeginView(r, u, x)
        \/ \E c \in Candidate :
            \/ \E l \in Look : BeginEnroll(r, u, c, l)
            \/ \E t \in Template : BeginRevoke(r, u, c, t)
            \/ BeginCollect(r, u, c) \/ BeginRead(r, u, c)
        \/ BeginList(r, u)
    \/ \E r \in Req :
        \/ \E l \in Look : BeginMatch(r, l)
        \/ \E c \in Candidate : BeginAutoCollect(r, c)
        \/ StampOwner(r) \/ CheckScope(r) \/ View(r) \/ ReadListScope(r) \/ ListPage(r)
        \/ CheckDuplicates(r) \/ MatchProbe(r) \/ ReadEvidence(r) \/ Collected(r) \/ Drop(r)
        \/ \E o \in Outcome :
            \/ InsertResource(r, o) \/ RevokeTemplate(r, o) \/ SaveMandatory(r, o)
            \/ \E t \in Template : EnrollTemplate(r, t, o)
            \/ \E i \in Item : StoreItem(r, i, o)
    \/ Restart

Spec == Init /\ [][Next]_vars

-----------------------------------------------------------------------------
Mode == {"bare", "column", "index"}
Via == Mode \cup {"none"}
Request ==
    [op : (Ops \ {"move"}) \cup {"none"}, pc : PC, who : User \cup {None},
     on : Resource \cup {None}, look : Look \cup {None}, tmpl : Template \cup {None},
     org : Org \cup {None}, ids : SUBSET Org, todo : SUBSET Item,
     seen : SUBSET {KeyOf[i] : i \in Item}, shown : SUBSET Resource,
     blind : BOOLEAN, via : Via, out : {"none", "ok", "refused", "error"},
     held : SUBSET SUBSET Org, run : Nat, over : SUBSET Nat,
     told : SUBSET Template, gone : SUBSET Template]

\* Every variable has its type, and only a postgres can have the vector column.
TypeOK ==
    /\ backend \in {"postgres", "sqlite"} /\ mode \in Mode
    /\ backend = "sqlite" => mode = "bare"
    /\ members \in Memberships
    /\ owner \in [Resource -> Owner]
    /\ templates \in [Template -> Row]
    /\ evidence \subseteq EvidenceRow
    /\ log \subseteq Record
    /\ req \in [Req -> Request]
    /\ belongs \in [User -> SUBSET Org]
    /\ asks \in [Ops -> Nat] /\ begun \in Nat /\ faults \in Nat

Ok(r, op) == req[r].op = op /\ req[r].out = "ok"

PassedScope(l) ==
    \/ l.op \in {"enroll", "revoke", "view", "collect"} /\ l.pc \notin {"scope", "done"}
    \/ l.op \in {"enroll", "revoke", "view", "collect"} /\ l.out = "ok"

\* On the routes that look at a scope it is decided by the memberships the user
\* has had during the request (those assigned and not removed since): a request
\* that acts, an answer that shows and a refusal are each right for one of them,
\* whatever memberships change between its statements and whatever read fails;
\* the one exception is a listing whose read failed (ListsInScope).  Not of them
\* are get_candidate_route ("read"), which shows any candidate to any role that
\* may view searches, although "a candidate belonging to an organization is only
\* visible to members of that organization" (candidates.rs), and the review
\* routes of Searches; and of a revocation it is the candidate in the path that
\* is looked at, not the template's own.
ScopeDecides ==
    \A r \in Req :
        LET l == req[r]
            Allowed(x) == \E orgs \in l.held : can_view_scoped_resource(l.who, orgs, owner[x])
        IN  /\ PassedScope(l) /\ l.who # None => Allowed(l.on)
            /\ Ok(r, "list") /\ ~l.blind => \A s \in l.shown : Allowed(s)
            /\ l.out = "refused" /\ ~l.blind =>
                   \E orgs \in l.held : ~can_view_scoped_resource(l.who, orgs, owner[l.on])

\* A new candidate or search belongs to an organization its creator has been in
\* during the request, and to none only if he was in none or the read of his
\* memberships failed.
StampedByCreator ==
    \A r \in Req :
        LET l == req[r]
        IN  l.op = "create" /\ (l.pc \in {"insert", "record"} \/ l.out = "ok") =>
                /\ IF l.org = None THEN l.blind \/ {} \in l.held
                   ELSE \E orgs \in l.held : l.org \in orgs
                /\ l.pc = "record" \/ l.out = "ok" => owner[l.on] = l.org

\* A success of the three recorded operations is never answered without the row
\* and its audit record being there, whatever statement failed or was lost.  The
\* record of a revocation names the candidate in the path; the template may be
\* another one's.
AnsweredIsRecorded ==
    \A r \in Req :
        /\ Ok(r, "create") /\ req[r].on \in Candidate =>
               owner[req[r].on] # "absent" /\ RecordOf(req[r]) \in log
        /\ Ok(r, "enroll") => templates[req[r].tmpl].of = req[r].on /\ RecordOf(req[r]) \in log
        /\ Ok(r, "revoke") => templates[req[r].tmpl].revoked /\ RecordOf(req[r]) \in log

\* One revocation of a template is answered with success, however many race, and
\* a match begun after a template was revoked ranks its candidate only by
\* another template of the candidate, not revoked then.
RevocationIsFinal ==
    /\ \A r, q \in Req :
           Ok(r, "revoke") /\ Ok(q, "revoke") /\ req[r].tmpl = req[q].tmpl => r = q
    /\ \A r \in Req : Ok(r, "match") =>
           \A c \in req[r].shown : \E t \in Template \ req[r].gone : templates[t].of = c

\* Two candidates are enrolled at the same time with embeddings that score at
\* least the threshold: one of the two operators at least is warned of the other
\* candidate, since each looks for duplicates after his own template is stored;
\* or warned_k other candidates, each as much alike, are named to one of them
\* (unless a look fails, or a template is revoked meanwhile).
LookalikesWarned ==
    \A r, q \in Req :
        LET a == req[r]
            b == req[q]
            likeness == Score[a.look][b.look]
            FullList(l) ==
                /\ Cardinality(l.shown) = warned_k
                /\ \A c \in l.shown : Reaches(templates, Template, c, l.look, likeness)
        IN  /\ Ok(r, "enroll") /\ Ok(q, "enroll")
            /\ a.on # b.on /\ likeness >= DUPLICATE_TEMPLATE_SIMILARITY_THRESHOLD
            /\ ~a.blind /\ ~b.blind
            /\ ~templates[a.tmpl].revoked /\ ~templates[b.tmpl].revoked
            => b.on \in a.shown \/ a.on \in b.shown \/ FullList(a) \/ FullList(b)

\* No evidence item is stored twice under one key for one candidate, by one
\* collection or by two of which one was over when the other read what is
\* stored.  Two that overlap, or one whose read failed, may both store it.
CollectedOnce ==
    \A e, f \in evidence :
        e # f /\ e.on = f.on /\ KeyOf[e.item] = KeyOf[f.item] =>
            e.run # f.run /\ e.run \notin f.after /\ f.run \notin e.after

\* Once an enrolment is answered, a later match shows the candidate until the
\* template is revoked, or else top_k other candidates, each ranked no lower by a
\* template not revoked when the match began, across restarts that turn the
\* vector index on or off.  Two cases are left out, as the code leaves them out:
\* a template stored while the index could not be used, which no match over the
\* index ever sees, although a row without a vector "falls back to the brute-force
\* scan" (db/biometric.rs:229); and an answer from which a candidate that could
\* not be loaded was dropped.
EnrolledIsFound ==
    \A r \in Req : Ok(r, "match") /\ ~req[r].blind =>
        LET l == req[r]
        IN  \A t \in l.told :
                \/ templates[t].revoked
                \/ PgvectorReady(l.via) /\ ~templates[t].ready
                \/ templates[t].of \in l.shown
                \/ /\ Cardinality(l.shown) = top_k
                   /\ \A c \in l.shown :
                          Reaches(templates, Template \ l.gone, c, l.look,
                                  Score[templates[t].look][l.look])

\* "None means unscoped (only SYSTEM_ADMIN passes this)" (db/mod.rs,
\* list_searches_page): a listing shows no search outside the scope of a user
\* who is not one, even if the read of his memberships fails.
ListsInScope ==
    \A r \in Req : Ok(r, "list") =>
        \A s \in req[r].shown :
            \E orgs \in req[r].held : can_view_scoped_resource(req[r].who, orgs, owner[s])
=============================================================================
