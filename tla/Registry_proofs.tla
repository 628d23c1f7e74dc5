-------------------------- MODULE Registry_proofs --------------------------
(***************************************************************************)
(* Proofs about Registry, for any users, organizations, candidates, templ- *)
(* ates, searches and requests, and any number of faults and restarts.     *)
(***************************************************************************)
EXTENDS Registry, TLAPS

Scoped == {"enroll", "revoke", "collect", "view"}

\* What the point a handler has reached says of its other local state.
Shape(l) ==
    /\ l.pc # "done" => l.out = "none"
    /\ l.pc \in {"primary", "insert"} => l.op = "create"
    /\ l.pc = "primary" => l.org = None
    /\ l.pc = "list" => ~l.blind
    /\ l.pc = "record" => l.op \in {"create", "enroll", "revoke"}
    /\ l.pc = "scope" => l.op \in Scoped /\ l.who \in User
    /\ l.pc \in {"enroll", "check"} => l.op = "enroll"
    /\ l.pc = "revoke" => l.op = "revoke"
    /\ l.pc = "view" => l.op \in {"view", "read"}
    /\ l.pc \in {"collect", "store"} => l.op = "collect"
    /\ l.pc \in {"list", "page"} => l.op = "list"
    /\ l.pc = "match" => l.op = "match"
    /\ l.op \in {"create", "view", "read"} => l.on \in Resource
    /\ l.op \in {"enroll", "revoke", "collect"} => l.on \in Candidate
    /\ l.op = "create" /\ l.pc = "record" => l.on \in Candidate
    /\ l.op \in {"enroll", "match"} => l.look \in Look
    /\ l.op = "revoke" => l.tmpl \in Template
    /\ l.op = "enroll" /\ l.pc \in {"record", "check"} => l.tmpl \in Template
    /\ l.op = "enroll" /\ l.out = "ok" => l.tmpl \in Template
    /\ l.op \in {"create", "enroll", "revoke", "view", "read", "list"} => l.who \in User
    /\ l.out = "refused" => l.op \in Scoped /\ l.who \in User

Local(l) == l \in Request /\ Shape(l)

Typed == TypeOK /\ \A r \in Req : Shape(req[r])

\* A step of one request.
OnlyOf(r) ==
    /\ req' \in [Req -> Request]
    /\ \A q \in Req : Shape(req'[q])
    /\ \A q \in Req \ {r} : req'[q] = req[q]

-----------------------------------------------------------------------------
\* A step changes the local state of one request, or tells requests of a
\* membership, or restarts.

LEMMA SetLocal ==
    ASSUME Typed, NEW r \in Req, NEW l, Set(r, l)
    PROVE  req'[r] = l /\ (Local(l) => OnlyOf(r))
BY DEF Set, Typed, TypeOK, Local, OnlyOf

LEMMA IdleLocal == Local(Idle)
<1>1. Idle \in Request
  <2>1. "idle" \in PC /\ "none" \in Via  BY DEF PC, Via
  <2>2. QED  BY <2>1 DEF Idle, Request
<1>2. Shape(Idle)  BY DEF Idle, Shape
<1>3. QED  BY <1>1, <1>2 DEF Local

LEMMA ReqLocal ==
    ASSUME Typed, NEW r \in Req
    PROVE  Local(req[r])
BY DEF Typed, TypeOK, Local

LEMMA AnswerLocal ==
    ASSUME NEW l, Local(l), NEW out \in {"ok", "error"},
           out = "ok" /\ l.op = "enroll" => l.tmpl \in Template
    PROVE  Local(Answer(l, out))
<1>1. l \in Request  BY DEF Local
<1>2. Answer(l, out) \in Request
  <2>1. "done" \in PC /\ out \in {"none", "ok", "refused", "error"}  BY DEF PC
  <2>2. QED  BY <1>1, <2>1 DEF Answer, Request
<1>3. PICK a : a = Answer(l, out)  OBVIOUS
<1>4. /\ a.pc = "done" /\ a.out = out /\ a.op = l.op /\ a.on = l.on /\ a.who = l.who
      /\ a.look = l.look /\ a.tmpl = l.tmpl
  BY <1>1, <1>3 DEF Answer, Request
<1>5. Shape(a)  BY <1>4 DEF Local, Shape
<1>6. QED  BY <1>2, <1>3, <1>5 DEF Local

LEMMA AsksLocal ==
    ASSUME Typed, NEW op \in Ops \ {"move", "match"}, NEW pc \in PC, NEW u \in User,
           NEW x \in Resource \cup {None}
    PROVE  /\ Asks(op, pc, u, x) \in Request
           /\ Asks(op, pc, u, x).op = op /\ Asks(op, pc, u, x).pc = pc
           /\ Asks(op, pc, u, x).who = u /\ Asks(op, pc, u, x).on = x
           /\ Asks(op, pc, u, x).out = "none"
           /\ Asks(op, pc, u, x).held = {belongs[u]}
<1>1. {belongs[u]} \in SUBSET SUBSET Org /\ "none" \in Via  BY DEF Typed, TypeOK, Via
<1>2. QED  BY <1>1 DEF Asks, Idle, Request

\* How each step changes the local state of its request.  Kept(l, m): what no
\* statement of a handler changes.
Kept(l, m) ==
    /\ m.op = l.op /\ m.who = l.who /\ m.on = l.on /\ m.look = l.look
    /\ m.held = l.held /\ m.run = l.run /\ m.told = l.told /\ m.gone = l.gone

Answered(l, m, out) ==
    /\ Kept(l, m) /\ m.pc = "done" /\ m.out = out
    /\ m.tmpl = l.tmpl /\ m.org = l.org /\ m.ids = l.ids /\ m.seen = l.seen
    /\ m.over = l.over /\ m.todo = l.todo

\* The handler ends.
LEMMA EndsLocal ==
    ASSUME Typed, NEW r \in Req, NEW out \in {"ok", "error"}, Ends(r, out),
           out = "ok" /\ req[r].op = "enroll" => req[r].tmpl \in Template
    PROVE  /\ OnlyOf(r)
           /\ Answered(req[r], req'[r], out)
           /\ req'[r].blind = req[r].blind /\ req'[r].shown = req[r].shown
           /\ req'[r].via = req[r].via
<1>1. Local(req[r])  BY ReqLocal
<1>2. Local(Answer(req[r], out))  BY <1>1, AnswerLocal
<1>3. req'[r] = Answer(req[r], out)  BY SetLocal DEF Ends
<1>4. req[r] \in Request  BY <1>1 DEF Local
<1>5. /\ Answered(req[r], req'[r], out)
      /\ req'[r].blind = req[r].blind /\ req'[r].shown = req[r].shown
      /\ req'[r].via = req[r].via
  BY <1>3, <1>4 DEF Answer, Answered, Kept, Request
<1>6. QED  BY <1>2, <1>5, SetLocal DEF Ends

\* The owner to stamp is chosen.
LEMMA StampLocal ==
    ASSUME Typed, NEW r \in Req, StampOwner(r)
    PROVE  /\ OnlyOf(r) /\ Kept(req[r], req'[r])
           /\ req[r].pc = "primary" /\ req'[r].pc = "insert" /\ req[r].out = "none" /\ req'[r].out = "none"
           /\ \/ req'[r].org \in primary_organization_id(members, req[r].who)
              \/ req'[r].org = None /\ req'[r].blind
<1>1. req[r] \in Request /\ Shape(req[r]) /\ req[r].pc = "primary"
  BY ReqLocal DEF Local, StampOwner, At
<1>2. "insert" \in PC  BY DEF PC
<1>3. ASSUME NEW org \in primary_organization_id(members, req[r].who),
             Set(r, [req[r] EXCEPT !.pc = "insert", !.org = org])
      PROVE  OnlyOf(r) /\ Kept(req[r], req'[r]) /\ req'[r].pc = "insert" /\ req'[r].org = org
             /\ req'[r].out = "none"
  <2>1. org \in Org \cup {None}
    BY DEF primary_organization_id, user_organization_ids
  <2>2. PICK l : l = [req[r] EXCEPT !.pc = "insert", !.org = org]  OBVIOUS
  <2>3. l \in Request /\ Kept(req[r], l) /\ l.pc = "insert" /\ l.org = org /\ l.out = "none"
    BY <1>1, <1>2, <2>1, <2>2 DEF Request, Kept, Shape
  <2>4. Shape(l)  BY <1>1, <2>3 DEF Shape, Kept
  <2>5. QED  BY <1>3, <2>2, <2>3, <2>4, SetLocal DEF Local
<1>4. ASSUME Set(r, [req[r] EXCEPT !.pc = "insert", !.blind = TRUE])
      PROVE  OnlyOf(r) /\ Kept(req[r], req'[r]) /\ req'[r].pc = "insert" /\ req'[r].org = None
             /\ req'[r].blind /\ req'[r].out = "none"
  <2>2. PICK l : l = [req[r] EXCEPT !.pc = "insert", !.blind = TRUE]  OBVIOUS
  <2>3. /\ l \in Request /\ Kept(req[r], l) /\ l.pc = "insert" /\ l.org = req[r].org
        /\ l.blind /\ l.out = "none"
    BY <1>1, <1>2, <2>2 DEF Request, Kept, Shape
  <2>4. Shape(l) /\ l.org = None  BY <1>1, <2>3 DEF Shape, Kept
  <2>5. QED  BY <1>4, <2>2, <2>3, <2>4, SetLocal DEF Local
<1>5. req[r].out = "none"  BY <1>1 DEF Shape
<1>6. QED  BY <1>1, <1>3, <1>4, <1>5 DEF StampOwner

\* A handler goes on: only its point changes.
LEMMA GoesLocal ==
    ASSUME Typed, NEW r \in Req, NEW pc \in PC \ {"done"}, Goes(r, pc), req[r].pc # "done",
           Shape([req[r] EXCEPT !.pc = pc])
    PROVE  /\ OnlyOf(r) /\ Kept(req[r], req'[r]) /\ req'[r].pc = pc
           /\ req'[r].out = req[r].out /\ req'[r].org = req[r].org /\ req'[r].tmpl = req[r].tmpl
           /\ req'[r].blind = req[r].blind
<1>1. req[r] \in Request  BY ReqLocal DEF Local
<1>2. [req[r] EXCEPT !.pc = pc] \in Request  BY <1>1 DEF Request
<1>3. req'[r] = [req[r] EXCEPT !.pc = pc]  BY SetLocal DEF Goes
<1>4. QED  BY <1>1, <1>2, <1>3, SetLocal DEF Goes, Local, Kept, Request

LEMMA InsertLocal ==
    ASSUME Typed, NEW r \in Req, NEW o \in Outcome, InsertResource(r, o)
    PROVE  /\ OnlyOf(r) /\ Kept(req[r], req'[r]) /\ req[r].pc = "insert"
           /\ req'[r].org = req[r].org /\ req'[r].blind = req[r].blind
           /\ \/ req'[r].pc = "done" /\ req'[r].out = "error"
              \/ /\ o = "ok" /\ req[r].on \in Search
                 /\ req'[r].pc = "done" /\ req'[r].out = "ok"
              \/ /\ o = "ok" /\ req[r].on \in Candidate
                 /\ req'[r].pc = "record" /\ req'[r].out = "none"
<1>1. req[r] \in Request /\ Shape(req[r]) /\ req[r].pc = "insert"
  BY ReqLocal DEF Local, InsertResource, At
<1>2. req[r].op = "create" /\ req[r].out = "none"  BY <1>1 DEF Shape
<1>3. CASE o # "ok"
  BY <1>1, <1>3, EndsLocal DEF InsertResource, Answered
<1>4. CASE o = "ok" /\ req[r].on \in Search
  BY <1>1, <1>2, <1>4, EndsLocal DEF InsertResource, Answered
<1>5. CASE o = "ok" /\ req[r].on \notin Search
  <2>1. req[r].on \in Candidate  BY <1>1, <1>2, <1>5 DEF Shape, Resource
  <2>2. PICK l : l = [req[r] EXCEPT !.pc = "record"]  OBVIOUS
  <2>3. /\ l.pc = "record" /\ l.op = "create" /\ l.on = req[r].on /\ l.out = "none"
        /\ l.who = req[r].who
    BY <1>1, <1>2, <2>2 DEF Request
  <2>4. Shape(l)  BY <1>1, <1>2, <2>1, <2>3 DEF Shape, Resource
  <2>5. "record" \in PC \ {"done"}  BY DEF PC
  <2>6. Goes(r, "record")  BY <1>5 DEF InsertResource
  <2>7. QED  BY <1>1, <1>2, <1>5, <2>1, <2>2, <2>4, <2>5, <2>6, GoesLocal
<1>6. QED  BY <1>3, <1>4, <1>5

LEMMA DecidedLocal ==
    ASSUME Typed, NEW r \in Req, req[r].pc = "scope", NEW ids, NEW failed \in BOOLEAN,
           Decided(r, ids, failed)
    PROVE  /\ OnlyOf(r) /\ Kept(req[r], req'[r]) /\ req'[r].blind = failed
           /\ IF can_view_scoped_resource(req[r].who, ids, owner[req[r].on])
              THEN req'[r].pc = AfterScope[req[r].op] /\ req'[r].out = "none"
              ELSE req'[r].pc = "done" /\ req'[r].out = "refused"
<1>1. req[r] \in Request /\ Shape(req[r])  BY ReqLocal DEF Local
<1>2. req[r].op \in Scoped /\ req[r].who \in User  BY <1>1 DEF Shape
<1>3. PICK pc : pc = authorize_candidate_scope(r, ids)  OBVIOUS
<1>4. /\ pc \in {AfterScope[req[r].op], "done"}
      /\ pc = "done" <=> ~can_view_scoped_resource(req[r].who, ids, owner[req[r].on])
      /\ pc # "done" => pc = req[r].op
  BY <1>2, <1>3 DEF authorize_candidate_scope, AfterScope, Scoped
<1>5. PICK out : out = IF pc = "done" THEN "refused" ELSE "none"  OBVIOUS
<1>6. pc \in PC /\ out \in {"none", "ok", "refused", "error"}
  BY <1>2, <1>4, <1>5 DEF PC, Scoped
<1>7. PICK l : l = [req[r] EXCEPT !.pc = pc, !.blind = failed, !.out = out]  OBVIOUS
<1>8. /\ l \in Request /\ Kept(req[r], l) /\ l.pc = pc /\ l.blind = failed /\ l.out = out
      /\ l.tmpl = req[r].tmpl
  <2>1. l \in Request
    <3>1. PICK m : m = [req[r] EXCEPT !.pc = pc, !.out = out]  OBVIOUS
    <3>2. m \in Request  BY <1>1, <1>6, <3>1 DEF Request
    <3>3. [m EXCEPT !.blind = failed] \in Request  BY <3>2 DEF Request
    <3>4. l = [m EXCEPT !.blind = failed]  BY <1>1, <1>7, <3>1 DEF Request
    <3>5. QED  BY <3>3, <3>4
  <2>2. Kept(req[r], l) /\ l.tmpl = req[r].tmpl  BY <1>1, <1>7 DEF Request, Kept
  <2>3. l.pc = pc /\ l.blind = failed /\ l.out = out  BY <1>1, <1>7 DEF Request
  <2>4. QED  BY <2>1, <2>2, <2>3
<1>9. Shape(l)
  <2>1. CASE pc = "done"
    BY <1>1, <1>2, <1>5, <1>8, <2>1 DEF Shape, Kept
  <2>2. CASE pc # "done"
    <3>1. pc = req[r].op /\ l.out = "none"  BY <1>4, <1>5, <1>8, <2>2
    <3>2. pc \in Scoped  BY <1>2, <3>1
    <3>3. QED  BY <1>1, <1>2, <1>8, <3>1, <3>2 DEF Shape, Kept, Scoped
  <2>3. QED  BY <2>1, <2>2
<1>10. req'[r] = l /\ OnlyOf(r)
  BY <1>3, <1>5, <1>7, <1>8, <1>9, SetLocal DEF Decided, Local
<1>11. pc # "done" => pc = AfterScope[req[r].op]  BY <1>4
<1>12. QED  BY <1>4, <1>5, <1>8, <1>10, <1>11

LEMMA CheckScopeLocal ==
    ASSUME Typed, NEW r \in Req, CheckScope(r)
    PROVE  LET seen == user_organization_ids(members, req[r].who)
               allowed == can_view_scoped_resource(req[r].who, seen, owner[req[r].on])
           IN  /\ OnlyOf(r) /\ Kept(req[r], req'[r]) /\ req[r].pc = "scope"
               /\ \/ req'[r].pc = "done" /\ req'[r].out = "error"
                  \/ req'[r].pc = AfterScope[req[r].op] /\ req'[r].out = "none" /\ allowed
                  \/ /\ req'[r].pc = "done" /\ req'[r].out = "refused"
                     /\ req'[r].blind \/ ~allowed
<1>1. req[r].pc = "scope"  BY DEF CheckScope, At
<1>2. CASE Decided(r, user_organization_ids(members, req[r].who), FALSE)
  BY <1>1, <1>2, DecidedLocal
<1>3. CASE Decided(r, {}, TRUE)
  <2>1. /\ OnlyOf(r) /\ Kept(req[r], req'[r]) /\ req'[r].blind = TRUE
        /\ IF can_view_scoped_resource(req[r].who, {}, owner[req[r].on])
           THEN req'[r].pc = AfterScope[req[r].op] /\ req'[r].out = "none"
           ELSE req'[r].pc = "done" /\ req'[r].out = "refused"
    BY <1>1, <1>3, DecidedLocal
  <2>2. can_view_scoped_resource(req[r].who, {}, owner[req[r].on]) =>
            can_view_scoped_resource(req[r].who, user_organization_ids(members, req[r].who),
                                     owner[req[r].on])
    BY DEF can_view_scoped_resource
  <2>3. QED  BY <1>1, <2>1, <2>2
<1>4. CASE Ends(r, "error")
  BY <1>1, <1>4, EndsLocal DEF Answered
<1>5. QED  BY <1>2, <1>3, <1>4 DEF CheckScope

LEMMA ListScopeLocal ==
    ASSUME Typed, NEW r \in Req, ReadListScope(r)
    PROVE  /\ OnlyOf(r) /\ Kept(req[r], req'[r]) /\ req[r].pc = "list"
           /\ req'[r].pc = "page" /\ req'[r].out = "none"
           /\ req'[r].blind \/ req'[r].ids = user_organization_ids(members, req[r].who)
<1>1. req[r] \in Request /\ Shape(req[r]) /\ req[r].pc = "list" /\ "page" \in PC
  BY ReqLocal DEF Local, ReadListScope, At, PC
<1>2. PICK ids : ids = user_organization_ids(members, req[r].who)  OBVIOUS
<1>3. ids \in SUBSET Org  BY <1>2 DEF user_organization_ids
<1>4. CASE Set(r, [req[r] EXCEPT !.pc = "page", !.ids = ids])
  <2>1. PICK l : l = [req[r] EXCEPT !.pc = "page", !.ids = ids]  OBVIOUS
  <2>2. l \in Request /\ Kept(req[r], l) /\ l.pc = "page" /\ l.ids = ids /\ l.out = "none"
    BY <1>1, <1>3, <2>1 DEF Request, Kept, Shape
  <2>3. Shape(l)  BY <1>1, <2>2 DEF Shape, Kept
  <2>4. QED  BY <1>1, <1>2, <1>4, <2>1, <2>2, <2>3, SetLocal DEF Local
<1>5. CASE Set(r, [req[r] EXCEPT !.pc = "page", !.blind = TRUE])
  <2>1. PICK l : l = [req[r] EXCEPT !.pc = "page", !.blind = TRUE]  OBVIOUS
  <2>2. l \in Request /\ Kept(req[r], l) /\ l.pc = "page" /\ l.blind /\ l.out = "none"
    BY <1>1, <2>1 DEF Request, Kept, Shape
  <2>3. Shape(l)  BY <1>1, <2>2 DEF Shape, Kept
  <2>4. QED  BY <1>1, <1>5, <2>1, <2>2, <2>3, SetLocal DEF Local
<1>6. QED  BY <1>2, <1>4, <1>5 DEF ReadListScope

\* A handler that has found something to show answers.
LEMMA AnswerFacts ==
    ASSUME Typed, NEW r \in Req, NEW a, a = Answer(req[r], "ok")
    PROVE  /\ a \in Request /\ Answered(req[r], a, "ok") /\ a.pc = "done" /\ a.out = "ok"
           /\ a.blind = req[r].blind /\ a.shown = req[r].shown
<1>1. req[r] \in Request  BY ReqLocal DEF Local
<1>2. a \in Request
  <2>1. "done" \in PC /\ "ok" \in {"none", "ok", "refused", "error"}  BY DEF PC
  <2>2. QED  BY <1>1, <2>1 DEF Answer, Request
<1>3. QED  BY <1>1, <1>2 DEF Answer, Answered, Kept, Request

LEMMA ShowsLocal ==
    ASSUME Typed, NEW r \in Req, req[r].pc \in {"page", "check", "match"},
           NEW l \in Request, Answered(req[r], l, "ok"), Set(r, l)
    PROVE  OnlyOf(r) /\ req'[r] = l
<1>1. Shape(req[r])  BY ReqLocal DEF Local
<1>2. Shape(l)  BY <1>1 DEF Shape, Answered, Kept
<1>3. QED  BY <1>2, SetLocal DEF Local

LEMMA ShownLocal ==
    ASSUME Typed, NEW r \in Req, req[r].pc \in {"page", "check", "match"},
           NEW shown \in SUBSET Resource,
           Set(r, [Answer(req[r], "ok") EXCEPT !.shown = shown])
    PROVE  /\ OnlyOf(r) /\ Answered(req[r], req'[r], "ok")
           /\ req'[r].shown = shown /\ req'[r].blind = req[r].blind
<1>1. PICK a : a = Answer(req[r], "ok")  OBVIOUS
<1>2. PICK l : l = [a EXCEPT !.shown = shown]  OBVIOUS
<1>3. a \in Request /\ Answered(req[r], a, "ok") /\ a.blind = req[r].blind
  BY <1>1, AnswerFacts
<1>4. l \in Request  BY <1>2, <1>3 DEF Request
<1>5. Answered(req[r], l, "ok") /\ l.shown = shown /\ l.blind = req[r].blind
  BY <1>2, <1>3 DEF Answered, Kept, Request
<1>6. Set(r, l)  BY <1>1, <1>2
<1>7. QED  BY <1>4, <1>5, <1>6, ShowsLocal

LEMMA BlindLocal ==
    ASSUME Typed, NEW r \in Req, req[r].pc \in {"page", "check", "match"},
           Set(r, [Answer(req[r], "ok") EXCEPT !.blind = TRUE])
    PROVE  OnlyOf(r) /\ Answered(req[r], req'[r], "ok") /\ req'[r].blind
<1>1. PICK a : a = Answer(req[r], "ok")  OBVIOUS
<1>2. PICK l : l = [a EXCEPT !.blind = TRUE]  OBVIOUS
<1>3. a \in Request /\ Answered(req[r], a, "ok")  BY <1>1, AnswerFacts
<1>4. l \in Request  BY <1>2, <1>3 DEF Request
<1>5. Answered(req[r], l, "ok") /\ l.blind
  BY <1>2, <1>3 DEF Answered, Kept, Request
<1>6. Set(r, l)  BY <1>1, <1>2
<1>7. QED  BY <1>4, <1>5, <1>6, ShowsLocal

LEMMA PageLocal ==
    ASSUME Typed, NEW r \in Req, ListPage(r)
    PROVE  /\ OnlyOf(r) /\ req[r].pc = "page"
           /\ \/ Answered(req[r], req'[r], "error")
              \/ /\ Answered(req[r], req'[r], "ok")
                 /\ req'[r].shown = list_searches_page(r) /\ req'[r].blind = req[r].blind
<1>1. req[r].pc = "page" /\ req[r] \in Request  BY ReqLocal DEF Local, ListPage, At
<1>2. list_searches_page(r) \in SUBSET Resource  BY DEF list_searches_page, Resource
<1>3. CASE Set(r, [Answer(req[r], "ok") EXCEPT !.shown = list_searches_page(r)])
  BY <1>1, <1>2, <1>3, ShownLocal
<1>4. CASE Ends(r, "error")
  BY <1>1, <1>4, EndsLocal
<1>5. QED  BY <1>1, <1>3, <1>4 DEF ListPage

LEMMA ViewLocal ==
    ASSUME Typed, NEW r \in Req, View(r)
    PROVE  /\ OnlyOf(r) /\ req[r].pc = "view"
           /\ Answered(req[r], req'[r], "ok") \/ Answered(req[r], req'[r], "error")
<1>1. req[r].pc = "view" /\ Shape(req[r])  BY ReqLocal DEF Local, View, At
<1>2. req[r].op # "enroll"  BY <1>1 DEF Shape
<1>3. CASE Ends(r, "ok")  BY <1>1, <1>2, <1>3, EndsLocal
<1>4. CASE Ends(r, "error")  BY <1>1, <1>4, EndsLocal
<1>5. QED  BY <1>3, <1>4 DEF View

LEMMA EnrollLocal ==
    ASSUME Typed, NEW r \in Req, NEW t \in Template, NEW o \in Outcome, EnrollTemplate(r, t, o)
    PROVE  /\ OnlyOf(r) /\ Kept(req[r], req'[r]) /\ req[r].pc = "enroll"
           /\ \/ req'[r].pc = "done" /\ req'[r].out = "error"
              \/ /\ req'[r].pc = "record" /\ req'[r].out = "none" /\ req'[r].tmpl = t
                 /\ templates' = insert_template(templates, t, req[r].on, req[r].look, mode)
<1>1. req[r] \in Request /\ Shape(req[r]) /\ req[r].pc = "enroll" /\ "record" \in PC
  BY ReqLocal DEF Local, EnrollTemplate, At, PC
<1>2. req[r].op = "enroll" /\ req[r].out = "none"  BY <1>1 DEF Shape
<1>3. CASE Ends(r, "error")
  BY <1>1, <1>3, EndsLocal DEF Answered
<1>4. CASE /\ Set(r, [req[r] EXCEPT !.pc = "record", !.tmpl = t])
           /\ templates' = insert_template(templates, t, req[r].on, req[r].look, mode)
  <2>1. PICK l : l = [req[r] EXCEPT !.pc = "record", !.tmpl = t]  OBVIOUS
  <2>2. l \in Request /\ Kept(req[r], l) /\ l.pc = "record" /\ l.tmpl = t /\ l.out = "none"
    BY <1>1, <1>2, <2>1 DEF Request, Kept
  <2>3. Shape(l)  BY <1>1, <1>2, <2>2 DEF Shape, Kept
  <2>4. QED  BY <1>1, <1>4, <2>1, <2>2, <2>3, SetLocal DEF Local
<1>5. QED  BY <1>3, <1>4 DEF EnrollTemplate, Effect, Ends

LEMMA RevokeLocal ==
    ASSUME Typed, NEW r \in Req, NEW o \in Outcome, RevokeTemplate(r, o)
    PROVE  /\ OnlyOf(r) /\ Kept(req[r], req'[r]) /\ req[r].pc = "revoke"
           /\ \/ req'[r].pc = "done" /\ req'[r].out = "error"
              \/ /\ req'[r].pc = "record" /\ req'[r].out = "none" /\ req'[r].tmpl = req[r].tmpl
                 /\ Revocable(templates, req[r].tmpl)
                 /\ templates' = revoke_template(templates, req[r].tmpl)
<1>1. req[r] \in Request /\ Shape(req[r]) /\ req[r].pc = "revoke"
  BY ReqLocal DEF Local, RevokeTemplate, At
<1>2. req[r].op = "revoke" /\ req[r].out = "none"  BY <1>1 DEF Shape
<1>3. CASE Ends(r, "error")
  BY <1>1, <1>3, EndsLocal DEF Answered
<1>4. CASE /\ Goes(r, "record") /\ Revocable(templates, req[r].tmpl)
           /\ templates' = revoke_template(templates, req[r].tmpl)
  <2>1. PICK l : l = [req[r] EXCEPT !.pc = "record"]  OBVIOUS
  <2>2. /\ l.pc = "record" /\ l.op = "revoke" /\ l.on = req[r].on /\ l.out = "none"
        /\ l.who = req[r].who /\ l.tmpl = req[r].tmpl /\ l.look = req[r].look
    BY <1>1, <1>2, <2>1 DEF Request
  <2>3. Shape(l)  BY <1>1, <1>2, <2>2 DEF Shape
  <2>4. "record" \in PC \ {"done"} /\ req[r].pc # "done"  BY <1>1 DEF PC
  <2>5. QED  BY <1>1, <1>2, <1>4, <2>1, <2>3, <2>4, GoesLocal
<1>5. QED  BY <1>3, <1>4 DEF RevokeTemplate, Effect

LEMMA SaveLocal ==
    ASSUME Typed, NEW r \in Req, NEW o \in Outcome, SaveMandatory(r, o)
    PROVE  /\ OnlyOf(r) /\ Kept(req[r], req'[r]) /\ req[r].pc = "record"
           /\ req'[r].tmpl = req[r].tmpl /\ req'[r].org = req[r].org
           /\ req'[r].blind = req[r].blind
           /\ \/ req'[r].pc = "done" /\ req'[r].out = "error"
              \/ /\ log' = log \cup {RecordOf(req[r])}
                 /\ IF req[r].op = "enroll" THEN req'[r].pc = "check" /\ req'[r].out = "none"
                    ELSE req'[r].pc = "done" /\ req'[r].out = "ok"
<1>1. req[r] \in Request /\ Shape(req[r]) /\ req[r].pc = "record"
  BY ReqLocal DEF Local, SaveMandatory, At
<1>2. req[r].op \in {"create", "enroll", "revoke"} /\ req[r].out = "none"  BY <1>1 DEF Shape
<1>3. CASE Ends(r, "error")
  BY <1>1, <1>3, EndsLocal DEF Answered, Kept
<1>4. CASE o = "ok" /\ req[r].op = "enroll"
  <2>1. PICK l : l = [req[r] EXCEPT !.pc = "check"]  OBVIOUS
  <2>2. /\ l.pc = "check" /\ l.op = "enroll" /\ l.on = req[r].on /\ l.out = "none"
        /\ l.who = req[r].who /\ l.tmpl = req[r].tmpl /\ l.look = req[r].look
    BY <1>1, <1>2, <1>4, <2>1 DEF Request
  <2>3. Shape(l)  BY <1>1, <1>4, <2>2 DEF Shape
  <2>4. "check" \in PC \ {"done"} /\ req[r].pc # "done"  BY <1>1 DEF PC
  <2>5. Goes(r, "check") /\ log' = log \cup {RecordOf(req[r])}
    BY <1>4 DEF SaveMandatory, AfterRecord, Effect
  <2>6. QED  BY <1>1, <1>2, <1>4, <2>1, <2>3, <2>4, <2>5, GoesLocal
<1>5. CASE o = "ok" /\ req[r].op # "enroll"
  <2>1. Ends(r, "ok") /\ log' = log \cup {RecordOf(req[r])}
    BY <1>5 DEF SaveMandatory, AfterRecord, Effect
  <2>2. QED  BY <1>1, <1>5, <2>1, EndsLocal DEF Answered, Kept
<1>6. QED  BY <1>3, <1>4, <1>5 DEF SaveMandatory, AfterRecord

\* Only candidates of templates in the table are ranked.
LEMMA MatchesTyped ==
    ASSUME Typed, NEW ts, ts \subseteq list_active_templates(templates), NEW l, NEW k,
           NEW m \in top_k_matches(templates, ts, l, k)
    PROVE  m \in SUBSET Resource
<1>1. m \subseteq {templates[t].of : t \in ts}  BY DEF top_k_matches
<1>2. ASSUME NEW t \in ts PROVE templates[t].of \in Resource
  <2>1. t \in Template /\ templates[t].of # NoOne  BY DEF list_active_templates
  <2>2. templates[t] \in Row  BY <2>1 DEF Typed, TypeOK
  <2>3. QED  BY <2>1, <2>2 DEF Row, Resource
<1>3. QED  BY <1>1, <1>2

LEMMA CheckDuplicatesLocal ==
    ASSUME Typed, NEW r \in Req, CheckDuplicates(r)
    PROVE  /\ OnlyOf(r) /\ Answered(req[r], req'[r], "ok") /\ req[r].pc = "check"
           /\ req'[r].blind \/ req'[r].shown \in possible_duplicates(r)
<1>1. req[r] \in Request /\ req[r].pc = "check"
  BY ReqLocal DEF Local, CheckDuplicates, At
<1>2. ASSUME NEW shown \in possible_duplicates(r) PROVE shown \in SUBSET Resource
  <2>1. OfOthers(r) \subseteq list_active_templates(templates)  BY DEF OfOthers
  <2>2. PICK m \in top_k_matches(templates, OfOthers(r), req[r].look, warned_k) : shown \subseteq m
    BY DEF possible_duplicates, WarnedAmong
  <2>3. QED  BY <2>1, <2>2, MatchesTyped
<1>4. ASSUME NEW shown \in possible_duplicates(r),
             Set(r, [Answer(req[r], "ok") EXCEPT !.shown = shown])
      PROVE  OnlyOf(r) /\ Answered(req[r], req'[r], "ok") /\ req'[r].shown = shown
  BY <1>1, <1>2, <1>4, ShownLocal
<1>5. CASE Set(r, [Answer(req[r], "ok") EXCEPT !.blind = TRUE])
  BY <1>1, <1>5, BlindLocal
<1>6. QED  BY <1>1, <1>4, <1>5 DEF CheckDuplicates

LEMMA MatchLocal ==
    ASSUME Typed, NEW r \in Req, MatchProbe(r)
    PROVE  /\ OnlyOf(r) /\ req[r].pc = "match"
           /\ \/ Answered(req[r], req'[r], "error")
              \/ \E found \in search_top_k(templates, req[r].look, mode) :
                     /\ Answered(req[r], req'[r], "ok")
                     /\ req'[r].shown \subseteq found
                     /\ req'[r].blind \/ req'[r].shown = found
                     /\ req'[r].via = mode
<1>1. req[r] \in Request /\ req[r].pc = "match"
  BY ReqLocal DEF Local, MatchProbe, At
<1>3. ASSUME NEW found \in search_top_k(templates, req[r].look, mode)
      PROVE  found \in SUBSET Resource
  <2>1. PICK ts : /\ ts \subseteq list_active_templates(templates)
                  /\ found \in top_k_matches(templates, ts, req[r].look, top_k)
    BY DEF search_top_k, search_top_k_indexed
  <2>2. QED  BY <2>1, MatchesTyped
<1>4. mode \in Via  BY DEF Typed, TypeOK, Via
<1>5. PICK a : a = Answer(req[r], "ok")  OBVIOUS
<1>6. ASSUME NEW found \in search_top_k(templates, req[r].look, mode),
             Set(r, [a EXCEPT !.shown = found, !.blind = FALSE, !.via = mode])
      PROVE  OnlyOf(r) /\ Answered(req[r], req'[r], "ok") /\ req'[r].shown = found
             /\ req'[r].via = mode
  <2>1. PICK l : l = [a EXCEPT !.shown = found, !.blind = FALSE, !.via = mode]  OBVIOUS
  <2>2. a \in Request /\ Answered(req[r], a, "ok")  BY <1>5, AnswerFacts
  <2>3. l \in Request  BY <1>3, <1>4, <2>1, <2>2 DEF Request
  <2>4. Answered(req[r], l, "ok") /\ l.shown = found /\ l.via = mode
    BY <2>1, <2>2 DEF Answered, Kept, Request
  <2>5. QED  BY <1>1, <1>6, <2>1, <2>3, <2>4, ShowsLocal
<1>7. ASSUME NEW found \in search_top_k(templates, req[r].look, mode), NEW c \in found,
             Set(r, [a EXCEPT !.shown = found \ {c}, !.blind = TRUE, !.via = mode])
      PROVE  OnlyOf(r) /\ Answered(req[r], req'[r], "ok") /\ req'[r].shown \subseteq found
             /\ req'[r].blind /\ req'[r].via = mode
  <2>1. PICK shown : shown = found \ {c}  OBVIOUS
  <2>2. PICK l : l = [a EXCEPT !.shown = shown, !.blind = TRUE, !.via = mode]  OBVIOUS
  <2>3. a \in Request /\ Answered(req[r], a, "ok")  BY <1>5, AnswerFacts
  <2>4. shown \in SUBSET Resource  BY <1>3, <2>1
  <2>5. l \in Request  BY <1>4, <2>2, <2>3, <2>4 DEF Request
  <2>6. Answered(req[r], l, "ok") /\ l.shown = shown /\ l.blind /\ l.via = mode
    BY <2>2, <2>3 DEF Answered, Kept, Request
  <2>7. Set(r, l)  BY <1>7, <2>1, <2>2
  <2>8. OnlyOf(r) /\ req'[r] = l  BY <1>1, <2>5, <2>6, <2>7, ShowsLocal
  <2>9. QED  BY <2>1, <2>6, <2>8
<1>8. CASE Ends(r, "error")
  BY <1>1, <1>8, EndsLocal
<1>9. QED  BY <1>1, <1>5, <1>6, <1>7, <1>8 DEF MatchProbe

LEMMA ReadEvidenceLocal ==
    ASSUME Typed, NEW r \in Req, ReadEvidence(r)
    PROVE  /\ OnlyOf(r) /\ Kept(req[r], req'[r]) /\ req[r].pc = "collect"
           /\ req'[r].pc = "store" /\ req'[r].out = "none"
           /\ \/ /\ req'[r].seen = dedupe_keys(list_evidence_for_candidate(evidence, req[r].on))
                 /\ req'[r].over = RunsOver(req[r].on)
              \/ req'[r].over = req[r].over
<1>1. req[r] \in Request /\ Shape(req[r]) /\ req[r].pc = "collect" /\ "store" \in PC
  BY ReqLocal DEF Local, ReadEvidence, At, PC
<1>2. PICK keys : keys = dedupe_keys(list_evidence_for_candidate(evidence, req[r].on))
  OBVIOUS
<1>3. PICK over : over = RunsOver(req[r].on)  OBVIOUS
<1>4. keys \in SUBSET {KeyOf[i] : i \in Item} /\ over \in SUBSET Nat
  <2>1. \A e \in evidence : e.item \in Item /\ e.run \in Nat
    BY DEF Typed, TypeOK, EvidenceRow
  <2>2. QED  BY <1>2, <1>3, <2>1 DEF dedupe_keys, list_evidence_for_candidate, RunsOver
<1>5. ASSUME NEW items \in SUBSET Item,
             Set(r, [req[r] EXCEPT !.pc = "store", !.todo = items, !.seen = keys, !.over = over])
      PROVE  /\ OnlyOf(r) /\ Kept(req[r], req'[r]) /\ req'[r].pc = "store"
             /\ req'[r].out = "none" /\ req'[r].seen = keys /\ req'[r].over = over
  <2>1. PICK l : l = [req[r] EXCEPT !.pc = "store", !.todo = items, !.seen = keys,
                                    !.over = over]
    OBVIOUS
  <2>2. l \in Request  BY <1>1, <1>4, <2>1 DEF Request
  <2>3. Kept(req[r], l) /\ l.pc = "store" /\ l.out = "none" /\ l.seen = keys /\ l.over = over
    BY <1>1, <2>1 DEF Request, Kept, Shape
  <2>4. Shape(l)  BY <1>1, <2>3 DEF Shape, Kept
  <2>5. QED  BY <1>5, <2>1, <2>2, <2>3, <2>4, SetLocal DEF Local
<1>6. ASSUME NEW items \in SUBSET Item,
             Set(r, [req[r] EXCEPT !.pc = "store", !.todo = items, !.blind = TRUE])
      PROVE  /\ OnlyOf(r) /\ Kept(req[r], req'[r]) /\ req'[r].pc = "store"
             /\ req'[r].out = "none" /\ req'[r].over = req[r].over
  <2>1. PICK l : l = [req[r] EXCEPT !.pc = "store", !.todo = items, !.blind = TRUE]  OBVIOUS
  <2>2. l \in Request  BY <1>1, <2>1 DEF Request
  <2>3. Kept(req[r], l) /\ l.pc = "store" /\ l.out = "none" /\ l.over = req[r].over
    BY <1>1, <2>1 DEF Request, Kept, Shape
  <2>4. Shape(l)  BY <1>1, <2>3 DEF Shape, Kept
  <2>5. QED  BY <1>6, <2>1, <2>2, <2>3, <2>4, SetLocal DEF Local
<1>7. QED  BY <1>1, <1>2, <1>3, <1>5, <1>6 DEF ReadEvidence

LEMMA StoreLocal ==
    ASSUME Typed, NEW r \in Req, NEW i \in Item, NEW o \in Outcome, StoreItem(r, i, o)
    PROVE  /\ OnlyOf(r) /\ Kept(req[r], req'[r]) /\ req[r].pc = "store"
           /\ req'[r].pc = "store" /\ req'[r].out = "none"
           /\ req'[r].seen = req[r].seen \cup {KeyOf[i]} /\ req'[r].over = req[r].over
<1>1. req[r] \in Request /\ Shape(req[r]) /\ req[r].pc = "store"
  BY ReqLocal DEF Local, StoreItem, At
<1>2. PICK l : l = MarkSeen(req[r], i)  OBVIOUS
<1>3. /\ Kept(req[r], l) /\ l.pc = "store" /\ l.out = "none" /\ l.over = req[r].over
      /\ l.seen = req[r].seen \cup {KeyOf[i]}
  BY <1>1, <1>2 DEF Request, Kept, Shape, MarkSeen
<1>4. l \in Request  BY <1>1, <1>2 DEF Request, MarkSeen
<1>5. Shape(l)  BY <1>1, <1>3 DEF Shape, Kept
<1>6. QED  BY <1>1, <1>2, <1>3, <1>4, <1>5, SetLocal DEF Local, StoreItem

LEMMA CollectedLocal ==
    ASSUME Typed, NEW r \in Req, Collected(r)
    PROVE  OnlyOf(r) /\ Answered(req[r], req'[r], "ok") /\ req[r].pc = "store"
<1>1. req[r].pc = "store" /\ Shape(req[r])  BY ReqLocal DEF Local, Collected, At
<1>2. req[r].op = "collect"  BY <1>1 DEF Shape
<1>3. QED  BY <1>1, <1>2, EndsLocal DEF Collected

LEMMA DropLocal ==
    ASSUME Typed, NEW r \in Req, Drop(r)
    PROVE  OnlyOf(r) /\ req'[r] = Idle
BY IdleLocal, SetLocal DEF Drop

-----------------------------------------------------------------------------
\* Requests that arrive.

Arrives(r) ==
    \/ \E u \in User : \/ \E x \in Resource : BeginCreate(r, u, x) \/ BeginView(r, u, x)
                       \/ \E c \in Candidate : \/ \E l \in Look : BeginEnroll(r, u, c, l)
                                               \/ \E t \in Template : BeginRevoke(r, u, c, t)
                                               \/ BeginCollect(r, u, c) \/ BeginRead(r, u, c)
                       \/ BeginList(r, u)
    \/ \E l \in Look : BeginMatch(r, l)
    \/ \E c \in Candidate : BeginAutoCollect(r, c)

\* What a request is when it arrives.
Arrived(l) ==
    /\ l.out = "none"
    /\ \/ /\ l.op = "create" /\ l.pc = "primary" /\ l.who \in User
          /\ owner[l.on] = "absent" /\ \A q \in Req : req[q].op = "create" => req[q].on # l.on
       \/ l.op \in Scoped /\ l.pc = "scope" /\ l.who \in User /\ owner[l.on] # "absent"
       \/ l.op = "collect" /\ l.pc = "collect" /\ l.who = None /\ owner[l.on] # "absent"
       \/ l.op = "read" /\ l.pc = "view" /\ l.who \in User
       \/ l.op = "list" /\ l.pc = "list" /\ l.who \in User
       \/ /\ l.op = "match" /\ l.pc = "match" /\ l.who = None
          /\ l.told = {t \in Template : templates[t].told}
          /\ l.gone = {t \in Template : templates[t].revoked}
    /\ l.who \in User => l.held = {belongs[l.who]}
    /\ l.op = "collect" => l.run = begun + 1
    /\ l.over = {}

LEMMA BeginLocal ==
    ASSUME Typed, NEW r \in Req, NEW l, Local(l), Begin(r, l)
    PROVE  /\ OnlyOf(r) /\ req'[r] = l /\ Free(r) /\ begun' = begun + 1
           /\ UNCHANGED <<backend, mode, tables, belongs>>
BY SetLocal DEF Begin

LEMMA AsksShape ==
    ASSUME Typed, NEW op \in Ops \ {"move", "match"}, NEW pc \in PC, NEW u \in User,
           NEW x \in Resource \cup {None}, NEW l, l = Asks(op, pc, u, x)
    PROVE  /\ l \in Request /\ l.op = op /\ l.pc = pc /\ l.who = u /\ l.on = x /\ l.out = "none"
           /\ l.held = {belongs[u]} /\ l.over = {} /\ l.org = None /\ ~l.blind
<1>1. l \in Request /\ l.op = op /\ l.pc = pc /\ l.who = u /\ l.on = x /\ l.out = "none"
      /\ l.held = {belongs[u]}
  BY AsksLocal
<1>2. l.over = {} /\ l.org = None /\ ~l.blind  BY DEF Asks, Idle
<1>3. QED  BY <1>1, <1>2

LEMMA ArrivesLocal ==
    ASSUME Typed, NEW r \in Req, Arrives(r)
    PROVE  /\ OnlyOf(r) /\ Arrived(req'[r]) /\ Free(r) /\ begun' = begun + 1
           /\ UNCHANGED <<backend, mode, tables, belongs>>
<1> USE RegistryAssumption
<1>0. "primary" \in PC /\ "scope" \in PC /\ "list" \in PC /\ "collect" \in PC /\ "match" \in PC
      /\ "view" \in PC
  BY DEF PC
<1>1. "create" \in Ops \ {"move", "match"} /\ "enroll" \in Ops \ {"move", "match"}
      /\ "revoke" \in Ops \ {"move", "match"} /\ "collect" \in Ops \ {"move", "match"}
      /\ "view" \in Ops \ {"move", "match"} /\ "list" \in Ops \ {"move", "match"}
      /\ "read" \in Ops \ {"move", "match"}
      /\ Candidate \subseteq Resource
  BY DEF Ops, Resource
<1>2. ASSUME NEW u \in User, NEW x \in Resource, BeginCreate(r, u, x)
      PROVE  OnlyOf(r) /\ Arrived(req'[r])
  <2>1. PICK l : l = Asks("create", "primary", u, x)  OBVIOUS
  <2>2. /\ l \in Request /\ l.op = "create" /\ l.pc = "primary" /\ l.who = u /\ l.on = x
        /\ l.out = "none" /\ l.held = {belongs[u]} /\ l.over = {} /\ l.org = None
    BY <1>0, <1>1, <2>1, AsksShape
  <2>3. Shape(l)  BY <2>2 DEF Shape
  <2>4. Arrived(l)  BY <1>2, <2>2 DEF Arrived, BeginCreate
  <2>5. QED  BY <1>2, <2>1, <2>2, <2>3, <2>4, BeginLocal DEF BeginCreate, Local
<1>3. ASSUME NEW u \in User, NEW x \in Resource, BeginView(r, u, x)
      PROVE  OnlyOf(r) /\ Arrived(req'[r])
  <2>1. PICK l : l = Asks("view", "scope", u, x)  OBVIOUS
  <2>2. /\ l \in Request /\ l.op = "view" /\ l.pc = "scope" /\ l.who = u /\ l.on = x
        /\ l.out = "none" /\ l.held = {belongs[u]} /\ l.over = {} /\ l.org = None
    BY <1>0, <1>1, <2>1, AsksShape
  <2>3. Shape(l)  BY <2>2 DEF Shape, Scoped
  <2>4. Arrived(l)  BY <1>3, <2>2 DEF Arrived, BeginView, Scoped
  <2>5. QED  BY <1>3, <2>1, <2>2, <2>3, <2>4, BeginLocal DEF BeginView, Local
<1>4. ASSUME NEW u \in User, NEW c \in Candidate, NEW k \in Look, BeginEnroll(r, u, c, k)
      PROVE  OnlyOf(r) /\ Arrived(req'[r])
  <2>1. PICK a : a = Asks("enroll", "scope", u, c)  OBVIOUS
  <2>2. /\ a \in Request /\ a.op = "enroll" /\ a.pc = "scope" /\ a.who = u /\ a.on = c
        /\ a.out = "none" /\ a.held = {belongs[u]} /\ a.over = {} /\ a.org = None
    BY <1>0, <1>1, <2>1, AsksShape
  <2>3. PICK l : l = [a EXCEPT !.look = k]  OBVIOUS
  <2>4. l \in Request  BY <2>2, <2>3 DEF Request
  <2>5. /\ l.op = "enroll" /\ l.pc = "scope" /\ l.who = u /\ l.on = c /\ l.look = k
        /\ l.out = "none" /\ l.held = {belongs[u]} /\ l.over = {} /\ l.org = None
    BY <2>2, <2>3 DEF Request
  <2>6. Shape(l)  BY <2>5 DEF Shape, Scoped
  <2>7. Arrived(l)  BY <1>4, <2>5 DEF Arrived, BeginEnroll, Scoped
  <2>8. QED  BY <1>4, <2>1, <2>3, <2>4, <2>6, <2>7, BeginLocal DEF BeginEnroll, Local
<1>5. ASSUME NEW u \in User, NEW c \in Candidate, NEW t \in Template, BeginRevoke(r, u, c, t)
      PROVE  OnlyOf(r) /\ Arrived(req'[r])
  <2>1. PICK a : a = Asks("revoke", "scope", u, c)  OBVIOUS
  <2>2. /\ a \in Request /\ a.op = "revoke" /\ a.pc = "scope" /\ a.who = u /\ a.on = c
        /\ a.out = "none" /\ a.held = {belongs[u]} /\ a.over = {} /\ a.org = None
    BY <1>0, <1>1, <2>1, AsksShape
  <2>3. PICK l : l = [a EXCEPT !.tmpl = t]  OBVIOUS
  <2>4. l \in Request  BY <2>2, <2>3 DEF Request
  <2>5. /\ l.op = "revoke" /\ l.pc = "scope" /\ l.who = u /\ l.on = c /\ l.tmpl = t
        /\ l.out = "none" /\ l.held = {belongs[u]} /\ l.over = {} /\ l.org = None
    BY <2>2, <2>3 DEF Request
  <2>6. Shape(l)  BY <2>5 DEF Shape, Scoped
  <2>7. Arrived(l)  BY <1>5, <2>5 DEF Arrived, BeginRevoke, Scoped
  <2>8. QED  BY <1>5, <2>1, <2>3, <2>4, <2>6, <2>7, BeginLocal DEF BeginRevoke, Local
<1>6. ASSUME NEW u \in User, NEW c \in Candidate, BeginCollect(r, u, c)
      PROVE  OnlyOf(r) /\ Arrived(req'[r])
  <2>1. PICK a : a = Asks("collect", "scope", u, c)  OBVIOUS
  <2>2. /\ a \in Request /\ a.op = "collect" /\ a.pc = "scope" /\ a.who = u /\ a.on = c
        /\ a.out = "none" /\ a.held = {belongs[u]} /\ a.over = {} /\ a.org = None
    BY <1>0, <1>1, <2>1, AsksShape
  <2>3. PICK l : l = [a EXCEPT !.run = begun + 1]  OBVIOUS
  <2>4. begun + 1 \in Nat  BY DEF Typed, TypeOK
  <2>5. l \in Request  BY <2>2, <2>3, <2>4 DEF Request
  <2>6. /\ l.op = "collect" /\ l.pc = "scope" /\ l.who = u /\ l.on = c /\ l.run = begun + 1
        /\ l.out = "none" /\ l.held = {belongs[u]} /\ l.over = {} /\ l.org = None
    BY <2>2, <2>3 DEF Request
  <2>7. Shape(l)  BY <2>6 DEF Shape, Scoped
  <2>8. Arrived(l)  BY <1>6, <2>6 DEF Arrived, BeginCollect, Scoped
  <2>9. QED  BY <1>6, <2>1, <2>3, <2>5, <2>7, <2>8, BeginLocal DEF BeginCollect, Local
<1>7. ASSUME NEW u \in User, BeginList(r, u)
      PROVE  OnlyOf(r) /\ Arrived(req'[r])
  <2>1. PICK l : l = Asks("list", "list", u, None)  OBVIOUS
  <2>2. /\ l \in Request /\ l.op = "list" /\ l.pc = "list" /\ l.who = u /\ ~l.blind
        /\ l.out = "none" /\ l.held = {belongs[u]} /\ l.over = {} /\ l.org = None
    BY <1>0, <1>1, <2>1, AsksShape
  <2>3. Shape(l)  BY <2>2 DEF Shape
  <2>4. Arrived(l)  BY <1>7, <2>2 DEF Arrived
  <2>5. QED  BY <1>7, <2>1, <2>2, <2>3, <2>4, BeginLocal DEF BeginList, Local
<1>8. ASSUME NEW k \in Look, BeginMatch(r, k)
      PROVE  OnlyOf(r) /\ Arrived(req'[r])
  <2>1. PICK told : told = {t \in Template : templates[t].told}  OBVIOUS
  <2>2. PICK gone : gone = {t \in Template : templates[t].revoked}  OBVIOUS
  <2>3. PICK l : l = [Idle EXCEPT !.op = "match", !.pc = "match", !.look = k,
                                  !.told = told, !.gone = gone]
    OBVIOUS
  <2>4. Idle \in Request /\ "match" \in Ops \ {"move"} /\ told \subseteq Template
        /\ gone \subseteq Template
    BY <2>1, <2>2, IdleLocal DEF Local, Ops
  <2>5. l \in Request  BY <1>0, <2>3, <2>4 DEF Request
  <2>6. /\ l.op = "match" /\ l.pc = "match" /\ l.look = k /\ l.told = told /\ l.gone = gone
        /\ l.who = None /\ l.out = "none" /\ l.over = {}
    BY <2>3 DEF Idle
  <2>7. Shape(l)  BY <2>6 DEF Shape
  <2>8. Arrived(l)  BY <2>1, <2>2, <2>6 DEF Arrived
  <2>9. Begin(r, l)  BY <1>8, <2>1, <2>2, <2>3 DEF BeginMatch
  <2>10. QED  BY <2>5, <2>7, <2>8, <2>9, BeginLocal DEF Local
<1>9. ASSUME NEW c \in Candidate, BeginAutoCollect(r, c)
      PROVE  OnlyOf(r) /\ Arrived(req'[r])
  <2>1. PICK l : l = [Idle EXCEPT !.op = "collect", !.pc = "collect", !.on = c, !.run = begun + 1]
    OBVIOUS
  <2>2. Idle \in Request /\ "collect" \in Ops \ {"move"} /\ begun + 1 \in Nat
    BY IdleLocal DEF Local, Ops, Typed, TypeOK
  <2>3. l \in Request  BY <1>0, <1>1, <2>1, <2>2 DEF Request
  <2>4. /\ l.op = "collect" /\ l.pc = "collect" /\ l.on = c /\ l.run = begun + 1
        /\ l.who = None /\ l.out = "none" /\ l.over = {}
    BY <2>1 DEF Idle
  <2>5. Shape(l)  BY <2>4 DEF Shape
  <2>6. Arrived(l)  BY <1>9, <2>4 DEF Arrived, BeginAutoCollect
  <2>7. QED  BY <1>9, <2>1, <2>3, <2>5, <2>6, BeginLocal DEF BeginAutoCollect, Local
<1>10. ASSUME NEW u \in User, NEW c \in Candidate, BeginRead(r, u, c)
       PROVE  OnlyOf(r) /\ Arrived(req'[r])
  <2>1. PICK l : l = Asks("read", "view", u, c)  OBVIOUS
  <2>2. /\ l \in Request /\ l.op = "read" /\ l.pc = "view" /\ l.who = u /\ l.on = c
        /\ l.out = "none" /\ l.held = {belongs[u]} /\ l.over = {} /\ l.org = None
    BY <1>0, <1>1, <2>1, AsksShape
  <2>3. Shape(l)  BY <1>1, <2>2 DEF Shape
  <2>4. Arrived(l)  BY <2>2 DEF Arrived
  <2>5. QED  BY <1>10, <2>1, <2>2, <2>3, <2>4, BeginLocal DEF BeginRead, Local
<1>11. Free(r) /\ begun' = begun + 1 /\ UNCHANGED <<backend, mode, tables, belongs>>
  BY DEF Arrives, BeginCreate, BeginView, BeginRead, BeginEnroll, BeginRevoke, BeginCollect,
         BeginList, BeginMatch, BeginAutoCollect, Begin
<1>12. QED
  BY <1>2, <1>3, <1>4, <1>5, <1>6, <1>7, <1>8, <1>9, <1>10, <1>11 DEF Arrives

-----------------------------------------------------------------------------
\* The steps, sorted.

Moves ==
    \E u \in User, org \in Org, o \in Outcome :
        \/ \E unit \in Place : assign_membership_route(u, org, unit, o)
        \/ remove_membership_route(u, org, o)

Acts(r) ==
    \/ StampOwner(r) \/ CheckScope(r) \/ View(r) \/ ReadListScope(r) \/ ListPage(r)
    \/ CheckDuplicates(r) \/ MatchProbe(r) \/ ReadEvidence(r) \/ Collected(r) \/ Drop(r)
    \/ \E o \in Outcome :
        \/ InsertResource(r, o) \/ RevokeTemplate(r, o) \/ SaveMandatory(r, o)
        \/ \E t \in Template : EnrollTemplate(r, t, o)
        \/ \E i \in Item : StoreItem(r, i, o)

LEMMA NextCases ==
    Next => Moves \/ (\E r \in Req : Arrives(r) \/ Acts(r)) \/ Restart
<1> SUFFICES ASSUME Next PROVE Moves \/ (\E r \in Req : Arrives(r) \/ Acts(r)) \/ Restart
  OBVIOUS
<1>1. ASSUME NEW r \in Req, NEW u \in User,
             \/ \E x \in Resource : BeginCreate(r, u, x) \/ BeginView(r, u, x)
             \/ \E c \in Candidate :
                 \/ \E l \in Look : BeginEnroll(r, u, c, l)
                 \/ \E t \in Template : BeginRevoke(r, u, c, t)
                 \/ BeginCollect(r, u, c) \/ BeginRead(r, u, c)
             \/ BeginList(r, u)
      PROVE  Arrives(r)
  BY <1>1 DEF Arrives
<1>2. ASSUME NEW r \in Req, \/ \E l \in Look : BeginMatch(r, l)
                            \/ \E c \in Candidate : BeginAutoCollect(r, c)
      PROVE  Arrives(r)
  BY <1>2 DEF Arrives
<1>3. QED  BY <1>1, <1>2 DEF Next, Moves, Acts

-----------------------------------------------------------------------------
\* Types.

LEMMA TypedInit == Init => Typed
<1> SUFFICES ASSUME Init PROVE Typed
  OBVIOUS
<1> USE RegistryAssumption, GalleryAssumption
<1>1. /\ backend \in {"postgres", "sqlite"} /\ owner \in [Resource -> Owner]
      /\ asks \in [Ops -> Nat]
  BY DEF Init
<1>2. mode \in Mode /\ (backend = "sqlite" => mode = "bare")
  BY DEF Init, ensure_pgvector_index, Mode
<1>3. members \in Memberships  BY DEF Init, Memberships
<1>4. templates \in [Template -> Row]
  <2>1. NoRow \in Row  BY DEF NoRow, Row
  <2>2. Stored \subseteq Row  BY DEF Stored, Row
  <2>3. templates \in [Template -> Stored \cup {NoRow}]  BY DEF Init
  <2>4. QED  BY <2>1, <2>2, <2>3
<1>5. req \in [Req -> Request] /\ \A r \in Req : Shape(req[r])
  BY IdleLocal DEF Init, Local
<1>6. QED  BY <1>1, <1>2, <1>3, <1>4, <1>5 DEF Init, Typed, TypeOK

LEMMA AskTyped ==
    ASSUME Typed, NEW op \in Ops, Ask(op)
    PROVE  asks' \in [Ops -> Nat]
<1>1. asks \in [Ops -> Nat]  BY DEF Typed, TypeOK
<1>2. asks[op] - 1 \in Nat  BY <1>1 DEF Ask
<1>3. QED  BY <1>1, <1>2 DEF Ask

LEMMA HappensTyped ==
    ASSUME Typed, NEW o, Happens(o)
    PROVE  faults' \in Nat
BY DEF Happens, Typed, TypeOK

\* What a changed membership leaves of a request.
SameButHeld(l, m) ==
    /\ m.op = l.op /\ m.pc = l.pc /\ m.who = l.who /\ m.on = l.on /\ m.look = l.look
    /\ m.tmpl = l.tmpl /\ m.org = l.org /\ m.ids = l.ids /\ m.seen = l.seen
    /\ m.shown = l.shown /\ m.blind = l.blind /\ m.via = l.via /\ m.out = l.out
    /\ m.run = l.run /\ m.over = l.over /\ m.told = l.told /\ m.gone = l.gone

LEMMA TellLocal ==
    ASSUME Typed, NEW u \in User, NEW orgs \in SUBSET Org, NEW q, q = Tell(req, u, orgs)
    PROVE  /\ q \in [Req -> Request]
           /\ \A r \in Req :
                 /\ Shape(q[r]) /\ SameButHeld(req[r], q[r])
                 /\ q[r].held = IF req[r].who = u /\ req[r].pc # "done"
                                THEN req[r].held \cup {orgs} ELSE req[r].held
<1>1. ASSUME NEW r \in Req
      PROVE  /\ q[r] \in Request /\ Shape(q[r]) /\ SameButHeld(req[r], q[r])
             /\ q[r].held = IF req[r].who = u /\ req[r].pc # "done"
                            THEN req[r].held \cup {orgs} ELSE req[r].held
  <2>1. req[r] \in Request /\ Shape(req[r])  BY ReqLocal DEF Local
  <2>2. CASE req[r].who = u /\ req[r].pc # "done"
    <3>1. PICK h : h = req[r].held \cup {orgs}  OBVIOUS
    <3>2. h \in SUBSET SUBSET Org  BY <2>1, <3>1 DEF Request
    <3>3. q[r] = [req[r] EXCEPT !.held = h]  BY <2>2, <3>1 DEF Tell
    <3>4. q[r] \in Request  BY <2>1, <3>2, <3>3 DEF Request
    <3>5. SameButHeld(req[r], q[r]) /\ q[r].held = h
      BY <2>1, <3>3 DEF SameButHeld, Request
    <3>6. Shape(q[r])  BY <2>1, <3>5 DEF Shape, SameButHeld
    <3>7. QED  BY <2>2, <3>1, <3>4, <3>5, <3>6
  <2>3. CASE ~(req[r].who = u /\ req[r].pc # "done")
    <3>1. q[r] = req[r]  BY <2>3 DEF Tell
    <3>2. QED  BY <2>1, <2>3, <3>1 DEF SameButHeld
  <2>4. QED  BY <2>2, <2>3
<1>2. q = [r \in Req |-> q[r]]  BY DEF Tell
<1>3. QED  BY <1>1, <1>2

\* A membership is assigned or removed, or nothing happens.
LEMMA MovesFacts ==
    ASSUME Typed, Moves
    PROVE  /\ req' \in [Req -> Request]
           /\ \A r \in Req : Shape(req'[r]) /\ SameButHeld(req[r], req'[r])
           /\ UNCHANGED <<backend, mode, owner, templates, evidence, log, begun>>
           /\ members' \in Memberships /\ belongs' \in [User -> SUBSET Org]
           /\ asks' \in [Ops -> Nat] /\ faults' \in Nat
           /\ \A r \in Req : req[r].held \subseteq req'[r].held
           /\ \A r \in Req : req[r].who \in User /\ req[r].pc # "done" =>
                 belongs'[req[r].who] = belongs[req[r].who] \/ belongs'[req[r].who] \in req'[r].held
<1>1. ASSUME NEW u \in User, NEW orgs \in SUBSET Org, NEW o \in Outcome, Moved(u, orgs, o)
      PROVE  /\ req' \in [Req -> Request]
             /\ \A r \in Req : Shape(req'[r]) /\ SameButHeld(req[r], req'[r])
             /\ UNCHANGED <<backend, mode, owner, templates, evidence, log, begun>>
             /\ belongs' \in [User -> SUBSET Org] /\ asks' \in [Ops -> Nat] /\ faults' \in Nat
             /\ \A r \in Req : req[r].held \subseteq req'[r].held
             /\ \A r \in Req : req[r].who \in User /\ req[r].pc # "done" =>
                   \/ belongs'[req[r].who] = belongs[req[r].who]
                   \/ belongs'[req[r].who] \in req'[r].held
  <2>1. UNCHANGED <<backend, mode, owner, templates, evidence, log, begun>>
    BY <1>1 DEF Moved
  <2>2. asks' \in [Ops -> Nat] /\ faults' \in Nat
    BY <1>1, AskTyped, HappensTyped DEF Moved, Ops
  <2>3. CASE Effect(o)
    <3>1. belongs' = [belongs EXCEPT ![u] = orgs] /\ req' = Tell(req, u, orgs)
      BY <1>1, <2>3 DEF Moved
    <3>2. belongs' \in [User -> SUBSET Org]  BY <3>1 DEF Typed, TypeOK
    <3>3. /\ req' \in [Req -> Request]
          /\ \A r \in Req :
                /\ Shape(req'[r]) /\ SameButHeld(req[r], req'[r])
                /\ req'[r].held = IF req[r].who = u /\ req[r].pc # "done"
                                  THEN req[r].held \cup {orgs} ELSE req[r].held
      BY <3>1, TellLocal
    <3>4. \A v \in User : belongs'[v] = IF v = u THEN orgs ELSE belongs[v]
      BY <3>1 DEF Typed, TypeOK
    <3>5. QED  BY <2>1, <2>2, <3>2, <3>3, <3>4
  <2>4. CASE ~Effect(o)
    <3>1. belongs' = belongs /\ req' = req  BY <1>1, <2>4 DEF Moved
    <3>2. belongs' \in [User -> SUBSET Org] /\ req' \in [Req -> Request]
             /\ \A r \in Req : Shape(req'[r])
      BY <3>1 DEF Typed, TypeOK
    <3>3. QED  BY <2>1, <2>2, <3>1, <3>2 DEF SameButHeld
  <2>5. QED  BY <2>3, <2>4
<1>2. ASSUME NEW u \in User, NEW org \in Org, NEW o \in Outcome, NEW unit \in Place,
             assign_membership_route(u, org, unit, o)
      PROVE  members' \in Memberships /\ \E orgs \in SUBSET Org : Moved(u, orgs, o)
  <2>1. belongs[u] \cup {org} \in SUBSET Org  BY DEF Typed, TypeOK
  <2>2. members' \in Memberships
    BY <1>2 DEF assign_membership_route, assign_membership, Memberships, Typed, TypeOK
  <2>3. QED  BY <1>2, <2>1, <2>2 DEF assign_membership_route
<1>3. ASSUME NEW u \in User, NEW org \in Org, NEW o \in Outcome,
             remove_membership_route(u, org, o)
      PROVE  members' \in Memberships /\ \E orgs \in SUBSET Org : Moved(u, orgs, o)
  <2>1. belongs[u] \ {org} \in SUBSET Org  BY DEF Typed, TypeOK
  <2>2. members' \in Memberships
    BY <1>3 DEF remove_membership_route, remove_membership, Memberships, Typed, TypeOK
  <2>3. QED  BY <1>3, <2>1, <2>2 DEF remove_membership_route
<1>4. QED  BY <1>1, <1>2, <1>3 DEF Moves

LEMMA InsertTyped ==
    ASSUME Typed, NEW t \in Template, NEW c \in Candidate, NEW l \in Look
    PROVE  insert_template(templates, t, c, l, mode) \in [Template -> Row]
BY DEF insert_template, PgvectorReady, Row, Typed, TypeOK

LEMMA RevokeTyped ==
    ASSUME Typed, NEW t \in Template
    PROVE  revoke_template(templates, t) \in [Template -> Row]
<1>1. templates[t] \in Row  BY DEF Typed, TypeOK
<1>2. [templates[t] EXCEPT !.revoked = TRUE] \in Row  BY <1>1 DEF Row
<1>3. QED  BY <1>2 DEF revoke_template, Typed, TypeOK

LEMMA RecordTyped ==
    ASSUME Typed, NEW r \in Req, req[r].pc = "record"
    PROVE  RecordOf(req[r]) \in Record
<1>1. req[r] \in Request /\ Shape(req[r])  BY ReqLocal DEF Local
<1>2. req[r].op \in {"create", "enroll", "revoke"} /\ req[r].on \in Candidate
  BY <1>1 DEF Shape
<1>3. req[r].tmpl \in Template \cup {None}  BY <1>1 DEF Request
<1>4. QED  BY <1>2, <1>3 DEF RecordOf, Record

\* The tables that a step of a request changes.
LEMMA ActsTables ==
    ASSUME Typed, NEW r \in Req, Acts(r)
    PROVE  /\ UNCHANGED <<backend, asks, mode, members, belongs, begun>> /\ faults' \in Nat
           /\ owner' \in [Resource -> Owner] /\ templates' \in [Template -> Row]
           /\ evidence' \subseteq EvidenceRow /\ log' \subseteq Record
           /\ OnlyOf(r)
<1> USE DEF tables, Keeps
<1>0. /\ owner \in [Resource -> Owner] /\ templates \in [Template -> Row]
      /\ evidence \subseteq EvidenceRow /\ log \subseteq Record /\ faults \in Nat
  BY DEF Typed, TypeOK
<1>1. req[r] \in Request /\ Shape(req[r])  BY ReqLocal DEF Local
<1>2. CASE StampOwner(r)
  BY <1>0, <1>2, StampLocal, HappensTyped DEF StampOwner
<1>3. CASE CheckScope(r)
  BY <1>0, <1>3, CheckScopeLocal, HappensTyped DEF CheckScope
<1>4. CASE View(r)
  BY <1>0, <1>4, ViewLocal, HappensTyped DEF View
<1>5. CASE ReadListScope(r)
  BY <1>0, <1>5, ListScopeLocal, HappensTyped DEF ReadListScope
<1>6. CASE ListPage(r)
  BY <1>0, <1>6, PageLocal, HappensTyped DEF ListPage
<1>7. CASE CheckDuplicates(r)
  <2>1. req[r].pc = "check"  BY <1>7, CheckDuplicatesLocal
  <2>2. req[r].tmpl \in Template  BY <1>1, <2>1 DEF Shape
  <2>3. [templates[req[r].tmpl] EXCEPT !.told = TRUE] \in Row  BY <1>0, <2>2 DEF Row
  <2>4. templates' \in [Template -> Row]  BY <1>0, <1>7, <2>3 DEF CheckDuplicates
  <2>5. QED  BY <1>0, <1>7, <2>4, CheckDuplicatesLocal, HappensTyped DEF CheckDuplicates
<1>8. CASE MatchProbe(r)
  BY <1>0, <1>8, MatchLocal, HappensTyped DEF MatchProbe
<1>9. CASE ReadEvidence(r)
  BY <1>0, <1>9, ReadEvidenceLocal, HappensTyped DEF ReadEvidence
<1>10. CASE Collected(r)
  BY <1>0, <1>10, CollectedLocal DEF Collected
<1>11. CASE Drop(r)
  BY <1>0, <1>11, DropLocal, HappensTyped DEF Drop
<1>12. ASSUME NEW o \in Outcome, InsertResource(r, o)
       PROVE  /\ UNCHANGED <<backend, asks, mode, members, belongs, begun>> /\ faults' \in Nat
              /\ owner' \in [Resource -> Owner] /\ templates' \in [Template -> Row]
              /\ evidence' \subseteq EvidenceRow /\ log' \subseteq Record
              /\ OnlyOf(r)
  <2>1. req[r].org \in Owner  BY <1>1 DEF Request, Owner
  <2>2. owner' \in [Resource -> Owner]  BY <1>0, <1>12, <2>1 DEF InsertResource
  <2>3. QED  BY <1>0, <1>12, <2>2, InsertLocal, HappensTyped DEF InsertResource
<1>13. ASSUME NEW o \in Outcome, RevokeTemplate(r, o)
       PROVE  /\ UNCHANGED <<backend, asks, mode, members, belongs, begun>> /\ faults' \in Nat
              /\ owner' \in [Resource -> Owner] /\ templates' \in [Template -> Row]
              /\ evidence' \subseteq EvidenceRow /\ log' \subseteq Record
              /\ OnlyOf(r)
  <2>1. req[r].pc = "revoke" /\ OnlyOf(r)  BY <1>13, RevokeLocal
  <2>2. req[r].tmpl \in Template  BY <1>1, <2>1 DEF Shape
  <2>3. templates' = templates \/ templates' = revoke_template(templates, req[r].tmpl)
    BY <1>13 DEF RevokeTemplate
  <2>4. templates' \in [Template -> Row]  BY <1>0, <2>2, <2>3, RevokeTyped
  <2>5. faults' \in Nat  BY <1>13, HappensTyped DEF RevokeTemplate
  <2>6. QED  BY <1>0, <1>13, <2>1, <2>4, <2>5 DEF RevokeTemplate
<1>14. ASSUME NEW o \in Outcome, SaveMandatory(r, o)
       PROVE  /\ UNCHANGED <<backend, asks, mode, members, belongs, begun>> /\ faults' \in Nat
              /\ owner' \in [Resource -> Owner] /\ templates' \in [Template -> Row]
              /\ evidence' \subseteq EvidenceRow /\ log' \subseteq Record
              /\ OnlyOf(r)
  <2>1. req[r].pc = "record" /\ OnlyOf(r)  BY <1>14, SaveLocal
  <2>2. log' \subseteq Record  BY <1>0, <1>14, <2>1, RecordTyped DEF SaveMandatory
  <2>3. faults' \in Nat  BY <1>14, HappensTyped DEF SaveMandatory
  <2>4. QED  BY <1>0, <1>14, <2>1, <2>2, <2>3 DEF SaveMandatory
<1>15. ASSUME NEW o \in Outcome, NEW t \in Template, EnrollTemplate(r, t, o)
       PROVE  /\ UNCHANGED <<backend, asks, mode, members, belongs, begun>> /\ faults' \in Nat
              /\ owner' \in [Resource -> Owner] /\ templates' \in [Template -> Row]
              /\ evidence' \subseteq EvidenceRow /\ log' \subseteq Record
              /\ OnlyOf(r)
  <2>1. req[r].pc = "enroll" /\ OnlyOf(r)  BY <1>15, EnrollLocal
  <2>2. req[r].on \in Candidate /\ req[r].look \in Look  BY <1>1, <2>1 DEF Shape
  <2>3. \/ templates' = templates
        \/ templates' = insert_template(templates, t, req[r].on, req[r].look, mode)
    BY <1>15 DEF EnrollTemplate
  <2>4. templates' \in [Template -> Row]  BY <1>0, <2>2, <2>3, InsertTyped
  <2>5. faults' \in Nat  BY <1>0, <1>15, HappensTyped DEF EnrollTemplate
  <2>6. QED  BY <1>0, <1>15, <2>1, <2>4, <2>5 DEF EnrollTemplate
<1>16. ASSUME NEW o \in Outcome, NEW i \in Item, StoreItem(r, i, o)
       PROVE  /\ UNCHANGED <<backend, asks, mode, members, belongs, begun>> /\ faults' \in Nat
              /\ owner' \in [Resource -> Owner] /\ templates' \in [Template -> Row]
              /\ evidence' \subseteq EvidenceRow /\ log' \subseteq Record
              /\ OnlyOf(r)
  <2>1. req[r].pc = "store" /\ OnlyOf(r)  BY <1>16, StoreLocal
  <2>2. req[r].on \in Candidate  BY <1>1, <2>1 DEF Shape
  <2>3. [on |-> req[r].on, item |-> i, run |-> req[r].run, after |-> req[r].over] \in EvidenceRow
    BY <1>1, <2>2 DEF Request, EvidenceRow
  <2>4. evidence' \subseteq EvidenceRow  BY <1>0, <1>16, <2>3 DEF StoreItem
  <2>5. faults' \in Nat  BY <1>16, HappensTyped DEF StoreItem
  <2>6. QED  BY <1>0, <1>16, <2>1, <2>4, <2>5 DEF StoreItem
<1>17. QED
  BY <1>2, <1>3, <1>4, <1>5, <1>6, <1>7, <1>8, <1>9, <1>10, <1>11, <1>12, <1>13, <1>14,
     <1>15, <1>16 DEF Acts

\* A restart: each request that was under way is gone, and nothing else changes
\* but the mode.
LEMMA RestartFacts ==
    ASSUME Typed, Restart
    PROVE  /\ \A r \in Req : (req'[r] = req[r] /\ Free(r)) \/ req'[r] = Idle
           /\ UNCHANGED <<backend, asks, tables, belongs, begun>>
           /\ Typed'
<1>1. \A r \in Req : (req'[r] = req[r] /\ Free(r)) \/ req'[r] = Idle
  BY DEF Restart
<1>2. UNCHANGED <<backend, asks, tables, belongs, begun>>  BY DEF Restart
<1>3. \A r \in Req : Local(req'[r])  BY <1>1, ReqLocal, IdleLocal
<1>4. req' = [r \in Req |-> req'[r]]  BY DEF Restart
<1>5. req' \in [Req -> Request]  BY <1>3, <1>4 DEF Local
<1>6. mode' \in Mode /\ (backend = "sqlite" => mode' = "bare")
  BY DEF Restart, ensure_pgvector_index, Mode
<1>7. faults' \in Nat  BY HappensTyped DEF Restart
<1>8. Typed'
  BY <1>2, <1>3, <1>5, <1>6, <1>7 DEF Typed, TypeOK, Local, tables
<1>9. QED  BY <1>1, <1>2, <1>8

LEMMA TypedStep == Typed /\ [Next]_vars => Typed'
<1> SUFFICES ASSUME Typed, [Next]_vars PROVE Typed'
  OBVIOUS
<1> USE DEF tables
<1>1. CASE Moves
  BY <1>1, MovesFacts DEF Typed, TypeOK
<1>2. ASSUME NEW r \in Req, Arrives(r) PROVE Typed'
  <2>1. OnlyOf(r) /\ begun' = begun + 1 /\ UNCHANGED <<backend, mode, tables, belongs>>
    BY <1>2, ArrivesLocal
  <2>2. asks' \in [Ops -> Nat] /\ faults' = faults
    <3>1. PICK l : Begin(r, l)
      BY <1>2 DEF Arrives, BeginCreate, BeginView, BeginEnroll, BeginRevoke, BeginCollect,
                  BeginRead, BeginList, BeginMatch, BeginAutoCollect
    <3>2. req'[r] = l  BY <3>1, SetLocal DEF Begin
    <3>3. l.op \in Ops  BY <1>2, <3>2, ArrivesLocal DEF Arrived, Scoped, Ops
    <3>4. Ask(l.op) /\ faults' = faults  BY <3>1 DEF Begin
    <3>5. QED  BY <3>3, <3>4, AskTyped
  <2>3. QED  BY <2>1, <2>2 DEF Typed, TypeOK, OnlyOf
<1>3. ASSUME NEW r \in Req, Acts(r) PROVE Typed'
  <2>1. OnlyOf(r) /\ UNCHANGED <<backend, asks, mode, members, belongs, begun>>
    BY <1>3, ActsTables
  <2>2. /\ faults' \in Nat /\ owner' \in [Resource -> Owner] /\ templates' \in [Template -> Row]
        /\ evidence' \subseteq EvidenceRow /\ log' \subseteq Record
    BY <1>3, ActsTables
  <2>3. QED  BY <2>1, <2>2 DEF Typed, TypeOK, OnlyOf
<1>4. CASE Restart
  BY <1>4, RestartFacts
<1>5. CASE UNCHANGED vars
  BY <1>5 DEF vars, Typed, TypeOK
<1>6. QED  BY <1>1, <1>2, <1>3, <1>4, <1>5, NextCases

\* Registry keeps its types (TypeOK): only rows of candidates are inserted, and
\* only records of candidates are logged.
THEOREM RegistryTypeCorrect == Spec => []TypeOK
<1>1. Init => Typed  BY TypedInit
<1>2. Typed /\ [Next]_vars => Typed'  BY TypedStep
<1>3. Typed => TypeOK  BY DEF Typed
<1>4. QED  BY <1>1, <1>2, <1>3, PTL DEF Spec

-----------------------------------------------------------------------------
\* Scoping and stamping.

\* The table of memberships says what was assigned and not removed.
MembersMatch == \A u \in User : user_organization_ids(members, u) = belongs[u]

\* No two requests create one resource.
Creators ==
    \A r, q \in Req :
        r # q /\ req[r].op = "create" /\ req[q].op = "create" => req[r].on # req[q].on

Allowed(l, x) == \E orgs \in l.held : can_view_scoped_resource(l.who, orgs, owner[x])

Stamped(l) ==
    /\ l.pc \in {"insert", "record"} \/ l.out = "ok" =>
          IF l.org = None THEN l.blind \/ {} \in l.held ELSE \E orgs \in l.held : l.org \in orgs
    /\ l.pc = "record" \/ l.out = "ok" => owner[l.on] = l.org

\* What the memberships and the owners say of a request's local state.
InScope(l) ==
    /\ l.pc # "done" /\ l.who \in User => belongs[l.who] \in l.held
    /\ l.pc \in {"primary", "insert"} => owner[l.on] = "absent"
    /\ l.op \in Scoped => owner[l.on] # "absent"
    /\ PassedScope(l) /\ l.who # None => Allowed(l, l.on)
    /\ l.pc = "page" => l.blind \/ l.ids \in l.held
    /\ l.op = "list" /\ l.out = "ok" =>
          \A x \in l.shown : owner[x] # "absent" /\ (l.blind \/ Allowed(l, x))
    /\ l.out = "refused" /\ ~l.blind =>
          \E orgs \in l.held : ~can_view_scoped_resource(l.who, orgs, owner[l.on])
    /\ l.op = "create" => Stamped(l)

ScopeInv == MembersMatch /\ Creators /\ \A r \in Req : InScope(req[r])

LEMMA AssignMatches ==
    ASSUME Typed, MembersMatch, NEW u \in User, NEW org \in Org, NEW unit \in Place, NEW v \in User
    PROVE  user_organization_ids(assign_membership(members, u, org, unit), v)
               = IF v = u THEN belongs[v] \cup {org} ELSE belongs[v]
<1>1. members \in [User \X Org \X Place -> Nat]  BY DEF Typed, TypeOK, Memberships
<1>2. <<u, org, unit>> \in User \X Org \X Place  OBVIOUS
<1>3. belongs[v] = {o \in Org : \E n \in Place : members[<<v, o, n>>] > 0}
  BY DEF MembersMatch, user_organization_ids
<1>4. CASE unit # None /\ members[<<u, org, unit>>] > 0
  BY <1>3, <1>4 DEF assign_membership, user_organization_ids
<1>5. CASE ~(unit # None /\ members[<<u, org, unit>>] > 0)
  <2>1. PICK m : m = [members EXCEPT ![<<u, org, unit>>] = @ + 1]  OBVIOUS
  <2>2. m[<<u, org, unit>>] > 0  BY <1>1, <1>2, <2>1
  <2>3. \A o \in Org, n \in Place :
           <<v, o, n>> # <<u, org, unit>> => m[<<v, o, n>>] = members[<<v, o, n>>]
    BY <1>1, <2>1
  <2>4. \A o \in Org, n \in Place : <<v, o, n>> = <<u, org, unit>> => v = u /\ o = org /\ n = unit
    OBVIOUS
  <2>5. {o \in Org : \E n \in Place : m[<<v, o, n>>] > 0}
            = IF v = u THEN belongs[v] \cup {org} ELSE belongs[v]
    <3>1. CASE v = u
      <4>1. ASSUME NEW o \in Org
            PROVE  (\E n \in Place : m[<<v, o, n>>] > 0) <=> (o \in belongs[v] \/ o = org)
        <5>1. CASE o = org  BY <2>2, <3>1, <5>1
        <5>2. CASE o # org
          <6>1. \A n \in Place : m[<<v, o, n>>] = members[<<v, o, n>>]  BY <2>3, <5>2
          <6>2. QED  BY <1>3, <5>2, <6>1
        <5>3. QED  BY <5>1, <5>2
      <4>2. belongs[v] \subseteq Org  BY DEF Typed, TypeOK
      <4>3. QED  BY <3>1, <4>1, <4>2
    <3>2. CASE v # u
      <4>1. \A o \in Org, n \in Place : m[<<v, o, n>>] = members[<<v, o, n>>]
        BY <2>3, <3>2
      <4>2. QED  BY <1>3, <3>2, <4>1
    <3>3. QED  BY <3>1, <3>2
  <2>6. assign_membership(members, u, org, unit) = m
    BY <1>5, <2>1 DEF assign_membership
  <2>7. QED  BY <2>5, <2>6 DEF user_organization_ids
<1>6. QED  BY <1>4, <1>5

LEMMA RemoveMatches ==
    ASSUME Typed, MembersMatch, NEW u \in User, NEW org \in Org, NEW v \in User
    PROVE  user_organization_ids(remove_membership(members, u, org), v)
               = IF v = u THEN belongs[v] \ {org} ELSE belongs[v]
<1>1. belongs[v] = {o \in Org : \E n \in Place : members[<<v, o, n>>] > 0}
  BY DEF MembersMatch, user_organization_ids
<1>2. PICK m : m = remove_membership(members, u, org)  OBVIOUS
<1>3. \A o \in Org, n \in Place :
         m[<<v, o, n>>] = IF v = u /\ o = org THEN 0 ELSE members[<<v, o, n>>]
  BY <1>2 DEF remove_membership
<1>4. {o \in Org : \E n \in Place : m[<<v, o, n>>] > 0}
          = IF v = u THEN belongs[v] \ {org} ELSE belongs[v]
  <2>1. CASE v = u
    <3>1. ASSUME NEW o \in Org
          PROVE  (\E n \in Place : m[<<v, o, n>>] > 0) <=> (o \in belongs[v] /\ o # org)
      <4>1. CASE o = org
        <5>1. \A n \in Place : m[<<v, o, n>>] = 0  BY <1>3, <2>1, <4>1
        <5>2. \A n \in Place : ~(m[<<v, o, n>>] > 0)  BY <5>1
        <5>3. QED  BY <4>1, <5>2
      <4>2. CASE o # org
        <5>1. \A n \in Place : m[<<v, o, n>>] = members[<<v, o, n>>]  BY <1>3, <4>2
        <5>2. QED  BY <1>1, <4>2, <5>1
      <4>3. QED  BY <4>1, <4>2
    <3>2. belongs[v] \subseteq Org  BY DEF Typed, TypeOK
    <3>3. QED  BY <2>1, <3>1, <3>2
  <2>2. CASE v # u
    <3>1. \A o \in Org, n \in Place : m[<<v, o, n>>] = members[<<v, o, n>>]
      BY <1>3, <2>2
    <3>2. QED  BY <1>1, <2>2, <3>1
  <2>3. QED  BY <2>1, <2>2
<1>5. QED  BY <1>2, <1>4 DEF user_organization_ids

LEMMA MovesMatch ==
    ASSUME Typed, MembersMatch, Moves
    PROVE  MembersMatch'
<1>1. ASSUME NEW u \in User, NEW org \in Org, NEW o \in Outcome, NEW unit \in Place,
             assign_membership_route(u, org, unit, o)
      PROVE  MembersMatch'
  <2>1. CASE Effect(o)
    <3>1. /\ members' = assign_membership(members, u, org, unit)
          /\ belongs' = [belongs EXCEPT ![u] = belongs[u] \cup {org}]
      BY <1>1, <2>1 DEF assign_membership_route, Moved
    <3>2. ASSUME NEW v \in User PROVE user_organization_ids(members', v) = belongs'[v]
      <4>1. belongs'[v] = IF v = u THEN belongs[v] \cup {org} ELSE belongs[v]
        BY <3>1 DEF Typed, TypeOK
      <4>2. QED  BY <3>1, <4>1, AssignMatches
    <3>3. QED  BY <3>2 DEF MembersMatch, user_organization_ids
  <2>2. CASE ~Effect(o)
    BY <1>1, <2>2 DEF assign_membership_route, Moved, MembersMatch, user_organization_ids
  <2>3. QED  BY <2>1, <2>2
<1>2. ASSUME NEW u \in User, NEW org \in Org, NEW o \in Outcome,
             remove_membership_route(u, org, o)
      PROVE  MembersMatch'
  <2>1. CASE Effect(o)
    <3>1. /\ members' = remove_membership(members, u, org)
          /\ belongs' = [belongs EXCEPT ![u] = belongs[u] \ {org}]
      BY <1>2, <2>1 DEF remove_membership_route, Moved
    <3>2. ASSUME NEW v \in User PROVE user_organization_ids(members', v) = belongs'[v]
      <4>1. belongs'[v] = IF v = u THEN belongs[v] \ {org} ELSE belongs[v]
        BY <3>1 DEF Typed, TypeOK
      <4>2. QED  BY <3>1, <4>1, RemoveMatches
    <3>3. QED  BY <3>2 DEF MembersMatch, user_organization_ids
  <2>2. CASE ~Effect(o)
    BY <1>2, <2>2 DEF remove_membership_route, Moved, MembersMatch, user_organization_ids
  <2>3. QED  BY <2>1, <2>2
<1>3. QED  BY <1>1, <1>2 DEF Moves

\* A request that does not move, while an owner may be written.
LEMMA ScopeSame ==
    ASSUME NEW l \in Request, Shape(l), InScope(l), UNCHANGED belongs,
           \A x \in Resource : owner[x] # "absent" => owner'[x] = owner[x],
           l.pc \in {"primary", "insert"} => owner'[l.on] = "absent"
    PROVE  InScope(l)'
<1> USE OrgAssumption, RegistryAssumption
<1>1. l.op \in Scoped => l.on \in Resource  BY DEF Shape, Scoped, Resource
<1>2. l.op = "create" => l.on \in Resource  BY DEF Shape
<1>3. l.shown \subseteq Resource /\ (l.org = None \/ l.org \in Org)  BY DEF Request
<1>4. PassedScope(l) => l.op \in Scoped  BY DEF PassedScope, Scoped
<1>5. \A x \in Resource : owner[x] # "absent" /\ Allowed(l, x) => Allowed(l, x)'
  BY DEF Allowed, can_view_scoped_resource
<1>6. l.op \in Scoped => owner'[l.on] = owner[l.on] /\ owner[l.on] # "absent"
  BY <1>1 DEF InScope
<1>7. PassedScope(l) /\ l.who # None => Allowed(l, l.on)'
  BY <1>1, <1>4, <1>5, <1>6 DEF InScope
<1>8. l.op = "list" /\ l.out = "ok" =>
         \A x \in l.shown : owner'[x] # "absent" /\ (l.blind \/ Allowed(l, x)')
  BY <1>3, <1>5 DEF InScope
<1>9. l.out = "refused" /\ ~l.blind =>
         \E orgs \in l.held : ~can_view_scoped_resource(l.who, orgs, owner'[l.on])
  <2>1. l.out = "refused" => l.op \in Scoped  BY DEF Shape
  <2>2. QED  BY <1>6, <2>1 DEF InScope
<1>10. l.op = "create" => Stamped(l)'
  <2>1. ASSUME l.op = "create", l.pc = "record" \/ l.out = "ok"
        PROVE  owner'[l.on] = l.org
    <3>1. owner[l.on] = l.org  BY <2>1 DEF InScope, Stamped
    <3>2. l.org # "absent"  BY <1>3
    <3>3. QED  BY <1>2, <2>1, <3>1, <3>2
  <2>2. QED  BY <2>1 DEF InScope, Stamped
<1>11. l.op \in Scoped => owner'[l.on] # "absent"  BY <1>6
<1>12. QED
  BY <1>7, <1>8, <1>9, <1>10, <1>11 DEF InScope, PassedScope, can_view_scoped_resource, Allowed

\* A request that has been told of a membership.
LEMMA ScopeTold ==
    ASSUME NEW l \in Request, NEW m \in Request, Shape(l), InScope(l), SameButHeld(l, m),
           l.held \subseteq m.held, UNCHANGED owner,
           l.who \in User /\ l.pc # "done" =>
               belongs'[l.who] = belongs[l.who] \/ belongs'[l.who] \in m.held
    PROVE  InScope(m)'
<1>1. \A x : Allowed(l, x) => Allowed(m, x)'  BY DEF Allowed, SameButHeld, can_view_scoped_resource
<1>2. m.pc # "done" /\ m.who \in User => belongs'[m.who] \in m.held
  BY DEF InScope, SameButHeld
<1>3. m.pc \in {"primary", "insert"} => owner'[m.on] = "absent"  BY DEF InScope, SameButHeld
<1>4. m.op \in Scoped => owner'[m.on] # "absent"  BY DEF InScope, SameButHeld
<1>5. PassedScope(m) /\ m.who # None => Allowed(m, m.on)'
  BY <1>1 DEF InScope, SameButHeld, PassedScope
<1>6. m.pc = "page" => m.blind \/ m.ids \in m.held  BY DEF InScope, SameButHeld
<1>7. m.op = "list" /\ m.out = "ok" =>
         \A x \in m.shown : owner'[x] # "absent" /\ (m.blind \/ Allowed(m, x)')
  BY <1>1 DEF InScope, SameButHeld
<1>8. m.out = "refused" /\ ~m.blind =>
         \E orgs \in m.held : ~can_view_scoped_resource(m.who, orgs, owner'[m.on])
  BY DEF InScope, SameButHeld
<1>9. m.op = "create" => Stamped(m)'
  BY DEF InScope, SameButHeld, Stamped
<1>10. QED
  BY <1>2, <1>3, <1>4, <1>5, <1>6, <1>7, <1>8, <1>9
     DEF InScope, PassedScope, can_view_scoped_resource

\* A handler beyond its scope check goes on, or one that has none.
LEMMA ScopeAdvance ==
    ASSUME NEW l \in Request, NEW m \in Request, Shape(l), Shape(m), InScope(l), Kept(l, m),
           l.op \notin {"create", "list"}, l.pc \notin {"scope", "done"},
           m.pc # "scope", m.out # "refused", UNCHANGED <<owner, belongs>>
    PROVE  InScope(m)'
<1>1. m.held = l.held /\ m.who = l.who /\ m.op = l.op /\ m.on = l.on  BY DEF Kept
<1>2. l.who \in User => belongs[l.who] \in l.held  BY DEF InScope
<1>3. m.pc \notin {"primary", "insert", "page"}  BY <1>1 DEF Shape
<1>4. l.op \in Scoped => owner[l.on] # "absent"  BY DEF InScope
<1>5. PassedScope(m) => PassedScope(l)  BY <1>1 DEF PassedScope
<1>6. PassedScope(m) /\ m.who # None => Allowed(m, m.on)'
  BY <1>1, <1>5 DEF InScope, Allowed, can_view_scoped_resource
<1>7. QED
  BY <1>1, <1>2, <1>3, <1>4, <1>6 DEF InScope, PassedScope, can_view_scoped_resource

LEMMA ScopeIdle == InScope(Idle)' /\ InScope(Idle)
BY RegistryAssumption DEF InScope, Idle, Scoped, PassedScope

\* What a request's own statement leaves of owners and creations.
LEMMA OwnersStay ==
    ASSUME Typed, ScopeInv, NEW r \in Req, Acts(r)
    PROVE  /\ \A x \in Resource : owner[x] # "absent" => owner'[x] = owner[x]
           /\ \A q \in Req \ {r} :
                 req[q].pc \in {"primary", "insert"} => owner'[req[q].on] = "absent"
           /\ req'[r].op = "create" => req[r].op = "create" /\ req'[r].on = req[r].on
<1>1. \A q \in Req : InScope(req[q]) /\ Shape(req[q])
  BY ReqLocal DEF ScopeInv, Local
<1>2. ASSUME NEW o \in Outcome, InsertResource(r, o)
      PROVE  /\ \A x \in Resource : owner[x] # "absent" => owner'[x] = owner[x]
             /\ \A q \in Req \ {r} :
                   req[q].pc \in {"primary", "insert"} => owner'[req[q].on] = "absent"
  <2>1. req[r].pc = "insert" /\ req[r].op = "create" /\ owner[req[r].on] = "absent"
    BY <1>1, <1>2, InsertLocal DEF Shape, InScope
  <2>2. \A x \in Resource : x # req[r].on => owner'[x] = owner[x]
    BY <1>2 DEF InsertResource, Typed, TypeOK
  <2>3. ASSUME NEW q \in Req \ {r}, req[q].pc \in {"primary", "insert"}
        PROVE  owner'[req[q].on] = "absent"
    <3>1. req[q].op = "create" /\ req[q].on \in Resource /\ owner[req[q].on] = "absent"
      BY <1>1, <2>3 DEF Shape, InScope
    <3>2. req[q].on # req[r].on  BY <2>1, <3>1 DEF ScopeInv, Creators
    <3>3. QED  BY <2>2, <3>1, <3>2
  <2>4. QED  BY <2>1, <2>2, <2>3
<1>3. ASSUME owner' = owner
      PROVE  /\ \A x \in Resource : owner[x] # "absent" => owner'[x] = owner[x]
             /\ \A q \in Req \ {r} :
                   req[q].pc \in {"primary", "insert"} => owner'[req[q].on] = "absent"
  BY <1>1, <1>3 DEF InScope
<1>4. owner' = owner \/ \E o \in Outcome : InsertResource(r, o)
  BY DEF Acts, StampOwner, CheckScope, View, ReadListScope, ListPage, CheckDuplicates,
         MatchProbe, ReadEvidence, Collected, Drop, RevokeTemplate, SaveMandatory,
         EnrollTemplate, StoreItem, Keeps, tables
<1>5. Kept(req[r], req'[r]) \/ req'[r] = Idle
  BY StampLocal, CheckScopeLocal, ViewLocal, ListScopeLocal, PageLocal, CheckDuplicatesLocal,
     MatchLocal, ReadEvidenceLocal, CollectedLocal, DropLocal, InsertLocal, RevokeLocal,
     SaveLocal, EnrollLocal, StoreLocal DEF Acts, Answered
<1>6. req'[r].op = "create" => req[r].op = "create" /\ req'[r].on = req[r].on
  BY <1>5 DEF Kept, Idle
<1>7. QED  BY <1>2, <1>3, <1>4, <1>6

LEMMA ScopeStamp ==
    ASSUME Typed, ScopeInv, NEW r \in Req, StampOwner(r)
    PROVE  InScope(req[r])'
<1>1. PICK l : l = req[r]  OBVIOUS
<1>2. PICK m : m = req'[r]  OBVIOUS
<1>3. l \in Request /\ Shape(l) /\ InScope(l)  BY <1>1, ReqLocal DEF Local, ScopeInv
<1>4. /\ Kept(l, m) /\ l.pc = "primary" /\ m.pc = "insert" /\ m.out = "none"
      /\ m.org \in primary_organization_id(members, l.who) \/ (m.org = None /\ m.blind)
  BY <1>1, <1>2, StampLocal
<1>5. l.op = "create" /\ l.who \in User  BY <1>3, <1>4 DEF Shape
<1>6. belongs[l.who] \in l.held /\ owner[l.on] = "absent"  BY <1>3, <1>4, <1>5 DEF InScope
<1>7. user_organization_ids(members, l.who) = belongs[l.who]
  BY <1>5 DEF ScopeInv, MembersMatch
<1>8. IF m.org = None THEN m.blind \/ {} \in m.held ELSE \E orgs \in m.held : m.org \in orgs
  <2>1. belongs[l.who] \subseteq Org  BY <1>5 DEF Typed, TypeOK
  <2>2. None \notin Org  BY OrgAssumption
  <2>3. CASE m.org \in primary_organization_id(members, l.who)
    BY <1>4, <1>6, <1>7, <2>1, <2>2, <2>3 DEF primary_organization_id, Kept
  <2>4. QED  BY <1>4, <2>3
<1>9. UNCHANGED <<owner, belongs>>  BY DEF StampOwner, tables
<1>10. InScope(m)'
  BY <1>4, <1>5, <1>6, <1>8, <1>9 DEF InScope, Kept, Stamped, PassedScope, Scoped
<1>11. QED  BY <1>2, <1>10 DEF InScope, Stamped, Allowed, PassedScope

LEMMA ScopeInsert ==
    ASSUME Typed, ScopeInv, NEW r \in Req, NEW o \in Outcome, InsertResource(r, o)
    PROVE  InScope(req[r])'
<1>1. PICK l : l = req[r]  OBVIOUS
<1>2. PICK m : m = req'[r]  OBVIOUS
<1>3. l \in Request /\ Shape(l) /\ InScope(l)  BY <1>1, ReqLocal DEF Local, ScopeInv
<1>4. /\ Kept(l, m) /\ l.pc = "insert" /\ m.org = l.org /\ m.blind = l.blind
      /\ \/ m.pc = "done" /\ m.out = "error"
         \/ o = "ok" /\ m.pc = "done" /\ m.out = "ok"
         \/ o = "ok" /\ m.pc = "record" /\ m.out = "none"
  BY <1>1, <1>2, InsertLocal
<1>5. l.op = "create" /\ l.who \in User /\ l.on \in Resource  BY <1>3, <1>4 DEF Shape
<1>6. belongs[l.who] \in l.held  BY <1>3, <1>4, <1>5 DEF InScope
<1>7. IF l.org = None THEN l.blind \/ {} \in l.held ELSE \E orgs \in l.held : l.org \in orgs
  BY <1>3, <1>4, <1>5 DEF InScope, Stamped
<1>8. o = "ok" => owner'[l.on] = l.org
  BY <1>1, <1>5 DEF InsertResource, Effect, Typed, TypeOK
<1>9. UNCHANGED belongs  BY DEF InsertResource
<1>10. InScope(m)'
  BY <1>4, <1>5, <1>6, <1>7, <1>8, <1>9 DEF InScope, Kept, Stamped, PassedScope, Scoped
<1>11. QED  BY <1>2, <1>10 DEF InScope, Stamped, Allowed, PassedScope

LEMMA ScopeCheck ==
    ASSUME Typed, ScopeInv, NEW r \in Req, CheckScope(r)
    PROVE  InScope(req[r])'
<1>1. PICK l : l = req[r]  OBVIOUS
<1>2. PICK m : m = req'[r]  OBVIOUS
<1>3. l \in Request /\ Shape(l) /\ InScope(l)  BY <1>1, ReqLocal DEF Local, ScopeInv
<1>4. /\ Kept(l, m) /\ l.pc = "scope"
      /\ LET allowed == can_view_scoped_resource(l.who, user_organization_ids(members, l.who),
                                                 owner[l.on])
         IN  \/ m.pc = "done" /\ m.out = "error"
             \/ m.pc = AfterScope[l.op] /\ m.out = "none" /\ allowed
             \/ m.pc = "done" /\ m.out = "refused" /\ (m.blind \/ ~allowed)
  BY <1>1, <1>2, CheckScopeLocal
<1>5. l.op \in Scoped /\ l.who \in User  BY <1>3, <1>4 DEF Shape
<1>6. belongs[l.who] \in l.held /\ owner[l.on] # "absent"  BY <1>3, <1>4, <1>5 DEF InScope
<1>7. user_organization_ids(members, l.who) = belongs[l.who]
  BY <1>5 DEF ScopeInv, MembersMatch
<1>8. UNCHANGED <<owner, belongs>>  BY DEF CheckScope, tables
<1>9. m.op = l.op /\ m.who = l.who /\ m.on = l.on /\ m.held = l.held  BY <1>4 DEF Kept
<1>10. AfterScope[l.op] \in Scoped  BY <1>5 DEF AfterScope, Scoped
<1>11. CASE m.pc = "done" /\ m.out = "error"
  BY <1>2, <1>5, <1>6, <1>8, <1>9, <1>11
     DEF InScope, Scoped, PassedScope, Stamped, Allowed, can_view_scoped_resource
<1>12. CASE /\ m.pc = AfterScope[l.op] /\ m.out = "none"
            /\ can_view_scoped_resource(l.who, belongs[l.who], owner[l.on])
  <2>1. Allowed(m, m.on)'
    BY <1>6, <1>8, <1>9, <1>12 DEF Allowed, can_view_scoped_resource
  <2>2. m.pc \in Scoped  BY <1>10, <1>12
  <2>3. InScope(m)'
    BY <1>5, <1>6, <1>8, <1>9, <1>12, <2>1, <2>2
       DEF InScope, Scoped, PassedScope, can_view_scoped_resource
  <2>4. QED  BY <1>2, <2>3 DEF InScope, Scoped, PassedScope, Stamped, Allowed, can_view_scoped_resource
<1>13. CASE /\ m.pc = "done" /\ m.out = "refused"
            /\ m.blind \/ ~can_view_scoped_resource(l.who, belongs[l.who], owner[l.on])
  <2>1. ~m.blind => \E orgs \in m.held : ~can_view_scoped_resource(m.who, orgs, owner'[m.on])
    BY <1>6, <1>8, <1>9, <1>13
  <2>2. InScope(m)'
    BY <1>5, <1>6, <1>8, <1>9, <1>13, <2>1
       DEF InScope, Scoped, PassedScope, can_view_scoped_resource
  <2>3. QED  BY <1>2, <2>2 DEF InScope, Scoped, PassedScope, Stamped, Allowed, can_view_scoped_resource
<1>14. QED  BY <1>4, <1>7, <1>11, <1>12, <1>13

LEMMA ScopeList ==
    ASSUME Typed, ScopeInv, NEW r \in Req, ReadListScope(r)
    PROVE  InScope(req[r])'
<1>1. PICK l : l = req[r]  OBVIOUS
<1>2. PICK m : m = req'[r]  OBVIOUS
<1>3. l \in Request /\ Shape(l) /\ InScope(l)  BY <1>1, ReqLocal DEF Local, ScopeInv
<1>4. /\ Kept(l, m) /\ l.pc = "list" /\ m.pc = "page" /\ m.out = "none"
      /\ m.blind \/ m.ids = user_organization_ids(members, l.who)
  BY <1>1, <1>2, ListScopeLocal
<1>5. l.op = "list" /\ l.who \in User  BY <1>3, <1>4 DEF Shape
<1>6. belongs[l.who] \in l.held  BY <1>3, <1>4, <1>5 DEF InScope
<1>7. user_organization_ids(members, l.who) = belongs[l.who]
  BY <1>5 DEF ScopeInv, MembersMatch
<1>8. UNCHANGED <<owner, belongs>>  BY DEF ReadListScope, tables
<1>9. InScope(m)'
  BY <1>4, <1>5, <1>6, <1>7, <1>8 DEF InScope, Kept, Scoped, PassedScope
<1>10. QED
  BY <1>2, <1>9 DEF InScope, PassedScope, Stamped, Allowed, can_view_scoped_resource

LEMMA ScopePage ==
    ASSUME Typed, ScopeInv, NEW r \in Req, ListPage(r)
    PROVE  InScope(req[r])'
<1>1. PICK l : l = req[r]  OBVIOUS
<1>2. PICK m : m = req'[r]  OBVIOUS
<1>3. l \in Request /\ Shape(l) /\ InScope(l)  BY <1>1, ReqLocal DEF Local, ScopeInv
<1>4. /\ l.pc = "page"
      /\ \/ Answered(l, m, "error")
         \/ Answered(l, m, "ok") /\ m.shown = list_searches_page(r) /\ m.blind = l.blind
  BY <1>1, <1>2, PageLocal
<1>5. l.op = "list" /\ l.who \in User  BY <1>3, <1>4 DEF Shape
<1>6. l.blind \/ l.ids \in l.held  BY <1>3, <1>4 DEF InScope
<1>7. UNCHANGED <<owner, belongs>>  BY DEF ListPage, tables
<1>8. /\ m.op = "list" /\ m.who = l.who /\ m.held = l.held /\ m.pc = "done"
      /\ m.out \in {"ok", "error"}
  BY <1>4, <1>5 DEF Answered, Kept
<1>9. ASSUME m.out = "ok", NEW x \in m.shown
      PROVE  owner[x] # "absent" /\ (m.blind \/ Allowed(m, x))
  <2>1. m.shown = list_searches_page(r) /\ m.blind = l.blind  BY <1>4, <1>9 DEF Answered
  <2>2. owner[x] # "absent" /\ push_search_org_scope(l.who \in Admins \/ l.blind, l.ids, owner[x])
    BY <1>1, <1>9, <2>1 DEF list_searches_page
  <2>3. CASE ~l.blind
    <3>1. l.ids \in l.held  BY <1>6, <2>3
    <3>2. can_view_scoped_resource(l.who, l.ids, owner[x])
      BY <2>2, <2>3 DEF push_search_org_scope, can_view_scoped_resource
    <3>3. QED  BY <1>8, <2>2, <3>1, <3>2 DEF Allowed
  <2>4. QED  BY <2>1, <2>2, <2>3
<1>10. InScope(m)'
  BY <1>7, <1>8, <1>9 DEF InScope, Scoped, PassedScope, Allowed, can_view_scoped_resource
<1>11. QED
  BY <1>2, <1>10 DEF InScope, PassedScope, Stamped, Allowed, can_view_scoped_resource

LEMMA ScopeSave ==
    ASSUME Typed, ScopeInv, NEW r \in Req, NEW o \in Outcome, SaveMandatory(r, o)
    PROVE  InScope(req[r])'
<1>1. PICK l : l = req[r]  OBVIOUS
<1>2. PICK m : m = req'[r]  OBVIOUS
<1>3. l \in Request /\ Shape(l) /\ InScope(l)  BY <1>1, ReqLocal DEF Local, ScopeInv
<1>4. /\ OnlyOf(r) /\ Kept(l, m) /\ l.pc = "record" /\ m.org = l.org /\ m.blind = l.blind
      /\ \/ m.pc = "done" /\ m.out = "error"
         \/ IF l.op = "enroll" THEN m.pc = "check" /\ m.out = "none"
            ELSE m.pc = "done" /\ m.out = "ok"
  BY <1>1, <1>2, SaveLocal
<1>5. m \in Request /\ Shape(m)  BY <1>2, <1>4 DEF OnlyOf
<1>6. UNCHANGED <<owner, belongs>>  BY DEF SaveMandatory, Keeps
<1>7. l.op \in {"create", "enroll", "revoke"}  BY <1>3, <1>4 DEF Shape
<1>8. CASE l.op # "create"
  <2>1. m.pc # "scope" /\ m.out # "refused"  BY <1>4
  <2>2. l.op \notin {"create", "list"} /\ l.pc \notin {"scope", "done"}  BY <1>4, <1>7, <1>8
  <2>3. InScope(m)'  BY <1>3, <1>4, <1>5, <1>6, <2>1, <2>2, ScopeAdvance
  <2>4. QED
    BY <1>2, <2>3 DEF InScope, PassedScope, Stamped, Allowed, can_view_scoped_resource
<1>9. CASE l.op = "create"
  <2>1. /\ owner[l.on] = l.org
        /\ IF l.org = None THEN l.blind \/ {} \in l.held ELSE \E orgs \in l.held : l.org \in orgs
    BY <1>3, <1>4, <1>9 DEF InScope, Stamped
  <2>2. m.op = "create" /\ m.on = l.on /\ m.held = l.held /\ m.who = l.who
    BY <1>4, <1>9 DEF Kept
  <2>3. m.pc = "done" /\ m.out \in {"ok", "error"}  BY <1>4, <1>9
  <2>4. Stamped(m)'  BY <1>4, <1>6, <2>1, <2>2 DEF Stamped
  <2>5. InScope(m)'
    BY <2>2, <2>3, <2>4 DEF InScope, Scoped, PassedScope
  <2>6. QED
    BY <1>2, <2>5 DEF InScope, PassedScope, Stamped, Allowed, can_view_scoped_resource
<1>10. QED  BY <1>8, <1>9

\* The statements of handlers that are beyond their scope check, or have none.
Beyond(r) ==
    \/ View(r) \/ CheckDuplicates(r) \/ MatchProbe(r) \/ ReadEvidence(r) \/ Collected(r)
    \/ \E o \in Outcome :
        \/ RevokeTemplate(r, o)
        \/ \E t \in Template : EnrollTemplate(r, t, o)
        \/ \E i \in Item : StoreItem(r, i, o)

LEMMA BeyondLocal ==
    ASSUME Typed, NEW r \in Req, Beyond(r)
    PROVE  /\ OnlyOf(r) /\ Kept(req[r], req'[r])
           /\ req[r].pc \in {"view", "check", "match", "collect", "store", "revoke", "enroll"}
           /\ req'[r].pc # "scope" /\ req'[r].out # "refused"
           /\ UNCHANGED <<owner, belongs>>
<1>1. CASE View(r)
  BY <1>1, ViewLocal DEF View, Answered, tables
<1>2. CASE CheckDuplicates(r)
  BY <1>2, CheckDuplicatesLocal DEF CheckDuplicates, Answered, Keeps
<1>3. CASE MatchProbe(r)
  BY <1>3, MatchLocal DEF MatchProbe, Answered, tables
<1>4. CASE ReadEvidence(r)
  BY <1>4, ReadEvidenceLocal DEF ReadEvidence, tables
<1>5. CASE Collected(r)
  BY <1>5, CollectedLocal DEF Collected, Answered, tables
<1>6. ASSUME NEW o \in Outcome, RevokeTemplate(r, o)
      PROVE  /\ OnlyOf(r) /\ Kept(req[r], req'[r]) /\ req[r].pc = "revoke"
             /\ req'[r].pc # "scope" /\ req'[r].out # "refused"
             /\ UNCHANGED <<owner, belongs>>
  BY <1>6, RevokeLocal DEF RevokeTemplate, Keeps
<1>7. ASSUME NEW o \in Outcome, NEW t \in Template, EnrollTemplate(r, t, o)
      PROVE  /\ OnlyOf(r) /\ Kept(req[r], req'[r]) /\ req[r].pc = "enroll"
             /\ req'[r].pc # "scope" /\ req'[r].out # "refused"
             /\ UNCHANGED <<owner, belongs>>
  BY <1>7, EnrollLocal DEF EnrollTemplate, Keeps
<1>8. ASSUME NEW o \in Outcome, NEW i \in Item, StoreItem(r, i, o)
      PROVE  /\ OnlyOf(r) /\ Kept(req[r], req'[r]) /\ req[r].pc = "store"
             /\ req'[r].pc # "scope" /\ req'[r].out # "refused"
             /\ UNCHANGED <<owner, belongs>>
  BY <1>8, StoreLocal DEF StoreItem
<1>9. QED  BY <1>1, <1>2, <1>3, <1>4, <1>5, <1>6, <1>7, <1>8 DEF Beyond

LEMMA ScopeBeyond ==
    ASSUME Typed, ScopeInv, NEW r \in Req, Beyond(r)
    PROVE  InScope(req[r])'
<1>1. PICK l : l = req[r]  OBVIOUS
<1>2. PICK m : m = req'[r]  OBVIOUS
<1>3. l \in Request /\ Shape(l) /\ InScope(l)  BY <1>1, ReqLocal DEF Local, ScopeInv
<1>4. /\ OnlyOf(r) /\ Kept(l, m) /\ m.pc # "scope" /\ m.out # "refused"
      /\ l.pc \in {"view", "check", "match", "collect", "store", "revoke", "enroll"}
      /\ UNCHANGED <<owner, belongs>>
  BY <1>1, <1>2, BeyondLocal
<1>5. m \in Request /\ Shape(m)  BY <1>2, <1>4 DEF OnlyOf
<1>6. l.op \notin {"create", "list"} /\ l.pc \notin {"scope", "done"}  BY <1>3, <1>4 DEF Shape
<1>7. InScope(m)'  BY <1>3, <1>4, <1>5, <1>6, ScopeAdvance
<1>8. QED
  BY <1>2, <1>7 DEF InScope, PassedScope, Stamped, Allowed, can_view_scoped_resource

LEMMA ScopeArrives ==
    ASSUME Typed, ScopeInv, NEW r \in Req, Arrives(r)
    PROVE  InScope(req[r])' /\ Creators'
<1>1. PICK m : m = req'[r]  OBVIOUS
<1>2. /\ OnlyOf(r) /\ Arrived(m) /\ UNCHANGED <<owner, belongs>>
  BY <1>1, ArrivesLocal DEF tables
<1>3. m \in Request /\ Shape(m)  BY <1>1, <1>2 DEF OnlyOf
<1>4. m.who \in User => belongs[m.who] \in m.held  BY <1>2 DEF Arrived
<1>5. m.pc \in {"primary", "scope", "collect", "view", "list", "match"} /\ m.out = "none"
  BY <1>2 DEF Arrived
<1>6. m.pc = "primary" => owner[m.on] = "absent"  BY <1>2 DEF Arrived
<1>7. m.op \in Scoped => owner[m.on] # "absent"  BY <1>2 DEF Arrived, Scoped
<1>8. PassedScope(m) => m.who = None
  BY <1>2, RegistryAssumption DEF Arrived, PassedScope, Scoped
<1>9. InScope(m)'
  BY <1>2, <1>4, <1>5, <1>6, <1>7, <1>8 DEF InScope, PassedScope, Stamped
<1>10. InScope(req[r])'
  BY <1>1, <1>9 DEF InScope, PassedScope, Stamped, Allowed, can_view_scoped_resource
<1>11. m.op = "create" => \A q \in Req : req[q].op = "create" => req[q].on # m.on
  BY <1>2 DEF Arrived, Scoped
<1>12. Creators'
  BY <1>1, <1>2, <1>11 DEF ScopeInv, Creators, OnlyOf
<1>13. QED  BY <1>10, <1>12

LEMMA ScopeOthers ==
    ASSUME Typed, ScopeInv, NEW r \in Req, OnlyOf(r), UNCHANGED belongs,
           \A x \in Resource : owner[x] # "absent" => owner'[x] = owner[x],
           \A q \in Req \ {r} :
               req[q].pc \in {"primary", "insert"} => owner'[req[q].on] = "absent",
           NEW q \in Req \ {r}
    PROVE  InScope(req[q])'
<1>1. PICK l : l = req[q]  OBVIOUS
<1>2. l \in Request /\ Shape(l) /\ InScope(l)  BY <1>1, ReqLocal DEF Local, ScopeInv
<1>3. InScope(l)'  BY <1>1, <1>2, ScopeSame
<1>4. req'[q] = l  BY <1>1 DEF OnlyOf
<1>5. QED
  BY <1>3, <1>4 DEF InScope, PassedScope, Stamped, Allowed, can_view_scoped_resource

LEMMA ScopeMoves ==
    ASSUME Typed, ScopeInv, Moves
    PROVE  ScopeInv'
<1>1. MembersMatch'  BY MovesMatch DEF ScopeInv
<1>2. /\ \A r \in Req : SameButHeld(req[r], req'[r]) /\ req[r].held \subseteq req'[r].held
      /\ req' \in [Req -> Request] /\ UNCHANGED owner
      /\ \A r \in Req : req[r].who \in User /\ req[r].pc # "done" =>
            belongs'[req[r].who] = belongs[req[r].who] \/ belongs'[req[r].who] \in req'[r].held
  BY MovesFacts
<1>3. Creators'  BY <1>2 DEF ScopeInv, Creators, SameButHeld
<1>4. ASSUME NEW r \in Req PROVE InScope(req[r])'
  <2>1. PICK l : l = req[r]  OBVIOUS
  <2>2. PICK m : m = req'[r]  OBVIOUS
  <2>3. l \in Request /\ Shape(l) /\ InScope(l)  BY <2>1, ReqLocal DEF Local, ScopeInv
  <2>4. m \in Request /\ SameButHeld(l, m) /\ l.held \subseteq m.held
    BY <1>2, <2>1, <2>2
  <2>5. l.who \in User /\ l.pc # "done" =>
            belongs'[l.who] = belongs[l.who] \/ belongs'[l.who] \in m.held
    BY <1>2, <2>1, <2>2
  <2>6. InScope(m)'  BY <1>2, <2>3, <2>4, <2>5, ScopeTold
  <2>7. QED
    BY <2>2, <2>6 DEF InScope, PassedScope, Stamped, Allowed, can_view_scoped_resource
<1>5. QED  BY <1>1, <1>3, <1>4 DEF ScopeInv

LEMMA ScopeRestart ==
    ASSUME Typed, ScopeInv, Restart
    PROVE  ScopeInv'
<1>1. /\ \A r \in Req : (req'[r] = req[r] /\ Free(r)) \/ req'[r] = Idle
      /\ UNCHANGED <<owner, belongs, members>>
  BY RestartFacts DEF tables
<1>2. MembersMatch'  BY <1>1 DEF ScopeInv, MembersMatch, user_organization_ids
<1>3. Creators'  BY <1>1 DEF ScopeInv, Creators, Idle
<1>4. ASSUME NEW r \in Req PROVE InScope(req[r])'
  <2>1. CASE req'[r] = req[r]
    BY <1>1, <2>1 DEF ScopeInv, InScope, PassedScope, Stamped, Allowed, can_view_scoped_resource
  <2>2. CASE req'[r] = Idle
    BY <2>2, ScopeIdle DEF InScope, PassedScope, Stamped, Allowed, can_view_scoped_resource
  <2>3. QED  BY <1>1, <2>1, <2>2
<1>5. QED  BY <1>2, <1>3, <1>4 DEF ScopeInv

LEMMA ScopeInit == Init => ScopeInv
<1> SUFFICES ASSUME Init PROVE ScopeInv
  OBVIOUS
<1>1. MembersMatch
  <2>1. ASSUME NEW u \in User PROVE user_organization_ids(members, u) = belongs[u]
    <3>1. \A o \in Org, n \in Place :
             members[<<u, o, n>>] = IF n = None /\ o \in belongs[u] THEN 1 ELSE 0
      BY DEF Init
    <3>2. ASSUME NEW o \in Org
          PROVE  (\E n \in Place : members[<<u, o, n>>] > 0) <=> o \in belongs[u]
      <4>1. CASE o \in belongs[u]
        <5>1. None \in Place /\ members[<<u, o, None>>] = 1  BY <3>1, <4>1 DEF Place
        <5>2. QED  BY <4>1, <5>1
      <4>2. CASE o \notin belongs[u]
        <5>1. \A n \in Place : members[<<u, o, n>>] = 0  BY <3>1, <4>2
        <5>2. \A n \in Place : ~(members[<<u, o, n>>] > 0)  BY <5>1
        <5>3. QED  BY <4>2, <5>2
      <4>3. QED  BY <4>1, <4>2
    <3>3. belongs[u] \subseteq Org  BY RegistryAssumption DEF Init
    <3>4. QED  BY <3>2, <3>3 DEF user_organization_ids
  <2>2. QED  BY <2>1 DEF MembersMatch
<1>2. Creators  BY DEF Init, Creators, Idle
<1>3. \A r \in Req : req[r] = Idle  BY DEF Init
<1>4. \A r \in Req : InScope(req[r])  BY <1>3, ScopeIdle
<1>5. QED  BY <1>1, <1>2, <1>4 DEF ScopeInv

LEMMA ScopeStep == Typed /\ ScopeInv /\ [Next]_vars => ScopeInv'
<1> SUFFICES ASSUME Typed, ScopeInv, [Next]_vars PROVE ScopeInv'
  OBVIOUS
<1>1. CASE Moves  BY <1>1, ScopeMoves
<1>2. ASSUME NEW r \in Req, Arrives(r) PROVE ScopeInv'
  <2>1. OnlyOf(r) /\ UNCHANGED <<owner, belongs, members>>  BY <1>2, ArrivesLocal DEF tables
  <2>2. MembersMatch'  BY <2>1 DEF ScopeInv, MembersMatch, user_organization_ids
  <2>3. InScope(req[r])' /\ Creators'  BY <1>2, ScopeArrives
  <2>4. \A q \in Req : req[q].pc \in {"primary", "insert"} => owner[req[q].on] = "absent"
    BY DEF ScopeInv, InScope
  <2>5. \A q \in Req \ {r} : InScope(req[q])'  BY <2>1, <2>4, ScopeOthers
  <2>6. QED  BY <2>2, <2>3, <2>5 DEF ScopeInv
<1>3. ASSUME NEW r \in Req, Acts(r) PROVE ScopeInv'
  <2>1. OnlyOf(r) /\ UNCHANGED <<belongs, members>>  BY <1>3, ActsTables
  <2>2. MembersMatch'  BY <2>1 DEF ScopeInv, MembersMatch, user_organization_ids
  <2>3. /\ \A x \in Resource : owner[x] # "absent" => owner'[x] = owner[x]
        /\ \A q \in Req \ {r} :
              req[q].pc \in {"primary", "insert"} => owner'[req[q].on] = "absent"
        /\ req'[r].op = "create" => req[r].op = "create" /\ req'[r].on = req[r].on
    BY <1>3, OwnersStay
  <2>4. Creators'  BY <2>1, <2>3 DEF ScopeInv, Creators, OnlyOf
  <2>5. InScope(req[r])'
    <3>1. CASE Drop(r)
      <4>1. req'[r] = Idle  BY <3>1, DropLocal
      <4>2. QED
        BY <4>1, ScopeIdle DEF InScope, PassedScope, Stamped, Allowed, can_view_scoped_resource
    <3>2. QED
      BY <1>3, <3>1, ScopeStamp, ScopeInsert, ScopeCheck, ScopeList, ScopePage, ScopeSave,
         ScopeBeyond DEF Acts, Beyond
  <2>6. \A q \in Req \ {r} : InScope(req[q])'  BY <2>1, <2>3, ScopeOthers
  <2>7. QED  BY <2>2, <2>4, <2>5, <2>6 DEF ScopeInv
<1>4. CASE Restart  BY <1>4, ScopeRestart
<1>5. CASE UNCHANGED vars
  BY <1>5 DEF vars, tables, ScopeInv, MembersMatch, Creators, InScope, PassedScope, Stamped,
              Allowed, can_view_scoped_resource, user_organization_ids
<1>6. QED  BY <1>1, <1>2, <1>3, <1>4, <1>5, NextCases

LEMMA ScopeInvDecides == Typed /\ ScopeInv => ScopeDecides
<1> SUFFICES ASSUME Typed, ScopeInv, NEW r \in Req
             PROVE  LET l == req[r]
                        May(x) == \E orgs \in l.held :
                                     can_view_scoped_resource(l.who, orgs, owner[x])
                    IN  /\ PassedScope(l) /\ l.who # None => May(l.on)
                        /\ Ok(r, "list") /\ ~l.blind => \A s \in l.shown : May(s)
                        /\ l.out = "refused" /\ ~l.blind =>
                               \E orgs \in l.held :
                                  ~can_view_scoped_resource(l.who, orgs, owner[l.on])
  BY DEF ScopeDecides
<1>1. InScope(req[r])  BY DEF ScopeInv
<1>2. QED  BY <1>1 DEF InScope, Allowed, Ok

\* Scoping is decided by memberships that the user has had during the request
\* (ScopeDecides), whatever changes between its statements and whatever fails.
THEOREM ScopingIsDecided == Spec => []ScopeDecides
<1>1. Init => Typed /\ ScopeInv  BY TypedInit, ScopeInit
<1>2. Typed /\ ScopeInv /\ [Next]_vars => (Typed /\ ScopeInv)'  BY TypedStep, ScopeStep
<1>3. Typed /\ ScopeInv => ScopeDecides  BY ScopeInvDecides
<1>4. QED  BY <1>1, <1>2, <1>3, PTL DEF Spec

LEMMA ScopeInvStamps == Typed /\ ScopeInv => StampedByCreator
BY DEF ScopeInv, InScope, Stamped, StampedByCreator

\* What is created belongs to an organization its creator was in (StampedByCreator),
\* and its owner does not change afterwards.
THEOREM StampsAreTheCreators == Spec => []StampedByCreator
<1>1. Init => Typed /\ ScopeInv  BY TypedInit, ScopeInit
<1>2. Typed /\ ScopeInv /\ [Next]_vars => (Typed /\ ScopeInv)'  BY TypedStep, ScopeStep
<1>3. Typed /\ ScopeInv => StampedByCreator  BY ScopeInvStamps
<1>4. QED  BY <1>1, <1>2, <1>3, PTL DEF Spec
=============================================================================
