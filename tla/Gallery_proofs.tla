--------------------------- MODULE Gallery_proofs ---------------------------
(***************************************************************************)
(* Proofs about the two tables of Gallery under the handlers of Registry:  *)
(* what enrolments, revocations and matches that were answered with        *)
(* success can rely on, and which evidence is stored, for any number of    *)
(* requests, candidates, templates, items, faults and restarts.            *)
(*                                                                         *)
(* The predicates on a request take the table and the log as arguments, so *)
(* that each can be carried over from one state to the next.               *)
(***************************************************************************)
EXTENDS Registry_proofs

\* A row that anything has happened to is in the table, and one in the table has
\* a vector exactly when the index could be used as it was inserted.
RowOK(row) ==
    /\ row.revoked \/ row.told => row.of # NoOne
    /\ row.of # NoOne => row.vec = row.ready

RowsOK == \A t \in Template : RowOK(templates[t])

\* What the table keeps for ever.
Outlasts(tab, later) ==
    \A t \in Template :
        /\ tab[t].of # NoOne => /\ later[t].of = tab[t].of /\ later[t].look = tab[t].look
                                /\ later[t].ready = tab[t].ready
        /\ tab[t].revoked => later[t].revoked
        /\ tab[t].told => later[t].told

\* A handler of the operation whose statement has taken effect.
Enrolling(l) == l.op = "enroll" /\ (l.pc \in {"record", "check"} \/ l.out = "ok")
Revoking(l) == l.op = "revoke" /\ (l.pc = "record" \/ l.out = "ok")
Matched(l) == l.op = "match" /\ l.out = "ok"
Recording(l) ==
    l.op \in {"create", "enroll", "revoke"} /\ l.on \in Candidate /\ (l.pc = "check" \/ l.out = "ok")

\* The request was shown k candidates, each as much alike as s or more.
FullOf(l, tab, ts, k, s) ==
    /\ Cardinality(l.shown) = k
    /\ \A c \in l.shown : Reaches(tab, ts, c, l.look, s)

\* What the tables say of what a request believes.
Backed(l, tab, lg) ==
    /\ Enrolling(l) => tab[l.tmpl].of = l.on /\ tab[l.tmpl].look = l.look
    /\ Revoking(l) => tab[l.tmpl].revoked
    /\ Recording(l) => RecordOf(l) \in lg
    /\ l.pc = "match" \/ Matched(l) => \A t \in l.told : tab[t].told
    /\ l.pc = "match" => \A t \in l.gone : tab[t].revoked
    /\ Matched(l) => \A c \in l.shown : \E t \in Template \ l.gone : tab[t].of = c
    /\ Matched(l) /\ ~l.blind =>
          \A t \in l.told :
              \/ tab[t].revoked
              \/ PgvectorReady(l.via) /\ ~tab[t].ready
              \/ tab[t].of \in l.shown
              \/ FullOf(l, tab, Template \ l.gone, top_k, Score[tab[t].look][l.look])

\* Two enrolments of look-alikes: one of them was warned, or was shown a full list.
Warned(a, b, tab) ==
    /\ a.op = "enroll" /\ a.out = "ok" /\ b.op = "enroll" /\ b.out = "ok"
    /\ a.on # b.on /\ Score[a.look][b.look] >= DUPLICATE_TEMPLATE_SIMILARITY_THRESHOLD
    /\ ~a.blind /\ ~b.blind
    /\ ~tab[a.tmpl].revoked /\ ~tab[b.tmpl].revoked
    => \/ b.on \in a.shown \/ a.on \in b.shown
       \/ FullOf(a, tab, Template, warned_k, Score[a.look][b.look])
       \/ FullOf(b, tab, Template, warned_k, Score[a.look][b.look])

PairsOK ==
    \A r, q \in Req :
        /\ Revoking(req[r]) /\ Revoking(req[q]) /\ req[r].tmpl = req[q].tmpl => r = q
        /\ Warned(req[r], req[q], templates)

RowsInv == RowsOK /\ (\A r \in Req : Backed(req[r], templates, log)) /\ PairsOK

-----------------------------------------------------------------------------
\* The table.

Keeping == \A t \in Template : RowOK(templates'[t])

LEMMA EnrollRows ==
    ASSUME Typed, RowsOK, NEW r \in Req, NEW t \in Template, NEW o \in Outcome,
           EnrollTemplate(r, t, o)
    PROVE  Keeping /\ Outlasts(templates, templates')
<1>1. templates \in [Template -> Row]  BY DEF Typed, TypeOK
<1>2. CASE templates' = templates
  BY <1>2 DEF Keeping, RowsOK, Outlasts
<1>3. CASE templates' = insert_template(templates, t, req[r].on, req[r].look, mode)
  <2>1. req[r].on \in Candidate /\ req[r].on # NoOne
    BY ReqLocal, GalleryAssumption DEF EnrollTemplate, At, Local, Shape
  <2>2. templates[t].of = NoOne /\ ~templates[t].revoked /\ ~templates[t].told
    BY DEF EnrollTemplate, RowsOK, RowOK
  <2>3. PICK row : row = [of |-> req[r].on, look |-> req[r].look, revoked |-> FALSE,
                          vec |-> PgvectorReady(mode), ready |-> PgvectorReady(mode),
                          told |-> FALSE]
    OBVIOUS
  <2>4. templates' = [templates EXCEPT ![t] = row]
    BY <1>3, <2>3 DEF insert_template
  <2>5. RowOK(row)  BY <2>1, <2>3 DEF RowOK
  <2>6. \A s \in Template : templates'[s] = IF s = t THEN row ELSE templates[s]
    BY <1>1, <2>4
  <2>7. Keeping  BY <2>5, <2>6 DEF Keeping, RowsOK
  <2>8. Outlasts(templates, templates')  BY <2>2, <2>6 DEF Outlasts
  <2>9. QED  BY <2>7, <2>8
<1>4. QED  BY <1>2, <1>3 DEF EnrollTemplate

LEMMA RevokeRows ==
    ASSUME Typed, RowsOK, NEW r \in Req, NEW o \in Outcome, RevokeTemplate(r, o)
    PROVE  Keeping /\ Outlasts(templates, templates')
<1>1. templates \in [Template -> Row]  BY DEF Typed, TypeOK
<1>2. CASE templates' = templates
  BY <1>2 DEF Keeping, RowsOK, Outlasts
<1>3. CASE Revocable(templates, req[r].tmpl) /\ templates' = revoke_template(templates, req[r].tmpl)
  <2>1. PICK t \in Template : t = req[r].tmpl /\ templates[t].of # NoOne
    BY <1>3 DEF Revocable, list_active_templates
  <2>2. PICK row : row = [templates[t] EXCEPT !.revoked = TRUE]  OBVIOUS
  <2>3. /\ row.of = templates[t].of /\ row.look = templates[t].look /\ row.revoked
        /\ row.vec = templates[t].vec /\ row.ready = templates[t].ready
        /\ row.told = templates[t].told
    BY <1>1, <2>2 DEF Row
  <2>4. \A s \in Template : templates'[s] = IF s = t THEN row ELSE templates[s]
    BY <1>1, <1>3, <2>1, <2>2 DEF revoke_template
  <2>5. Keeping  BY <2>1, <2>3, <2>4 DEF Keeping, RowsOK, RowOK
  <2>6. Outlasts(templates, templates')  BY <2>3, <2>4 DEF Outlasts
  <2>7. QED  BY <2>5, <2>6
<1>4. QED  BY <1>2, <1>3 DEF RevokeTemplate

LEMMA CheckRows ==
    ASSUME Typed, RowsInv, NEW r \in Req, CheckDuplicates(r)
    PROVE  /\ Keeping /\ Outlasts(templates, templates')
           /\ \A t \in Template : /\ templates'[t].of = templates[t].of
                                  /\ templates'[t].look = templates[t].look
                                  /\ templates'[t].revoked = templates[t].revoked
<1>1. templates \in [Template -> Row]  BY DEF Typed, TypeOK
<1>2. req[r].pc = "check"  BY DEF CheckDuplicates, At
<1>3. req[r].op = "enroll" /\ req[r].tmpl \in Template /\ req[r].on \in Candidate
  BY <1>2, ReqLocal DEF Local, Shape
<1>4. PICK t \in Template : t = req[r].tmpl  BY <1>3
<1>5. templates[t].of # NoOne
  <2>1. Backed(req[r], templates, log)  BY DEF RowsInv
  <2>2. templates[t].of = req[r].on  BY <1>2, <1>3, <1>4, <2>1 DEF Backed, Enrolling
  <2>3. QED  BY <1>3, <2>2, GalleryAssumption
<1>6. PICK row : row = [templates[t] EXCEPT !.told = TRUE]  OBVIOUS
<1>7. /\ row.of = templates[t].of /\ row.look = templates[t].look /\ row.told
      /\ row.vec = templates[t].vec /\ row.ready = templates[t].ready
      /\ row.revoked = templates[t].revoked
  BY <1>1, <1>6 DEF Row
<1>8. \A s \in Template : templates'[s] = IF s = t THEN row ELSE templates[s]
  BY <1>1, <1>4, <1>6 DEF CheckDuplicates
<1>9. Keeping  BY <1>5, <1>7, <1>8 DEF Keeping, RowsInv, RowsOK, RowOK
<1>10. Outlasts(templates, templates')  BY <1>7, <1>8 DEF Outlasts
<1>11. QED  BY <1>7, <1>8, <1>9, <1>10

LEMMA ActsRows ==
    ASSUME Typed, RowsInv, NEW r \in Req, Acts(r)
    PROVE  Keeping /\ Outlasts(templates, templates') /\ log \subseteq log'
<1>1. RowsOK  BY DEF RowsInv
<1>2. ASSUME templates' = templates
      PROVE  Keeping /\ Outlasts(templates, templates')
  BY <1>1, <1>2 DEF Keeping, RowsOK, Outlasts
<1>3. CASE StampOwner(r) \/ CheckScope(r) \/ View(r) \/ ReadListScope(r) \/ ListPage(r)
           \/ MatchProbe(r) \/ ReadEvidence(r) \/ Collected(r) \/ Drop(r)
  BY <1>2, <1>3 DEF StampOwner, CheckScope, View, ReadListScope, ListPage, MatchProbe,
                    ReadEvidence, Collected, Drop, tables
<1>4. CASE CheckDuplicates(r)
  BY <1>4, CheckRows DEF CheckDuplicates
<1>5. ASSUME NEW o \in Outcome, InsertResource(r, o) \/ SaveMandatory(r, o)
      PROVE  Keeping /\ Outlasts(templates, templates') /\ log \subseteq log'
  <2>1. templates' = templates  BY <1>5 DEF InsertResource, SaveMandatory
  <2>2. log \subseteq log'  BY <1>5 DEF InsertResource, SaveMandatory
  <2>3. QED  BY <1>2, <2>1, <2>2
<1>6. ASSUME NEW o \in Outcome, RevokeTemplate(r, o)
      PROVE  Keeping /\ Outlasts(templates, templates') /\ log \subseteq log'
  BY <1>1, <1>6, RevokeRows DEF RevokeTemplate
<1>7. ASSUME NEW o \in Outcome, NEW t \in Template, EnrollTemplate(r, t, o)
      PROVE  Keeping /\ Outlasts(templates, templates') /\ log \subseteq log'
  BY <1>1, <1>7, EnrollRows DEF EnrollTemplate
<1>8. ASSUME NEW o \in Outcome, NEW i \in Item, StoreItem(r, i, o)
      PROVE  Keeping /\ Outlasts(templates, templates') /\ log \subseteq log'
  BY <1>2, <1>8 DEF StoreItem
<1>9. QED  BY <1>3, <1>4, <1>5, <1>6, <1>7, <1>8 DEF Acts

-----------------------------------------------------------------------------
\* One request.

LEMMA FullOutlasts ==
    ASSUME NEW l \in Request, NEW tab, NEW later, Outlasts(tab, later),
           NEW ts \in SUBSET Template, NEW k, NEW s, FullOf(l, tab, ts, k, s)
    PROVE  FullOf(l, later, ts, k, s)
<1>1. ASSUME NEW c \in l.shown PROVE Reaches(later, ts, c, l.look, s)
  <2>1. PICK t \in ts : tab[t].of = c /\ Score[tab[t].look][l.look] >= s
    BY DEF FullOf, Reaches
  <2>2. c \in Resource  BY DEF Request
  <2>3. tab[t].of # NoOne  BY <2>1, <2>2, RegistryAssumption DEF Resource
  <2>4. later[t].of = tab[t].of /\ later[t].look = tab[t].look  BY <2>3 DEF Outlasts
  <2>5. QED  BY <2>1, <2>4 DEF Reaches
<1>2. QED  BY <1>1 DEF FullOf

\* What a request can rely on is not taken away.
LEMMA BackedStays ==
    ASSUME NEW l \in Request, Shape(l), NEW tab, NEW later, NEW lg, NEW lg2,
           Backed(l, tab, lg), Outlasts(tab, later), lg \subseteq lg2,
           \A t \in Template : RowOK(tab[t])
    PROVE  Backed(l, later, lg2)
<1>1. Enrolling(l) => later[l.tmpl].of = l.on /\ later[l.tmpl].look = l.look
  BY GalleryAssumption DEF Backed, Enrolling, Shape, Outlasts
<1>2. Revoking(l) => later[l.tmpl].revoked
  BY DEF Backed, Revoking, Shape, Outlasts
<1>3. Recording(l) => RecordOf(l) \in lg2
  BY DEF Backed
<1>4. l.told \subseteq Template /\ l.gone \subseteq Template  BY DEF Request
<1>5. l.pc = "match" \/ Matched(l) => \A t \in l.told : later[t].told
  BY <1>4 DEF Backed, Outlasts
<1>6. l.pc = "match" => \A t \in l.gone : later[t].revoked
  BY <1>4 DEF Backed, Outlasts
<1>7. ASSUME Matched(l), NEW c \in l.shown
      PROVE  \E t \in Template \ l.gone : later[t].of = c
  <2>1. PICK t \in Template \ l.gone : tab[t].of = c  BY <1>7 DEF Backed
  <2>2. tab[t].of # NoOne  BY <1>7, <2>1, RegistryAssumption DEF Request, Resource
  <2>3. QED  BY <2>1, <2>2 DEF Outlasts
<1>8. ASSUME Matched(l), ~l.blind, NEW t \in l.told
      PROVE  \/ later[t].revoked
             \/ PgvectorReady(l.via) /\ ~later[t].ready
             \/ later[t].of \in l.shown
             \/ FullOf(l, later, Template \ l.gone, top_k, Score[later[t].look][l.look])
  <2>1. t \in Template /\ tab[t].told  BY <1>4, <1>8 DEF Backed
  <2>2. tab[t].of # NoOne  BY <2>1 DEF RowOK
  <2>3. /\ later[t].of = tab[t].of /\ later[t].look = tab[t].look
        /\ later[t].ready = tab[t].ready /\ (tab[t].revoked => later[t].revoked)
    BY <2>1, <2>2 DEF Outlasts
  <2>4. FullOf(l, tab, Template \ l.gone, top_k, Score[tab[t].look][l.look]) =>
            FullOf(l, later, Template \ l.gone, top_k, Score[later[t].look][l.look])
    BY <2>3, FullOutlasts
  <2>5. QED  BY <1>8, <2>3, <2>4 DEF Backed
<1>9. QED  BY <1>1, <1>2, <1>3, <1>5, <1>6, <1>7, <1>8 DEF Backed

\* A request that has neither stored, revoked, recorded nor matched anything.
LEMMA BackedVacuous ==
    ASSUME NEW l, NEW tab, NEW lg,
           \/ l.op \notin {"create", "enroll", "revoke", "match"} /\ l.pc # "match"
           \/ l.pc \notin {"record", "check", "match"} /\ l.out # "ok"
    PROVE  Backed(l, tab, lg) /\ ~Revoking(l)
BY DEF Backed, Enrolling, Revoking, Recording, Matched

\* What each statement makes of the request that runs it.
Advanced(l, m) ==
    /\ Backed(m, templates', log')
    /\ Revoking(m) => m.tmpl = l.tmpl /\ (Revoking(l) \/ Revocable(templates, m.tmpl))
    /\ m.op = "enroll" /\ m.out = "ok" => l.pc = "check"

LEMMA Vacuously ==
    ASSUME NEW l, NEW m,
           \/ m.op \notin {"create", "enroll", "revoke", "match"} /\ m.pc # "match"
           \/ m.pc \notin {"record", "check", "match"} /\ m.out # "ok"
    PROVE  Advanced(l, m)
BY BackedVacuous DEF Advanced

LEMMA BackedEnroll ==
    ASSUME Typed, NEW r \in Req, NEW t \in Template, NEW o \in Outcome, EnrollTemplate(r, t, o)
    PROVE  Advanced(req[r], req'[r])
<1>1. PICK l : l = req[r]  OBVIOUS
<1>2. PICK m : m = req'[r]  OBVIOUS
<1>3. /\ l.pc = "enroll" /\ Kept(l, m)
      /\ \/ m.pc = "done" /\ m.out = "error"
         \/ /\ m.pc = "record" /\ m.out = "none" /\ m.tmpl = t
            /\ templates' = insert_template(templates, t, l.on, l.look, mode)
  BY <1>1, <1>2, EnrollLocal
<1>4. l.op = "enroll" /\ m.op = "enroll"  BY <1>1, <1>3, ReqLocal DEF Local, Shape, Kept
<1>5. CASE m.pc = "done" /\ m.out = "error"
  BY <1>1, <1>2, <1>5, Vacuously
<1>6. CASE /\ m.pc = "record" /\ m.out = "none" /\ m.tmpl = t
           /\ templates' = insert_template(templates, t, l.on, l.look, mode)
  <2>1. templates \in [Template -> Row]  BY DEF Typed, TypeOK
  <2>2. templates'[t].of = l.on /\ templates'[t].look = l.look
    BY <1>6, <2>1 DEF insert_template
  <2>3. Backed(m, templates', log')
    BY <1>3, <1>4, <1>6, <2>2 DEF Backed, Enrolling, Revoking, Recording, Matched, Kept
  <2>4. QED  BY <1>1, <1>2, <1>4, <1>6, <2>3 DEF Advanced, Revoking
<1>7. QED  BY <1>3, <1>5, <1>6

LEMMA BackedRevoke ==
    ASSUME Typed, NEW r \in Req, NEW o \in Outcome, RevokeTemplate(r, o)
    PROVE  Advanced(req[r], req'[r])
<1>1. PICK l : l = req[r]  OBVIOUS
<1>2. PICK m : m = req'[r]  OBVIOUS
<1>3. /\ l.pc = "revoke" /\ Kept(l, m)
      /\ \/ m.pc = "done" /\ m.out = "error"
         \/ /\ m.pc = "record" /\ m.out = "none" /\ m.tmpl = l.tmpl
            /\ Revocable(templates, l.tmpl)
            /\ templates' = revoke_template(templates, l.tmpl)
  BY <1>1, <1>2, RevokeLocal
<1>4. l.op = "revoke" /\ m.op = "revoke" /\ l.tmpl \in Template
  BY <1>1, <1>3, ReqLocal DEF Local, Shape, Kept
<1>5. CASE m.pc = "done" /\ m.out = "error"
  BY <1>1, <1>2, <1>5, Vacuously
<1>6. CASE /\ m.pc = "record" /\ m.out = "none" /\ m.tmpl = l.tmpl
           /\ Revocable(templates, l.tmpl)
           /\ templates' = revoke_template(templates, l.tmpl)
  <2>1. templates \in [Template -> Row]  BY DEF Typed, TypeOK
  <2>2. templates'[l.tmpl].revoked
    BY <1>4, <1>6, <2>1 DEF revoke_template, Row
  <2>3. Backed(m, templates', log')
    BY <1>3, <1>4, <1>6, <2>2 DEF Backed, Enrolling, Revoking, Recording, Matched, Kept
  <2>4. QED  BY <1>1, <1>2, <1>4, <1>6, <2>3 DEF Advanced
<1>7. QED  BY <1>3, <1>5, <1>6

LEMMA BackedSave ==
    ASSUME Typed, RowsInv, NEW r \in Req, NEW o \in Outcome, SaveMandatory(r, o)
    PROVE  Advanced(req[r], req'[r])
<1>1. PICK l : l = req[r]  OBVIOUS
<1>2. PICK m : m = req'[r]  OBVIOUS
<1>3. /\ l.pc = "record" /\ Kept(l, m) /\ m.tmpl = l.tmpl
      /\ \/ m.pc = "done" /\ m.out = "error"
         \/ /\ log' = log \cup {RecordOf(l)}
            /\ IF l.op = "enroll" THEN m.pc = "check" /\ m.out = "none"
               ELSE m.pc = "done" /\ m.out = "ok"
  BY <1>1, <1>2, SaveLocal
<1>4. l.op \in {"create", "enroll", "revoke"} /\ m.op = l.op
  BY <1>1, <1>3, ReqLocal DEF Local, Shape, Kept
<1>5. CASE m.pc = "done" /\ m.out = "error"
  BY <1>1, <1>2, <1>5, Vacuously
<1>6. CASE /\ log' = log \cup {RecordOf(l)}
           /\ IF l.op = "enroll" THEN m.pc = "check" /\ m.out = "none"
              ELSE m.pc = "done" /\ m.out = "ok"
  <2>1. Backed(l, templates, log)  BY <1>1 DEF RowsInv
  <2>2. templates' = templates  BY DEF SaveMandatory
  <2>3. RecordOf(m) = RecordOf(l)  BY <1>3 DEF RecordOf, Kept
  <2>4. /\ Enrolling(m) => Enrolling(l)
        /\ Revoking(m) => Revoking(l)
    BY <1>3, <1>4, <1>6 DEF Enrolling, Revoking
  <2>5. m.on = l.on /\ m.look = l.look /\ m.op # "match" /\ m.pc # "match"
    BY <1>3, <1>4, <1>6 DEF Kept
  <2>6. Backed(m, templates', log')
    BY <1>3, <1>6, <2>1, <2>2, <2>3, <2>4, <2>5 DEF Backed, Matched
  <2>7. m.op = "enroll" => m.out # "ok"  BY <1>4, <1>6
  <2>8. QED  BY <1>1, <1>2, <1>3, <2>4, <2>6, <2>7 DEF Advanced
<1>7. QED  BY <1>3, <1>5, <1>6

LEMMA BackedCheck ==
    ASSUME Typed, RowsInv, NEW r \in Req, CheckDuplicates(r)
    PROVE  Advanced(req[r], req'[r])
<1>1. PICK l : l = req[r]  OBVIOUS
<1>2. PICK m : m = req'[r]  OBVIOUS
<1>3. l.pc = "check" /\ Kept(l, m) /\ m.tmpl = l.tmpl /\ m.pc = "done" /\ m.out = "ok"
  BY <1>1, <1>2, CheckDuplicatesLocal DEF Answered
<1>4. l.op = "enroll" /\ m.op = "enroll" /\ l.tmpl \in Template
  BY <1>1, <1>3, ReqLocal DEF Local, Shape, Kept
<1>5. Backed(l, templates, log) /\ log' = log  BY <1>1 DEF RowsInv, CheckDuplicates
<1>6. templates[l.tmpl].of = l.on /\ templates[l.tmpl].look = l.look
  BY <1>3, <1>4, <1>5 DEF Backed, Enrolling
<1>7. templates'[l.tmpl].of = l.on /\ templates'[l.tmpl].look = l.look
  BY <1>4, <1>6, CheckRows
<1>8. RecordOf(m) = RecordOf(l)  BY <1>3 DEF RecordOf, Kept
<1>9. Recording(m) => RecordOf(m) \in log'
  BY <1>3, <1>4, <1>5, <1>8 DEF Backed, Recording, Kept
<1>10. Backed(m, templates', log')
  BY <1>3, <1>4, <1>7, <1>9 DEF Backed, Revoking, Matched, Kept
<1>11. QED  BY <1>1, <1>2, <1>3, <1>4, <1>10 DEF Advanced, Revoking

\* A list that leaves out the candidate of a ranked template is full of others
\* that are ranked no lower.
LEMMA LeftOut ==
    ASSUME NEW tab, NEW ts, NEW l, NEW k, NEW m \in top_k_matches(tab, ts, l, k),
           NEW t \in ts, tab[t].of \notin m
    PROVE  /\ Cardinality(m) = k
           /\ \A c \in m : Reaches(tab, ts, c, l, Score[tab[t].look][l])
BY DEF top_k_matches

LEMMA BackedMatch ==
    ASSUME Typed, RowsInv, NEW r \in Req, MatchProbe(r)
    PROVE  Advanced(req[r], req'[r])
<1>1. PICK l : l = req[r]  OBVIOUS
<1>2. PICK m : m = req'[r]  OBVIOUS
<1>4. /\ l.pc = "match"
      /\ \/ Answered(l, m, "error")
         \/ \E found \in search_top_k(templates, l.look, mode) :
               /\ Answered(l, m, "ok") /\ m.shown \subseteq found
               /\ m.blind \/ m.shown = found
               /\ m.via = mode
  BY <1>1, <1>2, MatchLocal
<1>5. l.op = "match" /\ m.op = "match" /\ m.pc = "done" /\ m.look = l.look
      /\ m.told = l.told /\ m.gone = l.gone
  BY <1>1, <1>4, ReqLocal DEF Local, Shape, Answered, Kept
<1>6. CASE Answered(l, m, "error")
  BY <1>1, <1>2, <1>6, Vacuously DEF Answered
<1>7. ASSUME NEW found \in search_top_k(templates, l.look, mode),
             Answered(l, m, "ok"), m.shown \subseteq found,
             m.blind \/ m.shown = found, m.via = mode
      PROVE  Advanced(l, m)
  <2>1. UNCHANGED <<templates, log>>  BY DEF MatchProbe, tables
  <2>2. Backed(l, templates, log) /\ RowsOK /\ l \in Request
    BY <1>1, ReqLocal DEF RowsInv, Local
  <2>3. /\ \A t \in l.told : templates[t].told
        /\ \A t \in l.gone : templates[t].revoked
        /\ l.told \subseteq Template
    BY <1>4, <2>2 DEF Backed, Request
  <2>4. PICK ts : /\ ts = IF PgvectorReady(mode)
                          THEN {t \in list_active_templates(templates) : templates[t].vec}
                          ELSE list_active_templates(templates)
                  /\ found \in top_k_matches(templates, ts, l.look, top_k)
    BY <1>7 DEF search_top_k, search_top_k_indexed
  <2>5. ASSUME NEW t \in ts
        PROVE  t \in Template \ m.gone /\ templates[t].of # NoOne
    BY <1>5, <2>3, <2>4 DEF list_active_templates
  <2>6. ASSUME NEW c \in m.shown
        PROVE  \E t \in Template \ m.gone : templates[t].of = c
    <3>1. \E t \in ts : templates[t].of = c  BY <1>7, <2>4 DEF top_k_matches
    <3>2. QED  BY <2>5, <3>1
  <2>7. ASSUME ~m.blind, NEW t \in m.told
        PROVE  \/ templates[t].revoked
               \/ PgvectorReady(m.via) /\ ~templates[t].ready
               \/ templates[t].of \in m.shown
               \/ FullOf(m, templates, Template \ m.gone, top_k,
                         Score[templates[t].look][m.look])
    <3>1. t \in Template /\ templates[t].told  BY <1>5, <2>3, <2>7
    <3>2. templates[t].of # NoOne /\ templates[t].vec = templates[t].ready
      BY <2>2, <3>1 DEF RowsOK, RowOK
    <3>3. m.shown = found  BY <1>7, <2>7
    <3>4. SUFFICES ASSUME ~templates[t].revoked, PgvectorReady(mode) => templates[t].ready,
                          templates[t].of \notin found
                   PROVE  FullOf(m, templates, Template \ m.gone, top_k,
                                 Score[templates[t].look][l.look])
      BY <1>5, <1>7, <3>3
    <3>5. t \in ts  BY <2>4, <3>1, <3>2, <3>4 DEF list_active_templates
    <3>6. /\ Cardinality(found) = top_k
          /\ \A c \in found :
                Reaches(templates, ts, c, l.look, Score[templates[t].look][l.look])
      <4>1. PICK k : k = l.look  OBVIOUS
      <4>2. found \in top_k_matches(templates, ts, k, top_k)  BY <2>4, <4>1
      <4>3. /\ Cardinality(found) = top_k
            /\ \A c \in found : Reaches(templates, ts, c, k, Score[templates[t].look][k])
        BY <3>4, <3>5, <4>2, LeftOut
      <4>4. QED  BY <4>1, <4>3
    <3>7. QED  BY <1>5, <2>5, <3>3, <3>6 DEF FullOf, Reaches
  <2>8. Backed(m, templates, log)
    BY <1>5, <2>3, <2>6, <2>7 DEF Backed, Enrolling, Revoking, Recording, Matched
  <2>9. QED  BY <1>5, <2>1, <2>8 DEF Advanced, Revoking
<1>8. QED  BY <1>1, <1>2, <1>4, <1>6, <1>7

LEMMA BackedInsert ==
    ASSUME Typed, NEW r \in Req, NEW o \in Outcome, InsertResource(r, o)
    PROVE  Advanced(req[r], req'[r])
<1>1. PICK l : l = req[r]  OBVIOUS
<1>2. PICK m : m = req'[r]  OBVIOUS
<1>3. /\ l.pc = "insert" /\ Kept(l, m)
      /\ \/ m.pc = "done" /\ m.out = "error"
         \/ m.pc = "done" /\ m.out = "ok" /\ l.on \in Search
         \/ m.pc = "record" /\ m.out = "none"
  BY <1>1, <1>2, InsertLocal
<1>4. l.op = "create"  BY <1>1, <1>3, ReqLocal DEF Local, Shape
<1>5. m.op = "create" /\ m.on = l.on  BY <1>3, <1>4 DEF Kept
<1>6. ~Recording(m)
  BY <1>3, <1>5, RegistryAssumption DEF Recording
<1>7. Backed(m, templates', log') /\ ~Revoking(m)
  BY <1>3, <1>5, <1>6 DEF Backed, Enrolling, Revoking, Matched
<1>8. QED  BY <1>1, <1>2, <1>5, <1>7 DEF Advanced

LEMMA BackedActs ==
    ASSUME Typed, RowsInv, NEW r \in Req, Acts(r)
    PROVE  Advanced(req[r], req'[r])
<1>1. PICK l : l = req[r]  OBVIOUS
<1>2. PICK m : m = req'[r]  OBVIOUS
<1>3. Shape(l)  BY <1>1, ReqLocal DEF Local
<1>4. CASE StampOwner(r)
  BY <1>4, StampLocal, Vacuously
<1>5. CASE CheckScope(r)
  <2>1. l.pc = "scope" /\ l.op \in Scoped  BY <1>1, <1>3, <1>5, CheckScopeLocal DEF Shape
  <2>2. m.pc \in {"done", AfterScope[l.op]} /\ m.out \in {"error", "none", "refused"}
    BY <1>1, <1>2, <1>5, CheckScopeLocal
  <2>3. AfterScope[l.op] \in Scoped  BY <2>1 DEF AfterScope, Scoped
  <2>4. m.pc \notin {"record", "check", "match"} /\ m.out # "ok"  BY <2>2, <2>3 DEF Scoped
  <2>5. QED  BY <1>1, <1>2, <2>4, Vacuously
<1>6. CASE View(r)
  <2>1. l.pc = "view" /\ (Answered(l, m, "ok") \/ Answered(l, m, "error"))
    BY <1>1, <1>2, <1>6, ViewLocal
  <2>2. l.op \in {"view", "read"}  BY <1>3, <2>1 DEF Shape
  <2>3. m.op \in {"view", "read"} /\ m.pc = "done"  BY <2>1, <2>2 DEF Answered, Kept
  <2>4. QED  BY <1>1, <1>2, <2>3, Vacuously
<1>7. CASE ReadListScope(r)
  BY <1>7, ListScopeLocal, Vacuously
<1>8. CASE ListPage(r)
  <2>1. l.pc = "page" /\ (Answered(l, m, "ok") \/ Answered(l, m, "error"))
    BY <1>1, <1>2, <1>8, PageLocal
  <2>2. l.op = "list"  BY <1>3, <2>1 DEF Shape
  <2>3. m.op = "list" /\ m.pc = "done"  BY <2>1, <2>2 DEF Answered, Kept
  <2>4. QED  BY <1>1, <1>2, <2>3, Vacuously
<1>9. CASE CheckDuplicates(r)  BY <1>9, BackedCheck
<1>10. CASE MatchProbe(r)  BY <1>10, BackedMatch
<1>11. CASE ReadEvidence(r)
  BY <1>11, ReadEvidenceLocal, Vacuously
<1>12. CASE Collected(r)
  <2>1. l.pc = "store" /\ Answered(l, m, "ok")  BY <1>1, <1>2, <1>12, CollectedLocal
  <2>2. l.op = "collect"  BY <1>3, <2>1 DEF Shape
  <2>3. m.op = "collect" /\ m.pc = "done"  BY <2>1, <2>2 DEF Answered, Kept
  <2>4. QED  BY <1>1, <1>2, <2>3, Vacuously
<1>13. CASE Drop(r)
  <2>1. m = Idle  BY <1>2, <1>13, DropLocal
  <2>2. m.pc = "idle" /\ m.out = "none"  BY <2>1 DEF Idle
  <2>3. QED  BY <1>1, <1>2, <2>2, Vacuously
<1>14. ASSUME NEW o \in Outcome, InsertResource(r, o) PROVE Advanced(req[r], req'[r])
  BY <1>14, BackedInsert
<1>15. ASSUME NEW o \in Outcome, RevokeTemplate(r, o) PROVE Advanced(req[r], req'[r])
  BY <1>15, BackedRevoke
<1>16. ASSUME NEW o \in Outcome, SaveMandatory(r, o) PROVE Advanced(req[r], req'[r])
  BY <1>16, BackedSave
<1>17. ASSUME NEW o \in Outcome, NEW t \in Template, EnrollTemplate(r, t, o)
       PROVE  Advanced(req[r], req'[r])
  BY <1>17, BackedEnroll
<1>18. ASSUME NEW o \in Outcome, NEW i \in Item, StoreItem(r, i, o)
       PROVE  Advanced(req[r], req'[r])
  BY <1>18, StoreLocal, Vacuously
<1>19. QED
  BY <1>4, <1>5, <1>6, <1>7, <1>8, <1>9, <1>10, <1>11, <1>12, <1>13, <1>14, <1>15, <1>16,
     <1>17, <1>18 DEF Acts

LEMMA BackedArrives ==
    ASSUME Typed, RowsInv, NEW r \in Req, Arrives(r)
    PROVE  /\ Backed(req'[r], templates, log)
           /\ ~Revoking(req'[r]) /\ req'[r].out # "ok"
<1>1. PICK m : m = req'[r]  OBVIOUS
<1>2. Arrived(m)  BY <1>1, ArrivesLocal
<1>3. m.out = "none" /\ m.pc \notin {"record", "check"}  BY <1>2 DEF Arrived
<1>4. CASE m.pc # "match"
  BY <1>1, <1>3, <1>4, BackedVacuous
<1>5. CASE m.pc = "match"
  <2>1. m.op = "match" /\ m.told = {t \in Template : templates[t].told}
        /\ m.gone = {t \in Template : templates[t].revoked}
    BY <1>2, <1>5 DEF Arrived
  <2>2. Backed(m, templates, log) /\ ~Revoking(m)
    BY <1>3, <2>1 DEF Backed, Enrolling, Revoking, Recording, Matched
  <2>3. QED  BY <1>1, <1>3, <2>2
<1>6. QED  BY <1>4, <1>5

\* A change of membership says nothing to any of it.
LEMMA BackedTold ==
    ASSUME NEW l, NEW m, SameButHeld(l, m), NEW tab, NEW lg, Backed(l, tab, lg)
    PROVE  Backed(m, tab, lg)
<1>1. RecordOf(m) = RecordOf(l)  BY DEF RecordOf, SameButHeld
<1>2. /\ Enrolling(m) <=> Enrolling(l)
      /\ Revoking(m) <=> Revoking(l)
      /\ Matched(m) <=> Matched(l)
      /\ Recording(m) <=> Recording(l)
  BY DEF SameButHeld, Enrolling, Revoking, Matched, Recording
<1>3. \A ts, k, s : FullOf(m, tab, ts, k, s) <=> FullOf(l, tab, ts, k, s)
  BY DEF FullOf, SameButHeld
<1>4. QED  BY <1>1, <1>2, <1>3 DEF Backed, SameButHeld

-----------------------------------------------------------------------------
\* Two requests.

LEMMA WarnedStays ==
    ASSUME NEW a \in Request, Shape(a), NEW b \in Request, Shape(b), NEW tab, NEW later,
           Warned(a, b, tab), Outlasts(tab, later)
    PROVE  Warned(a, b, later)
<1>1. \A s : /\ FullOf(a, tab, Template, warned_k, s) => FullOf(a, later, Template, warned_k, s)
             /\ FullOf(b, tab, Template, warned_k, s) => FullOf(b, later, Template, warned_k, s)
  BY FullOutlasts
<1>2. QED  BY <1>1 DEF Warned, Shape, Outlasts

LEMMA WarnedAsChecked ==
    ASSUME Typed, RowsInv, NEW r \in Req, CheckDuplicates(r), NEW q \in Req \ {r}
    PROVE  Warned(req'[r], req[q], templates')
<1>1. PICK l : l = req[r]  OBVIOUS
<1>2. PICK m : m = req'[r]  OBVIOUS
<1>3. PICK b : b = req[q]  OBVIOUS
<1>4. /\ l.pc = "check" /\ Answered(l, m, "ok")
      /\ m.blind \/ m.shown \in possible_duplicates(r)
  BY <1>1, <1>2, CheckDuplicatesLocal
<1>5. m.on = l.on /\ m.look = l.look /\ l.look \in Look
  BY <1>1, <1>4, ReqLocal DEF Answered, Kept, Local, Shape
<1>6. PICK likeness : likeness = Score[l.look][b.look]  OBVIOUS
<1>7. SUFFICES ASSUME b.op = "enroll", b.out = "ok", l.on # b.on, ~m.blind,
                      likeness >= DUPLICATE_TEMPLATE_SIMILARITY_THRESHOLD,
                      ~templates'[b.tmpl].revoked, b.on \notin m.shown
               PROVE  FullOf(m, templates', Template, warned_k, likeness)
  BY <1>2, <1>3, <1>5, <1>6 DEF Warned
<1>8. PICK t \in Template : t = b.tmpl  BY <1>3, <1>7, ReqLocal DEF Local, Shape
<1>9. b.on \in Candidate /\ b.look \in Look  BY <1>3, <1>7, ReqLocal DEF Local, Shape
<1>10. templates[t].of = b.on /\ templates[t].look = b.look
  BY <1>3, <1>7, <1>8 DEF RowsInv, Backed, Enrolling
<1>11. ~templates[t].revoked  BY <1>7, <1>8, CheckRows
<1>12. PICK ts : ts = OfOthers(r)  OBVIOUS
<1>13. t \in ts
  BY <1>1, <1>7, <1>9, <1>10, <1>11, <1>12, GalleryAssumption
     DEF OfOthers, list_active_templates
<1>14. PICK found \in top_k_matches(templates, ts, l.look, warned_k) :
          m.shown = {c \in found : Reaches(templates, ts, c, l.look,
                                           DUPLICATE_TEMPLATE_SIMILARITY_THRESHOLD)}
  BY <1>1, <1>4, <1>7, <1>12 DEF possible_duplicates, WarnedAmong
<1>15. Score[templates[t].look][l.look] = likeness /\ likeness \in Nat
  BY <1>5, <1>6, <1>9, <1>10, GalleryAssumption
<1>16. templates[t].of \notin found
  BY <1>7, <1>10, <1>13, <1>14, <1>15 DEF Reaches
<1>17. /\ Cardinality(found) = warned_k
       /\ \A c \in found : Reaches(templates, ts, c, l.look, likeness)
  BY <1>13, <1>14, <1>15, <1>16, LeftOut
<1>18. ASSUME NEW c \in found
       PROVE  /\ Reaches(templates, ts, c, l.look, DUPLICATE_TEMPLATE_SIMILARITY_THRESHOLD)
              /\ Reaches(templates', Template, c, l.look, likeness)
  <2>1. PICK u \in ts : templates[u].of = c /\ Score[templates[u].look][l.look] >= likeness
    BY <1>17 DEF Reaches
  <2>2. u \in Template  BY <1>12 DEF OfOthers, list_active_templates
  <2>3. templates[u].look \in Look  BY <2>2 DEF Typed, TypeOK, Row
  <2>4. Score[templates[u].look][l.look] \in Nat  BY <1>5, <2>3, GalleryAssumption
  <2>5. Score[templates[u].look][l.look] >= DUPLICATE_TEMPLATE_SIMILARITY_THRESHOLD
    BY <1>7, <1>15, <2>1, <2>4, GalleryAssumption
  <2>6. templates'[u].of = c /\ templates'[u].look = templates[u].look
    BY <2>1, <2>2, CheckRows
  <2>7. QED  BY <2>1, <2>2, <2>5, <2>6 DEF Reaches
<1>19. m.shown = found  BY <1>14, <1>18
<1>20. QED  BY <1>5, <1>17, <1>18, <1>19 DEF FullOf

LEMMA WarnedSelf == ASSUME NEW a, NEW tab PROVE Warned(a, a, tab)
BY DEF Warned

LEMMA WarnedEither ==
    ASSUME NEW a, Shape(a), NEW b, Shape(b), NEW tab, Warned(a, b, tab)
    PROVE  Warned(b, a, tab)
<1>1. SUFFICES ASSUME a.op = "enroll", b.op = "enroll" PROVE Warned(b, a, tab)
  BY DEF Warned
<1>2. Score[a.look][b.look] = Score[b.look][a.look]
  BY <1>1, GalleryAssumption DEF Shape
<1>3. QED  BY <1>2 DEF Warned

LEMMA PairsActs ==
    ASSUME Typed, RowsInv, NEW r \in Req, Acts(r), NEW p \in Req, NEW q \in Req
    PROVE  /\ Revoking(req'[p]) /\ Revoking(req'[q]) /\ req'[p].tmpl = req'[q].tmpl => p = q
           /\ Warned(req'[p], req'[q], templates')
<1>1. OnlyOf(r)  BY ActsTables
<1>2. Outlasts(templates, templates')  BY ActsRows
<1>3. Advanced(req[r], req'[r])  BY BackedActs
<1>4. \A s \in Req : Shape(req[s]) /\ req[s] \in Request  BY ReqLocal DEF Local
<1>5. \A s \in Req \ {r} : req'[s] = req[s]  BY <1>1 DEF OnlyOf
<1>6. ASSUME NEW s \in Req \ {r}
      PROVE  /\ ~(Revoking(req'[r]) /\ Revoking(req[s]) /\ req'[r].tmpl = req[s].tmpl)
             /\ Warned(req'[r], req[s], templates')
  <2>1. ~(Revoking(req'[r]) /\ Revoking(req[s]) /\ req'[r].tmpl = req[s].tmpl)
    <3>1. SUFFICES ASSUME Revoking(req'[r]), Revoking(req[s]), req'[r].tmpl = req[s].tmpl
                   PROVE  FALSE
      OBVIOUS
    <3>2. req'[r].tmpl = req[r].tmpl /\ (Revoking(req[r]) \/ Revocable(templates, req'[r].tmpl))
      BY <1>3, <3>1 DEF Advanced
    <3>3. templates[req[s].tmpl].revoked  BY <3>1 DEF RowsInv, Backed
    <3>4. ~Revocable(templates, req[s].tmpl)
      BY <3>3 DEF Revocable, list_active_templates
    <3>5. Revoking(req[r]) /\ req[r].tmpl = req[s].tmpl  BY <3>1, <3>2, <3>4
    <3>6. QED  BY <3>1, <3>5 DEF RowsInv, PairsOK
  <2>2. Warned(req'[r], req[s], templates')
    <3>1. CASE CheckDuplicates(r)  BY <3>1, WarnedAsChecked
    <3>2. CASE Drop(r)
      <4>1. req'[r].out = "none"  BY <3>2, DropLocal DEF Idle
      <4>2. QED  BY <4>1 DEF Warned
    <3>3. CASE ~CheckDuplicates(r) /\ ~Drop(r)
      <4>1. req[r].pc # "check"
        <5>1. ASSUME NEW o \in Outcome, NEW i \in Item, StoreItem(r, i, o)
              PROVE  req[r].pc = "store"
          BY <5>1 DEF StoreItem, At
        <5>2. QED
          BY <3>3, <5>1
          DEF Acts, StampOwner, CheckScope, View, ReadListScope, ListPage, MatchProbe,
              ReadEvidence, Collected, InsertResource, RevokeTemplate, SaveMandatory,
              EnrollTemplate, At
      <4>2. QED  BY <1>3, <4>1 DEF Advanced, Warned
    <3>4. QED  BY <3>1, <3>2, <3>3
  <2>3. QED  BY <2>1, <2>2
<1>7. CASE p = q  BY <1>7, WarnedSelf
<1>8. CASE p = r /\ q # r
  BY <1>5, <1>6, <1>8
<1>9. CASE p # r /\ q = r
  <2>1. req'[q] \in Request /\ Shape(req'[q])  BY <1>1 DEF OnlyOf
  <2>2. Warned(req'[q], req[p], templates')  BY <1>6, <1>9
  <2>3. Warned(req[p], req'[q], templates')  BY <1>4, <2>1, <2>2, WarnedEither
  <2>4. QED  BY <1>5, <1>6, <1>9, <2>3
<1>10. CASE p # r /\ q # r
  <2>1. Warned(req[p], req[q], templates)  BY DEF RowsInv, PairsOK
  <2>2. Warned(req[p], req[q], templates')  BY <1>2, <1>4, <2>1, WarnedStays
  <2>3. QED  BY <1>5, <1>10, <2>2 DEF RowsInv, PairsOK
<1>11. QED  BY <1>7, <1>8, <1>9, <1>10

-----------------------------------------------------------------------------
\* The invariant.

LEMMA RowsInit == Init => RowsInv
<1> SUFFICES ASSUME Init PROVE RowsInv
  OBVIOUS
<1>1. RowsOK
  <2>1. templates \in [Template -> Stored \cup {NoRow}]  BY RegistryAssumption DEF Init
  <2>2. RowOK(NoRow)  BY DEF RowOK, NoRow
  <2>3. \A row \in Stored : RowOK(row)  BY GalleryAssumption DEF RowOK, Stored
  <2>4. QED  BY <2>1, <2>2, <2>3 DEF RowsOK
<1>2. \A r \in Req : req[r] = Idle  BY DEF Init
<1>3. Idle.pc = "idle" /\ Idle.out = "none" /\ Idle.op = "none"  BY DEF Idle
<1>4. \A r \in Req : Backed(req[r], templates, log)
  BY <1>2, <1>3, BackedVacuous
<1>5. PairsOK  BY <1>2, <1>3 DEF PairsOK, Warned, Revoking
<1>6. QED  BY <1>1, <1>4, <1>5 DEF RowsInv

LEMMA RowsMoves == ASSUME Typed, RowsInv, Moves PROVE RowsInv'
<1>1. UNCHANGED <<templates, log>> /\ \A r \in Req : SameButHeld(req[r], req'[r])
  BY MovesFacts
<1>2. RowsOK'  BY <1>1 DEF RowsInv, RowsOK
<1>3. \A r \in Req : Backed(req'[r], templates, log)
  BY <1>1, BackedTold DEF RowsInv
<1>4. PairsOK'  BY <1>1 DEF RowsInv, PairsOK, Warned, FullOf, Revoking, SameButHeld
<1>5. QED  BY <1>1, <1>2, <1>3, <1>4 DEF RowsInv

LEMMA RowsArrives == ASSUME Typed, RowsInv, NEW r \in Req, Arrives(r) PROVE RowsInv'
<1>1. OnlyOf(r) /\ UNCHANGED <<templates, log>>  BY ArrivesLocal DEF tables
<1>2. RowsOK'  BY <1>1 DEF RowsInv, RowsOK
<1>3. \A q \in Req : Backed(req'[q], templates, log)
  BY <1>1, BackedArrives DEF RowsInv, OnlyOf
<1>4. ~Revoking(req'[r]) /\ req'[r].out # "ok"  BY BackedArrives
<1>5. ASSUME NEW p \in Req, NEW q \in Req
      PROVE  /\ Revoking(req'[p]) /\ Revoking(req'[q]) /\ req'[p].tmpl = req'[q].tmpl => p = q
             /\ Warned(req'[p], req'[q], templates)
  <2>1. CASE p = r \/ q = r  BY <1>4, <2>1 DEF Warned
  <2>2. CASE p # r /\ q # r  BY <1>1, <2>2 DEF RowsInv, PairsOK, OnlyOf
  <2>3. QED  BY <2>1, <2>2
<1>6. PairsOK'  BY <1>1, <1>5 DEF PairsOK
<1>7. QED  BY <1>1, <1>2, <1>3, <1>6 DEF RowsInv

LEMMA RowsActs == ASSUME Typed, RowsInv, NEW r \in Req, Acts(r) PROVE RowsInv'
<1>1. OnlyOf(r)  BY ActsTables
<1>2. Keeping /\ Outlasts(templates, templates') /\ log \subseteq log'  BY ActsRows
<1>3. RowsOK'  BY <1>2 DEF Keeping, RowsOK
<1>4. Backed(req'[r], templates', log')  BY BackedActs DEF Advanced
<1>5. \A q \in Req \ {r} : Backed(req[q], templates', log')
  BY <1>2, ReqLocal, BackedStays DEF RowsInv, RowsOK, Local
<1>6. \A q \in Req : Backed(req'[q], templates', log')
  BY <1>1, <1>4, <1>5 DEF OnlyOf
<1>7. PairsOK'  BY PairsActs DEF PairsOK
<1>8. QED  BY <1>3, <1>6, <1>7 DEF RowsInv

LEMMA RowsRestart == ASSUME Typed, RowsInv, Restart PROVE RowsInv'
<1>1. /\ \A r \in Req : req'[r] = req[r] \/ req'[r] = Idle
      /\ UNCHANGED <<templates, log>>
  BY RestartFacts DEF tables
<1>2. RowsOK'  BY <1>1 DEF RowsInv, RowsOK
<1>3. Idle.pc = "idle" /\ Idle.out = "none" /\ Idle.op = "none"  BY DEF Idle
<1>4. \A r \in Req : Backed(req'[r], templates, log)
  BY <1>1, <1>3, BackedVacuous DEF RowsInv
<1>5. ASSUME NEW p \in Req, NEW q \in Req
      PROVE  /\ Revoking(req'[p]) /\ Revoking(req'[q]) /\ req'[p].tmpl = req'[q].tmpl => p = q
             /\ Warned(req'[p], req'[q], templates)
  <2>1. CASE req'[p] = Idle \/ req'[q] = Idle  BY <1>3, <2>1 DEF Revoking, Warned
  <2>2. CASE req'[p] = req[p] /\ req'[q] = req[q]  BY <2>2 DEF RowsInv, PairsOK
  <2>3. QED  BY <1>1, <2>1, <2>2
<1>6. PairsOK'  BY <1>1, <1>5 DEF PairsOK
<1>7. QED  BY <1>1, <1>2, <1>4, <1>6 DEF RowsInv

LEMMA RowsStep == Typed /\ RowsInv /\ [Next]_vars => RowsInv'
<1> SUFFICES ASSUME Typed, RowsInv, [Next]_vars PROVE RowsInv'
  OBVIOUS
<1>1. CASE UNCHANGED vars
  BY <1>1 DEF vars, tables, RowsInv, RowsOK, PairsOK
<1>2. QED
  BY <1>1, NextCases, RowsMoves, RowsArrives, RowsActs, RowsRestart

LEMMA RowsInvariance == Spec => [](Typed /\ ScopeInv /\ RowsInv)
<1>1. Init => Typed /\ ScopeInv /\ RowsInv  BY TypedInit, ScopeInit, RowsInit
<1>2. Typed /\ ScopeInv /\ RowsInv /\ [Next]_vars => (Typed /\ ScopeInv /\ RowsInv)'
  BY TypedStep, ScopeStep, RowsStep
<1>3. QED  BY <1>1, <1>2, PTL DEF Spec

\* No success of a creation, an enrolment or a revocation without the row and its
\* mandatory record (AnsweredIsRecorded), whatever statement failed or was lost.
THEOREM AnswersAreRecorded == Spec => []AnsweredIsRecorded
<1>1. Typed /\ ScopeInv /\ RowsInv => AnsweredIsRecorded
  <2> SUFFICES ASSUME Typed, ScopeInv, RowsInv, NEW r \in Req
               PROVE  /\ Ok(r, "create") /\ req[r].on \in Candidate =>
                             owner[req[r].on] # "absent" /\ RecordOf(req[r]) \in log
                      /\ Ok(r, "enroll") => /\ templates[req[r].tmpl].of = req[r].on
                                            /\ RecordOf(req[r]) \in log
                      /\ Ok(r, "revoke") => /\ templates[req[r].tmpl].revoked
                                            /\ RecordOf(req[r]) \in log
    BY DEF AnsweredIsRecorded
  <2>1. PICK l : l = req[r]  OBVIOUS
  <2>2. l \in Request /\ Shape(l) /\ Backed(l, templates, log)
    BY <2>1, ReqLocal DEF Local, RowsInv
  <2>3. l.op = "create" /\ l.out = "ok" => owner[l.on] = l.org /\ l.org \in Org \cup {None}
    BY <2>1, <2>2 DEF ScopeInv, InScope, Stamped, Request
  <2>4. "absent" \notin Org \cup {None}  BY OrgAssumption, RegistryAssumption
  <2>5. l.op \in {"enroll", "revoke"} => l.on \in Candidate  BY <2>2 DEF Shape
  <2>6. QED
    BY <2>1, <2>2, <2>3, <2>4, <2>5 DEF Ok, Backed, Enrolling, Revoking, Recording
<1>2. QED  BY <1>1, RowsInvariance, PTL

\* One revocation of a template succeeds, and no later match rests on it
\* (RevocationIsFinal), however many requests race.
THEOREM RevocationsAreFinal == Spec => []RevocationIsFinal
<1>1. RowsInv => RevocationIsFinal
  BY DEF RowsInv, PairsOK, Backed, Matched, Revoking, RevocationIsFinal, Ok
<1>2. QED  BY <1>1, RowsInvariance, PTL

\* Of two enrolments of look-alikes one at least is warned of the other, or shown
\* warned_k others that are as much alike (LookalikesWarned).
THEOREM LookalikesAreSeen == Spec => []LookalikesWarned
<1>1. RowsInv => LookalikesWarned
  BY DEF RowsInv, PairsOK, Warned, FullOf, LookalikesWarned, Ok
<1>2. QED  BY <1>1, RowsInvariance, PTL

\* An answered enrolment is shown by a later match that can see its row, or top_k
\* candidates that are ranked no lower are (EnrolledIsFound), across restarts
\* with and without the vector index.
THEOREM EnrolmentsAreFound == Spec => []EnrolledIsFound
<1>1. RowsInv => EnrolledIsFound
  BY DEF RowsInv, Backed, Matched, FullOf, EnrolledIsFound, Ok
<1>2. QED  BY <1>1, RowsInvariance, PTL

-----------------------------------------------------------------------------
(***************************************************************************)
(* The collection of evidence: no two collections, one of them over when   *)
(* the other read what is stored, store one key twice for a candidate.     *)
(***************************************************************************)
Collecting(l) == l.op = "collect" /\ l.pc \notin {"idle", "done"}

\* What the stored items, of collections up to the b-th, say of a collection: it
\* knows the keys of its own items, and of those whose collection was over.
Informed(l, ev, b) ==
    /\ l.op = "collect" => 1 <= l.run /\ l.run <= b
    /\ l.op = "collect" /\ l.pc \in {"scope", "collect"} =>
          l.over = {} /\ \A e \in ev : e.run # l.run
    /\ l.pc = "store" =>
          /\ \A n \in l.over : n <= b
          /\ \A e \in ev :
                /\ e.run = l.run => e.on = l.on /\ KeyOf[e.item] \in l.seen
                /\ e.on = l.on /\ e.run \in l.over => KeyOf[e.item] \in l.seen

RowsNumbered(ev, b) ==
    \A e \in ev : 1 <= e.run /\ e.run <= b /\ \A n \in e.after : n <= b

\* A collection under way is not among those that were over for anyone.
NotOver(l, ev) == Collecting(l) => \A e \in ev : l.run \notin e.after
Apart(l, m) ==
    /\ l.op = "collect" /\ m.op = "collect" => l.run # m.run
    /\ Collecting(l) /\ m.pc = "store" => l.run \notin m.over

Once(ev) ==
    \A e, f \in ev :
        e # f /\ e.on = f.on /\ KeyOf[e.item] = KeyOf[f.item] =>
            e.run # f.run /\ e.run \notin f.after /\ f.run \notin e.after

OwnNotOver(l) == l.pc = "store" => l.run \notin l.over

EvidenceInv ==
    /\ RowsNumbered(evidence, begun)
    /\ \A r \in Req : /\ Informed(req[r], evidence, begun) /\ NotOver(req[r], evidence)
                      /\ OwnNotOver(req[r])
    /\ \A r, q \in Req : r # q => Apart(req[r], req[q])
    /\ Once(evidence)

-----------------------------------------------------------------------------
\* What is said of a request does not depend on anything but these fields.
SameCollection(l, m) ==
    /\ m.op = l.op /\ m.pc = l.pc /\ m.on = l.on /\ m.seen = l.seen
    /\ m.run = l.run /\ m.over = l.over

LEMMA EvidenceInit == Init => EvidenceInv
<1> SUFFICES ASSUME Init PROVE EvidenceInv
  OBVIOUS
<1>1. evidence = {} /\ \A r \in Req : req[r] = Idle  BY DEF Init
<1>2. Idle.pc = "idle" /\ Idle.op = "none"  BY DEF Idle
<1>3. RowsNumbered(evidence, begun) /\ Once(evidence)  BY <1>1 DEF RowsNumbered, Once
<1>4. \A r \in Req : /\ Informed(req[r], evidence, begun) /\ NotOver(req[r], evidence)
                     /\ OwnNotOver(req[r])
  BY <1>1, <1>2 DEF Informed, NotOver, Collecting, OwnNotOver
<1>5. \A r, q \in Req : Apart(req[r], req[q])
  BY <1>1, <1>2 DEF Apart, Collecting
<1>6. QED  BY <1>3, <1>4, <1>5 DEF EvidenceInv

\* A request that is no collection, or one that is over, is concerned by nothing.
LEMMA Unconcerned ==
    ASSUME NEW l, l.op # "collect", l.pc # "store", NEW ev, NEW b
    PROVE  /\ Informed(l, ev, b) /\ NotOver(l, ev) /\ OwnNotOver(l)
           /\ \A m : Apart(l, m) /\ Apart(m, l)
BY DEF Informed, NotOver, OwnNotOver, Apart, Collecting

LEMMA Unchanged ==
    ASSUME NEW l, NEW m, SameCollection(l, m)
    PROVE  /\ \A ev, b : Informed(l, ev, b) => Informed(m, ev, b)
           /\ \A ev : NotOver(l, ev) => NotOver(m, ev)
           /\ OwnNotOver(l) => OwnNotOver(m)
           /\ \A k : (Apart(l, k) => Apart(m, k)) /\ (Apart(k, l) => Apart(k, m))
BY DEF SameCollection, Informed, NotOver, OwnNotOver, Apart, Collecting

LEMMA Over ==
    ASSUME NEW l, NEW m, m.op = l.op, m.run = l.run, m.pc = "done"
    PROVE  /\ \A ev, b : Informed(l, ev, b) => Informed(m, ev, b)
           /\ \A ev : NotOver(m, ev)
           /\ OwnNotOver(m)
           /\ \A k : (Apart(l, k) => Apart(m, k)) /\ (Apart(k, l) => Apart(k, m))
BY DEF Informed, NotOver, OwnNotOver, Apart, Collecting

LEMMA EvidenceMoves == ASSUME Typed, EvidenceInv, Moves PROVE EvidenceInv'
<1>1. UNCHANGED <<evidence, begun>> /\ \A r \in Req : SameButHeld(req[r], req'[r])
  BY MovesFacts
<1>2. \A r \in Req : SameCollection(req[r], req'[r])
  BY <1>1 DEF SameButHeld, SameCollection
<1>3. \A r \in Req : /\ Informed(req'[r], evidence, begun) /\ NotOver(req'[r], evidence)
                     /\ OwnNotOver(req'[r])
  BY <1>2, Unchanged DEF EvidenceInv
<1>4. \A r, q \in Req : r # q => Apart(req'[r], req'[q])
  BY <1>2, Unchanged DEF EvidenceInv
<1>5. QED  BY <1>1, <1>3, <1>4 DEF EvidenceInv

LEMMA EvidenceRestart == ASSUME Typed, EvidenceInv, Restart PROVE EvidenceInv'
<1>1. /\ \A r \in Req : req'[r] = req[r] \/ req'[r] = Idle
      /\ UNCHANGED <<evidence, begun>>
  BY RestartFacts DEF tables
<1>2. Idle.op # "collect" /\ Idle.pc # "store"  BY DEF Idle
<1>3. \A r \in Req : /\ Informed(req'[r], evidence, begun) /\ NotOver(req'[r], evidence)
                     /\ OwnNotOver(req'[r])
  BY <1>1, <1>2, Unconcerned DEF EvidenceInv
<1>4. \A r, q \in Req : r # q => Apart(req'[r], req'[q])
  BY <1>1, <1>2, Unconcerned DEF EvidenceInv
<1>5. QED  BY <1>1, <1>3, <1>4 DEF EvidenceInv

LEMMA EvidenceArrives == ASSUME Typed, EvidenceInv, NEW r \in Req, Arrives(r) PROVE EvidenceInv'
<1>1. OnlyOf(r) /\ begun' = begun + 1 /\ UNCHANGED evidence  BY ArrivesLocal DEF tables
<1>2. PICK m : m = req'[r]  OBVIOUS
<1>3. Arrived(m)  BY <1>2, ArrivesLocal
<1>4. PICK b \in Nat : b = begun  BY DEF Typed, TypeOK
<1>5. evidence \subseteq EvidenceRow /\ \A q \in Req : req[q] \in Request
  BY DEF Typed, TypeOK
<1>6. RowsNumbered(evidence, b) /\ Once(evidence)  BY <1>4 DEF EvidenceInv
<1>7. RowsNumbered(evidence, b + 1)
  BY <1>4, <1>5, <1>6 DEF RowsNumbered, EvidenceRow
<1>8. ASSUME NEW q \in Req \ {r}
      PROVE  /\ Informed(req[q], evidence, b + 1) /\ NotOver(req[q], evidence)
             /\ OwnNotOver(req[q]) /\ Apart(req[q], m) /\ Apart(m, req[q])
  <2>1. PICK l \in Request : l = req[q]  BY <1>5
  <2>2. Informed(l, evidence, b) /\ NotOver(l, evidence) /\ OwnNotOver(l)
    BY <1>4, <2>1 DEF EvidenceInv
  <2>3. l.run \in Nat /\ l.over \subseteq Nat  BY DEF Request
  <2>4. Informed(l, evidence, b + 1)
    BY <1>4, <2>2, <2>3 DEF Informed
  <2>5. Apart(l, m) /\ Apart(m, l)
    <3>1. CASE m.op # "collect"
      <4>1. m.pc # "store"  BY <1>3 DEF Arrived
      <4>2. QED  BY <3>1, <4>1, Unconcerned
    <3>2. CASE m.op = "collect"
      <4>1. m.run = b + 1 /\ m.pc # "store"  BY <1>3, <1>4, <3>2 DEF Arrived
      <4>2. l.op = "collect" => l.run # m.run
        BY <1>4, <2>2, <2>3, <4>1 DEF Informed
      <4>3. l.pc = "store" => m.run \notin l.over
        BY <1>4, <2>2, <2>3, <4>1 DEF Informed
      <4>4. QED  BY <4>1, <4>2, <4>3 DEF Apart
    <3>3. QED  BY <3>1, <3>2
  <2>6. QED  BY <2>1, <2>2, <2>4, <2>5
<1>9. Informed(m, evidence, b + 1) /\ NotOver(m, evidence) /\ OwnNotOver(m)
  <2>1. CASE m.op # "collect"
    <3>1. m.pc # "store"  BY <1>3 DEF Arrived
    <3>2. QED  BY <2>1, <3>1, Unconcerned
  <2>2. CASE m.op = "collect"
    <3>1. m.run = b + 1 /\ m.pc \in {"scope", "collect"} /\ m.over = {}
      BY <1>3, <1>4, <2>2 DEF Arrived
    <3>2. \A e \in evidence : e.run # b + 1 /\ (b + 1) \notin e.after
      BY <1>4, <1>5, <1>6 DEF RowsNumbered, EvidenceRow
    <3>3. QED  BY <1>4, <3>1, <3>2 DEF Informed, NotOver, OwnNotOver
  <2>3. QED  BY <2>1, <2>2
<1>10. \A q \in Req \ {r} : req'[q] = req[q]  BY <1>1 DEF OnlyOf
<1>11. \A q \in Req : /\ Informed(req'[q], evidence, b + 1) /\ NotOver(req'[q], evidence)
                      /\ OwnNotOver(req'[q])
  BY <1>2, <1>8, <1>9, <1>10
<1>12. \A p, q \in Req : p # q => Apart(req'[p], req'[q])
  BY <1>2, <1>8, <1>10 DEF EvidenceInv
<1>13. begun' = b + 1 /\ evidence' = evidence  BY <1>1, <1>4
<1>14. QED  BY <1>6, <1>7, <1>11, <1>12, <1>13 DEF EvidenceInv

-----------------------------------------------------------------------------
\* The statements of one request.

\* A request's step that stores nothing.
LEMMA EvidenceOf ==
    ASSUME Typed, EvidenceInv, NEW r \in Req, OnlyOf(r), UNCHANGED <<evidence, begun>>,
           Informed(req'[r], evidence, begun), NotOver(req'[r], evidence), OwnNotOver(req'[r]),
           \A q \in Req \ {r} : Apart(req'[r], req[q]) /\ Apart(req[q], req'[r])
    PROVE  EvidenceInv'
<1>1. \A q \in Req \ {r} : req'[q] = req[q]  BY DEF OnlyOf
<1>2. \A q \in Req : /\ Informed(req'[q], evidence, begun) /\ NotOver(req'[q], evidence)
                     /\ OwnNotOver(req'[q])
  BY <1>1 DEF EvidenceInv
<1>3. \A p, q \in Req : p # q => Apart(req'[p], req'[q])
  BY <1>1 DEF EvidenceInv
<1>4. QED  BY <1>2, <1>3 DEF EvidenceInv

\* The handler ends, or is no collection.
LEMMA EvidenceEnds ==
    ASSUME Typed, EvidenceInv, NEW r \in Req, OnlyOf(r), UNCHANGED <<evidence, begun>>,
           \/ req'[r].op # "collect" /\ req'[r].pc # "store"
           \/ Kept(req[r], req'[r]) /\ req'[r].pc = "done"
    PROVE  EvidenceInv'
<1>1. CASE req'[r].op # "collect" /\ req'[r].pc # "store"
  BY <1>1, Unconcerned, EvidenceOf
<1>2. CASE Kept(req[r], req'[r]) /\ req'[r].pc = "done"
  <2>1. /\ Informed(req'[r], evidence, begun) /\ NotOver(req'[r], evidence)
        /\ OwnNotOver(req'[r])
    BY <1>2, Over DEF Kept, EvidenceInv
  <2>2. \A q \in Req \ {r} : Apart(req'[r], req[q]) /\ Apart(req[q], req'[r])
    BY <1>2, Over DEF Kept, EvidenceInv
  <2>3. QED  BY <2>1, <2>2, EvidenceOf
<1>3. QED  BY <1>1, <1>2

LEMMA EvidenceScope ==
    ASSUME Typed, EvidenceInv, NEW r \in Req, CheckScope(r)
    PROVE  EvidenceInv'
<1>1. PICK l : l = req[r]  OBVIOUS
<1>2. PICK m : m = req'[r]  OBVIOUS
<1>3. /\ OnlyOf(r) /\ Kept(l, m) /\ l.pc = "scope"
      /\ m.pc = "done" \/ m.pc = AfterScope[l.op]
  BY <1>1, <1>2, CheckScopeLocal
<1>4. UNCHANGED <<evidence, begun>>  BY DEF CheckScope, tables
<1>5. l \in Request /\ Shape(l)  BY <1>1, ReqLocal DEF Local
<1>6. m.over = l.over
  <2>1. CASE \E ids, failed : Decided(r, ids, failed)
    <3>1. PICK ids, failed : Decided(r, ids, failed)  BY <2>1
    <3>2. PICK pc, out : Set(r, [l EXCEPT !.pc = pc, !.blind = failed, !.out = out])
      BY <1>1, <3>1 DEF Decided
    <3>3. m = [l EXCEPT !.pc = pc, !.blind = failed, !.out = out]
      BY <1>2, <3>2, SetLocal
    <3>4. QED  BY <1>5, <3>3 DEF Request
  <2>2. CASE Ends(r, "error")
    BY <1>1, <1>2, <2>2, EndsLocal DEF Answered
  <2>3. QED  BY <2>1, <2>2 DEF CheckScope
<1>7. CASE m.pc = "done"
  BY <1>1, <1>2, <1>3, <1>4, <1>7, EvidenceEnds
<1>8. CASE l.op # "collect"
  <2>1. m.op # "collect" /\ m.pc # "store"
    BY <1>3, <1>5, <1>8 DEF Kept, Shape, Scoped, AfterScope
  <2>2. QED  BY <1>2, <1>3, <1>4, <2>1, EvidenceEnds
<1>9. CASE l.op = "collect" /\ m.pc = AfterScope[l.op]
  <2>1. m.op = "collect" /\ m.pc = "collect" /\ m.run = l.run
    BY <1>3, <1>9 DEF Kept, AfterScope
  <2>2. Informed(l, evidence, begun) /\ NotOver(l, evidence)  BY <1>1 DEF EvidenceInv
  <2>3. Informed(m, evidence, begun) /\ NotOver(m, evidence) /\ OwnNotOver(m)
    BY <1>3, <1>6, <1>9, <2>1, <2>2 DEF Informed, NotOver, OwnNotOver, Collecting
  <2>4. ASSUME NEW q \in Req \ {r} PROVE Apart(m, req[q]) /\ Apart(req[q], m)
    <3>1. Apart(l, req[q]) /\ Apart(req[q], l)  BY <1>1 DEF EvidenceInv
    <3>2. QED  BY <1>3, <1>9, <2>1, <3>1 DEF Apart, Collecting
  <2>5. QED  BY <1>2, <1>3, <1>4, <2>3, <2>4, EvidenceOf
<1>10. QED  BY <1>3, <1>7, <1>8, <1>9

LEMMA EvidenceRead ==
    ASSUME Typed, EvidenceInv, NEW r \in Req, ReadEvidence(r)
    PROVE  EvidenceInv'
<1>1. PICK l : l = req[r]  OBVIOUS
<1>2. PICK m : m = req'[r]  OBVIOUS
<1>3. PICK over : over = RunsOver(l.on)  OBVIOUS
<1>4. /\ OnlyOf(r) /\ Kept(l, m) /\ l.pc = "collect" /\ m.pc = "store"
      /\ \/ /\ m.seen = dedupe_keys(list_evidence_for_candidate(evidence, l.on))
            /\ m.over = over
         \/ m.over = l.over
  BY <1>1, <1>2, <1>3, ReadEvidenceLocal
<1>5. UNCHANGED <<evidence, begun>>  BY DEF ReadEvidence, tables
<1>6. l \in Request /\ Shape(l)  BY <1>1, ReqLocal DEF Local
<1>7. l.op = "collect" /\ m.op = "collect" /\ m.run = l.run /\ m.on = l.on
  BY <1>4, <1>6 DEF Shape, Kept
<1>8. Informed(l, evidence, begun) /\ NotOver(l, evidence) /\ RowsNumbered(evidence, begun)
  BY <1>1 DEF EvidenceInv
<1>9. l.over = {} /\ \A e \in evidence : e.run # l.run
  BY <1>4, <1>7, <1>8 DEF Informed
\* What it read was over: nobody under way, itself included, is among it.
<1>10. \A q \in Req : Collecting(req[q]) => req[q].run \notin m.over
  <2>1. \A q \in Req : Collecting(req[q]) => ~Free(q)  BY DEF Collecting, Free
  <2>2. \A q \in Req : ~Free(q) => req[q].run \in RunsUnderWay  BY DEF RunsUnderWay
  <2>3. \A n \in over : n \notin RunsUnderWay  BY <1>3 DEF RunsOver
  <2>4. QED  BY <1>4, <1>9, <2>1, <2>2, <2>3
<1>11. Collecting(l)  BY <1>4, <1>7 DEF Collecting
<1>12. \A n \in m.over : n <= begun
  BY <1>3, <1>4, <1>8, <1>9 DEF RunsOver, list_evidence_for_candidate, RowsNumbered
<1>13. ASSUME NEW e \in evidence, e.on = m.on, e.run \in m.over
       PROVE  KeyOf[e.item] \in m.seen
  BY <1>4, <1>7, <1>9, <1>13 DEF dedupe_keys, list_evidence_for_candidate
<1>14. Informed(m, evidence, begun)
  BY <1>4, <1>7, <1>8, <1>9, <1>12, <1>13 DEF Informed
<1>15. NotOver(m, evidence) /\ OwnNotOver(m)
  BY <1>1, <1>7, <1>8, <1>10, <1>11 DEF NotOver, OwnNotOver
<1>16. ASSUME NEW q \in Req \ {r} PROVE Apart(m, req[q]) /\ Apart(req[q], m)
  <2>1. Apart(l, req[q]) /\ Apart(req[q], l)  BY <1>1 DEF EvidenceInv
  <2>2. QED  BY <1>7, <1>10, <1>11, <2>1 DEF Apart
<1>17. QED  BY <1>2, <1>4, <1>5, <1>14, <1>15, <1>16, EvidenceOf

LEMMA EvidenceStore ==
    ASSUME Typed, EvidenceInv, NEW r \in Req, NEW i \in Item, NEW o \in Outcome, StoreItem(r, i, o)
    PROVE  EvidenceInv'
<1>1. PICK l : l = req[r]  OBVIOUS
<1>2. PICK m : m = req'[r]  OBVIOUS
<1>3. /\ OnlyOf(r) /\ Kept(l, m) /\ l.pc = "store" /\ m.pc = "store"
      /\ m.seen = l.seen \cup {KeyOf[i]} /\ m.over = l.over
  BY <1>1, <1>2, StoreLocal
<1>4. begun' = begun  BY DEF StoreItem
<1>5. l \in Request /\ Shape(l)  BY <1>1, ReqLocal DEF Local
<1>6. l.op = "collect" /\ m.op = "collect" /\ m.run = l.run /\ m.on = l.on
  BY <1>3, <1>5 DEF Shape, Kept
<1>7. Informed(l, evidence, begun) /\ NotOver(l, evidence) /\ OwnNotOver(l)
      /\ RowsNumbered(evidence, begun) /\ Once(evidence)
  BY <1>1 DEF EvidenceInv
<1>8. Collecting(l) /\ Collecting(m)  BY <1>3, <1>6 DEF Collecting
<1>9. OwnNotOver(m)  BY <1>3, <1>6, <1>7 DEF OwnNotOver
<1>10. ASSUME NEW q \in Req \ {r} PROVE Apart(m, req[q]) /\ Apart(req[q], m)
  <2>1. Apart(l, req[q]) /\ Apart(req[q], l)  BY <1>1 DEF EvidenceInv
  <2>2. QED  BY <1>3, <1>6, <1>8, <2>1 DEF Apart
<1>11. CASE evidence' = evidence
  <2>1. Informed(m, evidence, begun) /\ NotOver(m, evidence)
    BY <1>3, <1>6, <1>7, <1>8 DEF Informed, NotOver
  <2>2. QED  BY <1>2, <1>3, <1>4, <1>9, <1>10, <1>11, <2>1, EvidenceOf
<1>12. CASE KeyOf[i] \notin l.seen /\ evidence' # evidence
  <2>1. PICK row : row = [on |-> l.on, item |-> i, run |-> l.run, after |-> l.over]  OBVIOUS
  <2>2. PICK ev : ev = evidence'  OBVIOUS
  <2>3. ev = evidence \cup {row}  BY <1>1, <1>12, <2>1, <2>2 DEF StoreItem
  <2>4. row.on = l.on /\ row.item = i /\ row.run = l.run /\ row.after = l.over  BY <2>1
  <2>5. 1 <= l.run /\ l.run <= begun /\ \A n \in l.over : n <= begun
    BY <1>3, <1>6, <1>7 DEF Informed
  <2>6. RowsNumbered(ev, begun)  BY <1>7, <2>3, <2>4, <2>5 DEF RowsNumbered
  <2>7. Informed(m, ev, begun)
    <3>1. \A n \in m.over : n <= begun  BY <1>3, <2>5
    <3>2. ASSUME NEW e \in ev
          PROVE  /\ e.run = m.run => e.on = m.on /\ KeyOf[e.item] \in m.seen
                 /\ e.on = m.on /\ e.run \in m.over => KeyOf[e.item] \in m.seen
      <4>1. CASE e = row  BY <1>3, <1>6, <2>4, <4>1
      <4>2. CASE e \in evidence  BY <1>3, <1>6, <1>7, <4>2 DEF Informed
      <4>3. QED  BY <2>3, <4>1, <4>2
    <3>3. QED  BY <1>3, <1>6, <2>5, <3>1, <3>2 DEF Informed
  <2>8. NotOver(m, ev)
    BY <1>3, <1>6, <1>7, <1>8, <2>3, <2>4 DEF NotOver, OwnNotOver
  <2>9. ASSUME NEW q \in Req \ {r}
        PROVE  Informed(req[q], ev, begun) /\ NotOver(req[q], ev) /\ OwnNotOver(req[q])
    <3>1. PICK k : k = req[q]  OBVIOUS
    <3>2. Informed(k, evidence, begun) /\ NotOver(k, evidence) /\ OwnNotOver(k)
          /\ Apart(l, k) /\ Apart(k, l) /\ Shape(k)
      BY <1>1, <3>1, ReqLocal DEF EvidenceInv, Local
    <3>3. k.op = "collect" => k.run # row.run  BY <1>6, <2>4, <3>2 DEF Apart
    <3>4. k.pc = "store" => row.run \notin k.over  BY <1>8, <2>4, <3>2 DEF Apart
    <3>5. k.pc = "store" => k.op = "collect"  BY <3>2 DEF Shape
    <3>6. Informed(k, ev, begun)  BY <2>3, <3>2, <3>3, <3>4, <3>5 DEF Informed
    <3>7. Collecting(k) => k.run \notin row.after  BY <1>3, <2>4, <3>2 DEF Apart
    <3>8. NotOver(k, ev)  BY <2>3, <3>2, <3>7 DEF NotOver
    <3>9. QED  BY <3>1, <3>2, <3>6, <3>8
  <2>10. ASSUME NEW f \in evidence, f.on = row.on, KeyOf[f.item] = KeyOf[row.item]
         PROVE  row.run # f.run /\ row.run \notin f.after /\ f.run \notin row.after
    <3>1. KeyOf[f.item] \notin l.seen  BY <1>12, <2>4, <2>10
    <3>2. f.run # l.run /\ f.run \notin l.over
      BY <1>3, <1>7, <2>4, <2>10, <3>1 DEF Informed
    <3>3. l.run \notin f.after  BY <1>7, <1>8 DEF NotOver
    <3>4. QED  BY <2>4, <3>2, <3>3
  <2>11. Once(ev)
    <3>1. SUFFICES ASSUME NEW e \in ev, NEW f \in ev, e # f, e.on = f.on,
                          KeyOf[e.item] = KeyOf[f.item]
                   PROVE  e.run # f.run /\ e.run \notin f.after /\ f.run \notin e.after
      BY DEF Once
    <3>2. CASE e = row  BY <2>3, <2>10, <3>1, <3>2
    <3>3. CASE f = row  BY <2>3, <2>10, <3>1, <3>3
    <3>4. CASE e \in evidence /\ f \in evidence  BY <1>7, <3>1, <3>4 DEF Once
    <3>5. QED  BY <2>3, <3>2, <3>3, <3>4
  <2>12. \A q \in Req \ {r} : req'[q] = req[q]  BY <1>3 DEF OnlyOf
  <2>13. \A q \in Req : Informed(req'[q], ev, begun) /\ NotOver(req'[q], ev) /\ OwnNotOver(req'[q])
    BY <1>2, <1>9, <2>7, <2>8, <2>9, <2>12
  <2>14. \A p, q \in Req : p # q => Apart(req'[p], req'[q])
    BY <1>2, <1>10, <2>12 DEF EvidenceInv
  <2>15. QED  BY <1>4, <2>2, <2>6, <2>11, <2>13, <2>14 DEF EvidenceInv
<1>13. KeyOf[i] \in l.seen => evidence' = evidence  BY <1>1 DEF StoreItem
<1>14. QED  BY <1>11, <1>12, <1>13

LEMMA EvidenceActs == ASSUME Typed, EvidenceInv, NEW r \in Req, Acts(r) PROVE EvidenceInv'
<1>1. OnlyOf(r) /\ begun' = begun  BY ActsTables
<1>2. req[r] \in Request /\ Shape(req[r]) /\ Shape(req'[r])
  BY <1>1, ReqLocal DEF Local, OnlyOf
\* A step of a handler that is no collection.
<1>3. ASSUME Kept(req[r], req'[r]), req[r].op # "collect", evidence' = evidence
      PROVE  EvidenceInv'
  <2>1. req'[r].op # "collect" /\ req'[r].pc # "store"  BY <1>2, <1>3 DEF Kept, Shape
  <2>2. QED  BY <1>1, <1>3, <2>1, EvidenceEnds
<1>4. CASE StampOwner(r)
  <2>1. Kept(req[r], req'[r]) /\ req[r].pc = "primary"  BY <1>4, StampLocal
  <2>2. req[r].op # "collect"  BY <1>2, <2>1 DEF Shape
  <2>3. QED  BY <1>3, <1>4, <2>1, <2>2 DEF StampOwner, tables
<1>5. CASE CheckScope(r)  BY <1>5, EvidenceScope
<1>6. CASE View(r) \/ ListPage(r) \/ MatchProbe(r)
  <2>1. req[r].pc \in {"view", "page", "match"} /\ Kept(req[r], req'[r])
    BY <1>6, ViewLocal, PageLocal, MatchLocal DEF Answered
  <2>2. req[r].op # "collect"  BY <1>2, <2>1 DEF Shape
  <2>3. QED  BY <1>3, <1>6, <2>1, <2>2 DEF View, ListPage, MatchProbe, tables
<1>7. CASE ReadListScope(r)
  BY <1>2, <1>3, <1>7, ListScopeLocal DEF ReadListScope, Shape, tables
<1>8. CASE CheckDuplicates(r)
  BY <1>2, <1>3, <1>8, CheckDuplicatesLocal DEF CheckDuplicates, Shape, Keeps, Answered
<1>9. CASE ReadEvidence(r)  BY <1>9, EvidenceRead
<1>10. CASE Collected(r)
  BY <1>1, <1>10, CollectedLocal, EvidenceEnds DEF Collected, tables, Answered
<1>11. CASE Drop(r)
  <2>1. req'[r].op # "collect" /\ req'[r].pc # "store"  BY <1>11, DropLocal DEF Idle
  <2>2. evidence' = evidence  BY <1>11 DEF Drop, tables
  <2>3. QED  BY <1>1, <2>1, <2>2, EvidenceEnds
<1>12. ASSUME NEW o \in Outcome, InsertResource(r, o) PROVE EvidenceInv'
  BY <1>2, <1>3, <1>12, InsertLocal DEF InsertResource, Shape
<1>13. ASSUME NEW o \in Outcome, RevokeTemplate(r, o) PROVE EvidenceInv'
  BY <1>2, <1>3, <1>13, RevokeLocal DEF RevokeTemplate, Shape, Keeps
<1>14. ASSUME NEW o \in Outcome, SaveMandatory(r, o) PROVE EvidenceInv'
  BY <1>2, <1>3, <1>14, SaveLocal DEF SaveMandatory, Shape, Keeps
<1>15. ASSUME NEW o \in Outcome, NEW t \in Template, EnrollTemplate(r, t, o) PROVE EvidenceInv'
  BY <1>2, <1>3, <1>15, EnrollLocal DEF EnrollTemplate, Shape, Keeps
<1>16. ASSUME NEW o \in Outcome, NEW i \in Item, StoreItem(r, i, o) PROVE EvidenceInv'
  BY <1>16, EvidenceStore
<1>17. QED
  BY <1>4, <1>5, <1>6, <1>7, <1>8, <1>9, <1>10, <1>11, <1>12, <1>13, <1>14, <1>15, <1>16
  DEF Acts

LEMMA EvidenceStep == Typed /\ EvidenceInv /\ [Next]_vars => EvidenceInv'
<1> SUFFICES ASSUME Typed, EvidenceInv, [Next]_vars PROVE EvidenceInv'
  OBVIOUS
<1>1. CASE UNCHANGED vars
  BY <1>1 DEF vars, tables, EvidenceInv
<1>2. QED
  BY <1>1, NextCases, EvidenceMoves, EvidenceArrives, EvidenceActs, EvidenceRestart

\* No key is stored twice for a candidate by one collection, or by one that was
\* over when another read what is stored (CollectedOnce).
THEOREM EvidenceIsCollectedOnce == Spec => []CollectedOnce
<1>1. Init => Typed /\ EvidenceInv  BY TypedInit, EvidenceInit
<1>2. Typed /\ EvidenceInv /\ [Next]_vars => (Typed /\ EvidenceInv)'
  BY TypedStep, EvidenceStep
<1>3. EvidenceInv => CollectedOnce  BY DEF EvidenceInv, Once, CollectedOnce
<1>4. QED  BY <1>1, <1>2, <1>3, PTL DEF Spec
=============================================================================
