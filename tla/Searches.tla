------------------------------ MODULE Searches ------------------------------
(***************************************************************************)
(* One biometric search and the review of its candidates:                  *)
(* server/src/search.rs over the tables searches, search_candidates and    *)
(* verification_events of server/src/db/mod.rs.                            *)
(*                                                                         *)
(* The search is run by a task that create_search_route spawns; reviewers  *)
(* decide in request slots.  An action is a statement that commits on its  *)
(* own, or the part of a transaction that takes effect at once.  Its       *)
(* outcome is "ok"; "failed", with no effect; or "lost": it took effect    *)
(* and the program was told that it failed.                                *)
(***************************************************************************)
EXTENDS Naturals, Sequences

CONSTANTS
    Candidate,   \* candidates the biometric provider may return
    Reviewer,    \* users with a reviewing role
    Req,         \* request slots of reviewers
    None,
    Backends,    \* the databases it may run on: "postgres", "sqlite"
    MaxReviews,  \* bound on the decisions per candidate
    MaxFaults    \* bound on faults

ASSUME BackendAssumption == Backends \subseteq {"postgres", "sqlite"}
ASSUME NoneAssumption ==
    None \notin Reviewer \cup Candidate \cup {"provider", "persist", "audit"}

VARIABLES
    config,    \* backend, REQUIRE_SECOND_REVIEW, AUTO_OSINT_AFTER_BIOMETRIC_SEARCH
    search,    \* the row of searches
    rows,      \* search_candidates
    events,    \* verification_events, oldest first
    recorded,  \* whether SEARCH_COMPLETED is in the audit log
    verdicts,  \* the records of review decisions in the audit log
    job,       \* the background task
    req,       \* the local state of each review request
    faults     \* statements that failed or whose answer was lost, requests
               \* dropped, restarts

caseVars == <<search, rows, events>>
vars == <<config, caseVars, recorded, verdicts, job, req, faults>>

Final == {"confirmed", "rejected"}
Decision == Final \cup {"inconclusive"}
RowStatus == {"absent", "pending", "needs_second_review"} \cup Decision
Action == {"CANDIDATE_FIRST_REVIEW_RECORDED", "CANDIDATE_CONFIRMED",
           "CANDIDATE_REJECTED", "CANDIDATE_MARKED_INCONCLUSIVE"}

Outcome == {"ok", "failed", "lost"}
Happens(o) ==
    \/ o = "ok" /\ faults' = faults
    \/ o # "ok" /\ faults < MaxFaults /\ faults' = faults + 1

NotListed == [st |-> "absent", by |-> None]
Listed == [st |-> "pending", by |-> None]
NoJob == [pc |-> "off", ranked |-> {}, code |-> None]
Idle == [pc |-> "idle", cand |-> None, by |-> None, decision |-> None,
         target |-> "absent", stale |-> FALSE, action |-> None]

Init ==
    /\ config \in [backend : Backends, second : BOOLEAN, osint : BOOLEAN]
    /\ search = [status |-> "none", code |-> None, evidence |-> FALSE]
    /\ rows = [c \in Candidate |-> NotListed]
    /\ events = [c \in Candidate |-> <<>>]
    /\ recorded = FALSE
    /\ verdicts = {}
    /\ job = NoJob
    /\ req = [r \in Req |-> Idle]
    /\ faults = 0

At(r, pc) == req[r].pc = pc
InTransaction(r) == At(r, "write")

\* On sqlite a commit makes the snapshots of open transactions stale.
Committed(q) ==
    [r \in Req |-> IF q[r].pc = "write" THEN [q[r] EXCEPT !.stale = TRUE] ELSE q[r]]
CommitsIf(o) == req' = IF o = "failed" THEN req ELSE Committed(req)

-----------------------------------------------------------------------------
\* The background task.

JobAt(pc) == job.pc = pc
JobGoes(pc) == job' = [job EXCEPT !.pc = pc]
FailsWith(code) == job' = [job EXCEPT !.pc = "fail", !.code = code]

queued_row(s) == [s EXCEPT !.status = "queued"]

\* create_search_route: INSERT of the queued row; the task is spawned when the
\* INSERT is seen to succeed.
create_queued_search(o) ==
    /\ search.status = "none" /\ JobAt("off")
    /\ Happens(o)
    /\ search' = IF o = "failed" THEN search ELSE queued_row(search)
    /\ CommitsIf(o)
    /\ IF o = "ok" THEN JobGoes("provider") ELSE UNCHANGED job
    /\ UNCHANGED <<config, rows, events, recorded, verdicts>>

\* Mutation: a rejected probe only gets logged.
RejectSilently == JobGoes("over")

Rejected == FailsWith("provider")

\* biometric_provider.search ranks candidates or rejects the probe.
RunProvider ==
    /\ JobAt("provider")
    /\ \/ \E ranked \in SUBSET Candidate :
             job' = [job EXCEPT !.pc = "finalize", !.ranked = ranked]
       \/ Rejected
    /\ UNCHANGED <<config, caseVars, recorded, verdicts, req, faults>>

\* finalize_queued_search, one transaction: "processing" is seen by nobody.
finalize_queued_search(o) ==
    /\ JobAt("finalize")
    /\ Happens(o)
    /\ IF o = "failed" THEN UNCHANGED <<search, rows>>
       ELSE /\ search' = [search EXCEPT !.status = "completed"]
            /\ rows' = [c \in Candidate |->
                           IF c \in job.ranked THEN Listed ELSE rows[c]]
    /\ CommitsIf(o)
    /\ IF o = "ok" THEN JobGoes("audit") ELSE FailsWith("persist")
    /\ UNCHANGED <<config, events, recorded, verdicts>>

\* Mutation: the result of save_mandatory is ignored.
AuditIgnored(o) == JobGoes(IF config.osint THEN "osint" ELSE "over")

AfterAudit(o) ==
    IF o # "ok" THEN FailsWith("audit")
    ELSE JobGoes(IF config.osint THEN "osint" ELSE "over")

\* save_mandatory of SEARCH_COMPLETED (the append itself is AuditChain).
RecordCompletion(o) ==
    /\ JobAt("audit")
    /\ Happens(o)
    /\ recorded' = (recorded \/ o # "failed")
    /\ CommitsIf(o)
    /\ AfterAudit(o)
    /\ UNCHANGED <<config, caseVars, verdicts>>

\* Mutation: the failure code is not stored.
FailedWithoutCode(s, code) == [s EXCEPT !.status = "failed"]

failed_row(s, code) == [s EXCEPT !.status = "failed", !.code = code]

\* The UPDATE has no condition on the status; its error is discarded, and
\* SEARCH_FAILED is recorded with best effort.
mark_queued_search_failed(o) ==
    /\ JobAt("fail")
    /\ Happens(o)
    /\ search' = IF o = "failed" THEN search ELSE failed_row(search, job.code)
    /\ CommitsIf(o)
    /\ JobGoes("over")
    /\ UNCHANGED <<config, rows, events, recorded, verdicts>>

evidence_row(s) == [s EXCEPT !.evidence = TRUE]

\* Mutation: an error of the evidence phase fails the search.
EvidenceErrorFails(o) == IF o = "ok" THEN JobGoes("over") ELSE FailsWith("persist")

AfterEvidence(o) == JobGoes("over")

\* run_auto_osint: the candidates cannot be loaded, or the external evidence is
\* collected and its status stored; an error of either ends the task.
run_auto_osint(o) ==
    /\ JobAt("osint")
    /\ Happens(o)
    /\ search' = IF o = "failed" THEN search ELSE evidence_row(search)
    /\ CommitsIf(o)
    /\ AfterEvidence(o)
    /\ UNCHANGED <<config, rows, events, recorded, verdicts>>

-----------------------------------------------------------------------------
\* A review.

\* Mutation: the second decision may be anybody's.
SameReviewerAllowed(row, u, d) == FALSE

SameReviewerForbidden(row, u, d) ==
    config.second /\ d \in Final /\ row.st = "needs_second_review" /\ row.by = u

target_status(row, d) ==
    IF ~config.second \/ d \notin Final \/ row.st = "needs_second_review" THEN d
    ELSE "needs_second_review"

\* Mutation: the SELECT takes no lock.
NeverLocked(c) == FALSE

\* FOR UPDATE waits for the transaction that holds the row.
RowLocked(c) ==
    config.backend = "postgres" /\ \E r \in Req : InTransaction(r) /\ req[r].cand = c

\* record_review_decision: BEGIN and the SELECT of the row.  A candidate that is
\* not in the list, or a second decision of the first reviewer, is refused.  The
\* status of the search is not looked at.
SelectCandidate(r, c, u, d) ==
    /\ At(r, "idle")
    /\ rows[c].st # "absent"
    /\ ~RowLocked(c)
    /\ ~SameReviewerForbidden(rows[c], u, d)
    /\ Len(events[c]) < MaxReviews
    /\ req' = [req EXCEPT ![r] =
                  [pc |-> "write", cand |-> c, by |-> u, decision |-> d,
                   target |-> target_status(rows[c], d), stale |-> FALSE,
                   action |-> None]]
    /\ UNCHANGED <<config, caseVars, recorded, verdicts, job, faults>>

\* INSERT of the event, UPDATE of the row, COMMIT.  Whoever has written on sqlite
\* keeps others from writing until then, and on postgres the row is locked.
WriteDecision(r, o) ==
    /\ InTransaction(r)
    /\ config.backend = "sqlite" => ~req[r].stale
    /\ Happens(o)
    /\ IF o = "failed" THEN UNCHANGED <<rows, events>>
       ELSE /\ rows' = [rows EXCEPT ![req[r].cand] =
                           [st |-> req[r].target, by |-> req[r].by]]
            /\ events' = [events EXCEPT ![req[r].cand] =
                             Append(@, [by |-> req[r].by, decision |-> req[r].decision])]
    /\ LET next == [req EXCEPT ![r] = IF o = "ok" THEN [req[r] EXCEPT !.pc = "reread"]
                                      ELSE Idle]
       IN req' = IF o = "failed" THEN next ELSE Committed(next)
    /\ UNCHANGED <<config, search, recorded, verdicts, job>>

\* SQLITE_BUSY_SNAPSHOT: the INSERT fails and the transaction is rolled back.
WriteRefused(r) ==
    /\ InTransaction(r)
    /\ config.backend = "sqlite" /\ req[r].stale
    /\ req' = [req EXCEPT ![r] = Idle]
    /\ UNCHANGED <<config, caseVars, recorded, verdicts, job, faults>>

\* Mutation: the action names the decision only.
ActionOfDecision(d, st) ==
    CASE d = "confirmed" -> "CANDIDATE_CONFIRMED"
      [] d = "inconclusive" -> "CANDIDATE_MARKED_INCONCLUSIVE"
      [] d = "rejected" -> "CANDIDATE_REJECTED"

\* The match on the decision and the row's status in review.
event_action(d, st) ==
    CASE d \in Final /\ st = "needs_second_review" -> "CANDIDATE_FIRST_REVIEW_RECORDED"
      [] d = "confirmed" /\ st # "needs_second_review" -> "CANDIDATE_CONFIRMED"
      [] d = "inconclusive" -> "CANDIDATE_MARKED_INCONCLUSIVE"
      [] d = "rejected" /\ st # "needs_second_review" -> "CANDIDATE_REJECTED"

list_search_candidates(c) == rows[c]

\* After the COMMIT record_review_decision reads the row again, outside the
\* transaction: it may be another reviewer's by now.
ReadAgain(r) ==
    /\ At(r, "reread")
    /\ \/ /\ req' = [req EXCEPT ![r].pc = "record",
                                ![r].action =
                                    event_action(req[r].decision,
                                                 list_search_candidates(req[r].cand).st)]
          /\ faults' = faults
       \/ /\ faults < MaxFaults /\ faults' = faults + 1
          /\ req' = [req EXCEPT ![r] = Idle]
    /\ UNCHANGED <<config, caseVars, recorded, verdicts, job>>

\* save_mandatory of the decision; a failure is what the reviewer is told.
RecordDecision(r, o) ==
    /\ At(r, "record")
    /\ Happens(o)
    /\ verdicts' = IF o = "failed" THEN verdicts
                   ELSE verdicts \cup {[cand |-> req[r].cand, by |-> req[r].by,
                                        action |-> req[r].action]}
    /\ LET next == [req EXCEPT ![r] = Idle]
       IN req' = IF o = "failed" THEN next ELSE Committed(next)
    /\ UNCHANGED <<config, caseVars, recorded, job>>

-----------------------------------------------------------------------------
\* The client of a request is gone.  The background task is not tied to one.
DropRequest(r) ==
    /\ ~At(r, "idle")
    /\ faults < MaxFaults /\ faults' = faults + 1
    /\ req' = [req EXCEPT ![r] = Idle]
    /\ UNCHANGED <<config, caseVars, recorded, verdicts, job>>

\* A restart loses the task and the requests.  Nothing looks for searches whose
\* task is lost.
Restart ==
    /\ faults < MaxFaults /\ faults' = faults + 1
    /\ job' = IF job.pc \in {"off", "over"} THEN job ELSE [job EXCEPT !.pc = "gone"]
    /\ req' = [r \in Req |-> Idle]
    /\ UNCHANGED <<config, caseVars, recorded, verdicts>>

RunJob ==
    \/ RunProvider
    \/ \E o \in Outcome :
          \/ finalize_queued_search(o) \/ RecordCompletion(o)
          \/ mark_queued_search_failed(o) \/ run_auto_osint(o)

Review(r) ==
    \/ \E c \in Candidate, u \in Reviewer, d \in Decision : SelectCandidate(r, c, u, d)
    \/ \E o \in Outcome : WriteDecision(r, o) \/ RecordDecision(r, o)
    \/ WriteRefused(r) \/ ReadAgain(r)

Next ==
    \/ \E o \in Outcome : create_queued_search(o)
    \/ RunJob
    \/ \E r \in Req : Review(r) \/ DropRequest(r)
    \/ Restart

Spec == Init /\ [][Next]_vars

-----------------------------------------------------------------------------
\* Every variable has its type: a row was decided by a reviewer exactly when it is
\* no longer pending, and a failed search says why (db/mod.rs:1480).
RowOK(row) ==
    /\ row \in [st : RowStatus, by : Reviewer \cup {None}]
    /\ row.by = None <=> row.st \in {"absent", "pending"}
RequestOK(q) ==
    /\ q \in [pc : {"idle", "write", "reread", "record"}, cand : Candidate \cup {None},
              by : Reviewer \cup {None}, decision : Decision \cup {None},
              target : RowStatus, stale : BOOLEAN, action : Action \cup {None}]
    /\ q.pc # "idle" => /\ q.cand \in Candidate /\ q.by \in Reviewer
                        /\ q.decision \in Decision
                        /\ q.target \in {q.decision, "needs_second_review"}
    /\ q.pc = "record" => q.action \in Action
SearchOK ==
    /\ search \in [status : {"none", "queued", "completed", "failed"},
                   code : {"provider", "persist", "audit", None}, evidence : BOOLEAN]
    /\ search.status = "failed" <=> search.code # None
JobOK ==
    /\ job \in [pc : {"off", "provider", "finalize", "audit", "fail", "osint", "over",
                      "gone"},
                ranked : SUBSET Candidate, code : {"provider", "persist", "audit", None}]
    /\ job.pc = "fail" => job.code # None
TypeOK ==
    /\ config \in [backend : Backends, second : BOOLEAN, osint : BOOLEAN]
    /\ SearchOK /\ JobOK
    /\ DOMAIN rows = Candidate /\ \A c \in Candidate : RowOK(rows[c])
    /\ events \in [Candidate -> Seq([by : Reviewer, decision : Decision])]
    /\ recorded \in BOOLEAN
    /\ verdicts \subseteq [cand : Candidate, by : Reviewer, action : Action]
    /\ DOMAIN req = Req /\ \A r \in Req : RequestOK(req[r])
    /\ faults \in Nat

\* Under four eyes a confirmed or rejected candidate was decided by its last two
\* decisions, both confirm or reject, of two different reviewers, the later of whom
\* has the final say, whichever transactions raced (db/mod.rs:1670).
TwoReviewers ==
    config.second =>
       \A c \in Candidate : rows[c].st \in Final =>
          LET n == Len(events[c])
          IN /\ n >= 2
             /\ events[c][n - 1].decision \in Final
             /\ events[c][n] = [by |-> rows[c].by, decision |-> rows[c].st]
             /\ events[c][n - 1].by # events[c][n].by

\* The tables behave as one search whose list appears whole, that fails at most
\* once, and whose decisions happen one at a time: the SELECT and the writes of
\* record_review_decision are one step to everybody else on either database.
Promise == INSTANCE CaseFile
FollowsCaseFile == Promise!Spec

\* When nothing has failed and no request works on a candidate, the decision that
\* stands is in the audit log under its reviewer's name and as what it is, although
\* review looks the row up again after others may have changed it (search.rs:888).
RecordOfStanding(c) ==
    [cand |-> c, by |-> rows[c].by,
     action |-> [needs_second_review |-> "CANDIDATE_FIRST_REVIEW_RECORDED",
                 confirmed |-> "CANDIDATE_CONFIRMED",
                 rejected |-> "CANDIDATE_REJECTED",
                 inconclusive |-> "CANDIDATE_MARKED_INCONCLUSIVE"][rows[c].st]]
StandingDecisionRecorded ==
    faults = 0 =>
       \A c \in Candidate :
          rows[c].by # None /\ (\A r \in Req : req[r].cand # c) =>
             RecordOfStanding(c) \in verdicts

\* A search whose task ran to its end and that is still completed has its record,
\* unless two statements failed: a record that failed takes the search to "failed"
\* again (search.rs:310), and it takes a second failure to stop that.  A restart right
\* after the commit leaves a completed search without its record; nothing repairs that.
CompletedIsRecorded ==
    search.status = "completed" /\ job.pc = "over" /\ faults <= 1 => recorded

\* External evidence is attached only to a completed search with its record, and
\* such a search is not downgraded any more (search.rs:326).
EvidenceAfterRecord == search.evidence => search.status = "completed" /\ recorded

\* A task that ran to its end leaves no search in "queued", for which its requester would
\* poll for ever (API.md:573), unless two statements failed; one is enough if the probe
\* was rejected, since the error of mark_queued_search_failed is discarded.  A task
\* that a restart ended leaves one, which no start of the server takes up again.
EndedTaskSettles ==
    job.pc = "over" =>
       \/ search.status \in {"completed", "failed"}
       \/ faults > (IF job.code = "provider" THEN 0 ELSE 1)
=============================================================================
