--------------------------- MODULE Searches_proofs ---------------------------
(***************************************************************************)
(* Proofs about Searches, for any number of candidates, reviewers,         *)
(* requests, decisions and faults, on either database.                     *)
(***************************************************************************)
EXTENDS Searches, TLAPS

\* Until the list is committed there is none, and nobody reviews.
NothingListed ==
    /\ \A c \in Candidate : rows[c] = NotListed /\ events[c] = <<>>
    /\ \A r \in Req : ~InTransaction(r) /\ req[r].cand = None

\* What the task has established where it stands.
TaskOK ==
    /\ search.status \in {"none", "queued"} =>
          NothingListed /\ ~recorded /\ ~search.evidence
    /\ job.pc = "off" => search.status \in {"none", "queued"}
    /\ job.pc \in {"provider", "finalize"} => search.status = "queued"
    /\ job.pc \in {"audit", "osint"} => search.status = "completed"
    /\ job.pc = "osint" => recorded
    /\ job.pc = "fail" => /\ search.status \in {"queued", "completed"}
                          /\ job.code = "provider" => search.status = "queued"
                          /\ job.code # "provider" => faults > 0
    /\ search.evidence => job.pc = "over"
    /\ job.pc \notin {"fail", "over", "gone"} => job.code = None
    /\ CompletedIsRecorded /\ EvidenceAfterRecord /\ EndedTaskSettles

\* A transaction that can still write has read what is there now: on postgres
\* it holds the row, on sqlite nobody has committed since.
SnapshotOK(r) ==
    InTransaction(r) /\ (config.backend = "sqlite" => ~req[r].stale) =>
       LET row == rows[req[r].cand]
       IN /\ row.st # "absent"
          /\ req[r].target = target_status(row, req[r].decision)
          /\ ~SameReviewerForbidden(row, req[r].by, req[r].decision)
RowLocks ==
    config.backend = "postgres" =>
       \A p, q \in Req :
          InTransaction(p) /\ InTransaction(q) /\ req[p].cand = req[q].cand => p = q

\* A row is the outcome of its history.
HistoryOK(c) ==
    LET n == Len(events[c])
        last == events[c][n]
    IN /\ rows[c].by = None => events[c] = <<>>
       /\ rows[c].by # None =>
             /\ n >= 1
             /\ last.by = rows[c].by
             /\ \/ rows[c].st = last.decision
                \/ (rows[c].st = "needs_second_review" /\ last.decision \in Final)
       /\ config.second /\ rows[c].st \in Final =>
             /\ n >= 2
             /\ events[c][n - 1].decision \in Final
             /\ events[c][n - 1].by # last.by

\* The request r is about to record the decision that stands.
WillRecord(r, c) ==
    /\ req[r].cand = c /\ req[r].by = rows[c].by
    /\ \/ /\ At(r, "reread")
          /\ \/ rows[c].st = req[r].decision
             \/ (rows[c].st = "needs_second_review" /\ req[r].decision \in Final)
       \/ At(r, "record") /\ req[r].action = RecordOfStanding(c).action
StandingOK(c) ==
    faults = 0 /\ rows[c].by # None =>
       RecordOfStanding(c) \in verdicts \/ \E r \in Req : WillRecord(r, c)
SlotsEmpty == \A r \in Req : At(r, "idle") => req[r].cand = None

IInv == /\ TypeOK /\ TaskOK /\ RowLocks /\ SlotsEmpty
        /\ \A r \in Req : SnapshotOK(r)
        /\ \A c \in Candidate : HistoryOK(c) /\ StandingOK(c)

-----------------------------------------------------------------------------
\* A commit changes the freshness of snapshots and nothing else.
LEMMA CommitKeepsRequests ==
    ASSUME NEW q, DOMAIN q = Req, \A r \in Req : RequestOK(q[r])
    PROVE  /\ DOMAIN Committed(q) = Req
           /\ \A r \in Req :
                 /\ RequestOK(Committed(q)[r])
                 /\ Committed(q)[r].pc = q[r].pc /\ Committed(q)[r].cand = q[r].cand
                 /\ Committed(q)[r].by = q[r].by
                 /\ Committed(q)[r].decision = q[r].decision
                 /\ Committed(q)[r].target = q[r].target
                 /\ Committed(q)[r].action = q[r].action
                 /\ q[r].pc = "write" => Committed(q)[r].stale
<1> SUFFICES ASSUME NEW r \in Req
             PROVE  /\ RequestOK(Committed(q)[r])
                    /\ Committed(q)[r].pc = q[r].pc /\ Committed(q)[r].cand = q[r].cand
                    /\ Committed(q)[r].by = q[r].by
                    /\ Committed(q)[r].decision = q[r].decision
                    /\ Committed(q)[r].target = q[r].target
                    /\ Committed(q)[r].action = q[r].action
                    /\ q[r].pc = "write" => Committed(q)[r].stale
    BY DEF Committed
<1>1. Committed(q)[r] = IF q[r].pc = "write" THEN [q[r] EXCEPT !.stale = TRUE] ELSE q[r]
    BY DEF Committed
<1> QED
    BY <1>1 DEF RequestOK

\* The fault counter only counts up, and does so when something fails.
LEMMA Counting ==
    ASSUME faults \in Nat, NEW o \in Outcome, Happens(o)
    PROVE  /\ faults' \in Nat /\ faults' >= faults
           /\ o # "ok" => faults' = faults + 1
    BY DEF Happens

\* The inductive invariant holds at the start.
LEMMA InitIInv == Init => IInv
<1> SUFFICES ASSUME Init PROVE IInv
    OBVIOUS
<1>1. TypeOK
  <2>1. SearchOK /\ JobOK
      BY DEF Init, SearchOK, JobOK, NoJob
  <2>2. RowOK(NotListed)
      BY DEF RowOK, NotListed, RowStatus
  <2>3. RequestOK(Idle)
      BY DEF RequestOK, Idle, RowStatus
  <2>4. events \in [Candidate -> Seq([by : Reviewer, decision : Decision])]
      BY DEF Init
  <2> QED
      BY <2>1, <2>2, <2>3, <2>4 DEF Init, TypeOK
<1>2. TaskOK
    BY NoneAssumption DEF Init, TaskOK, NothingListed, NoJob, Idle, InTransaction, At,
           CompletedIsRecorded, EvidenceAfterRecord, EndedTaskSettles
<1>3. RowLocks /\ SlotsEmpty /\ \A r \in Req : SnapshotOK(r)
    BY DEF Init, RowLocks, SlotsEmpty, SnapshotOK, Idle, InTransaction, At
<1>4. \A c \in Candidate : HistoryOK(c) /\ StandingOK(c)
    BY DEF Init, HistoryOK, StandingOK, NotListed, Final
<1> QED
    BY <1>1, <1>2, <1>3, <1>4 DEF IInv

-----------------------------------------------------------------------------
\* Steps of the task.

ReviewsOK == /\ RowLocks /\ SlotsEmpty
             /\ \A r \in Req : SnapshotOK(r)
             /\ \A c \in Candidate : HistoryOK(c) /\ StandingOK(c)

RequestsKept == req' = req \/ req' = Committed(req)

\* What a commit leaves of the requests.
LEMMA KeptRequests ==
    ASSUME TypeOK, RequestsKept
    PROVE  /\ DOMAIN req' = Req
           /\ \A r \in Req :
                 /\ RequestOK(req[r])'
                 /\ req'[r].pc = req[r].pc /\ req'[r].cand = req[r].cand
                 /\ req'[r].by = req[r].by /\ req'[r].decision = req[r].decision
                 /\ req'[r].target = req[r].target /\ req'[r].action = req[r].action
                 /\ InTransaction(r) /\ ~req'[r].stale => ~req[r].stale
<1>1. CASE req' = req
    BY <1>1 DEF TypeOK, RequestOK
<1>2. CASE req' = Committed(req)
  <2>1. DOMAIN req = Req /\ \A r \in Req : RequestOK(req[r])
      BY DEF TypeOK
  <2>2. \A r \in Req : RequestOK(Committed(req)[r]) = RequestOK(req[r])'
      BY <1>2 DEF RequestOK
  <2> QED
      BY <1>2, <2>1, <2>2, CommitKeepsRequests DEF InTransaction, At
<1> QED
    BY <1>1, <1>2 DEF RequestsKept

\* A step of the task that leaves the candidate list alone disturbs no review.
LEMMA ReviewsUndisturbed ==
    ASSUME TypeOK, ReviewsOK, RequestsKept, UNCHANGED <<config, rows, events, verdicts>>,
           faults' \in Nat, faults' >= faults
    PROVE  ReviewsOK'
<1> USE KeptRequests
<1>1. \A r \in Req : InTransaction(r)' = InTransaction(r) /\ \A pc : At(r, pc)' = At(r, pc)
    BY DEF InTransaction, At
<1>2. (RowLocks /\ SlotsEmpty)'
    BY <1>1 DEF ReviewsOK, RowLocks, SlotsEmpty
<1>3. \A r \in Req : SnapshotOK(r)'
    BY <1>1 DEF ReviewsOK, SnapshotOK, target_status, SameReviewerForbidden
<1>4. \A c \in Candidate : HistoryOK(c)'
    BY DEF ReviewsOK, HistoryOK
<1>5. \A c \in Candidate : StandingOK(c)'
  <2> SUFFICES ASSUME NEW c \in Candidate, faults' = 0, rows[c].by # None
               PROVE  (RecordOfStanding(c) \in verdicts
                         \/ \E r \in Req : WillRecord(r, c))'
      BY DEF StandingOK
  <2>1. faults = 0
      BY DEF TypeOK
  <2>2. RecordOfStanding(c)' = RecordOfStanding(c)
      BY DEF RecordOfStanding
  <2>3. ASSUME NEW r \in Req, WillRecord(r, c) PROVE WillRecord(r, c)'
      BY <1>1, <2>2, <2>3 DEF WillRecord
  <2> QED
      BY <2>1, <2>2, <2>3 DEF ReviewsOK, StandingOK
<1> QED
    BY <1>2, <1>3, <1>4, <1>5 DEF ReviewsOK

\* Before the list is committed no request is at work.
LEMMA NobodyReviews ==
    ASSUME TypeOK, TaskOK, search.status \in {"none", "queued"}
    PROVE  NothingListed /\ \A r \in Req : req[r].pc = "idle"
<1>1. NothingListed
    BY DEF TaskOK
<1> QED
    BY <1>1, NoneAssumption DEF NothingListed, TypeOK, RequestOK

\* create_queued_search, mark_queued_search_failed and the others change only the
\* row of the search.
LEMMA CreateKeeps ==
    ASSUME IInv, NEW o \in Outcome, create_queued_search(o)
    PROVE  IInv'
<1> USE DEF create_queued_search
<1>1. faults' \in Nat /\ faults' >= faults
    BY Counting DEF IInv, TypeOK
<1>2. RequestsKept
    BY DEF CommitsIf, RequestsKept
<1>3. SearchOK' /\ JobOK'
    BY DEF IInv, TypeOK, SearchOK, JobOK, queued_row, JobGoes
<1>4. TypeOK'
    BY <1>1, <1>2, <1>3, KeptRequests DEF IInv, TypeOK, RowOK
<1>5. NothingListed'
    BY <1>2, KeptRequests, NobodyReviews DEF IInv, NothingListed, InTransaction, At
<1>6. TaskOK'
  <2>1. ~search.evidence /\ ~recorded /\ search.code = None /\ job.code = None
      BY DEF IInv, TaskOK, TypeOK, SearchOK, JobAt
  <2>2. search'.status \in {"none", "queued"} /\ search'.evidence = search.evidence
      BY DEF IInv, TypeOK, SearchOK, queued_row
  <2>3. /\ job'.pc \in {"off", "provider"} /\ job'.code = None
        /\ job'.pc = "provider" => search'.status = "queued"
      BY <2>1 DEF IInv, TypeOK, JobOK, SearchOK, JobGoes, JobAt, queued_row
  <2> QED
      BY <1>5, <2>1, <2>2, <2>3 DEF TaskOK, CompletedIsRecorded, EvidenceAfterRecord,
                                    EndedTaskSettles
<1> QED
    BY <1>1, <1>2, <1>4, <1>6, ReviewsUndisturbed DEF IInv, ReviewsOK

LEMMA ProviderKeeps ==
    ASSUME IInv, RunProvider
    PROVE  IInv'
<1> USE DEF RunProvider, caseVars
<1>1. UNCHANGED <<config, search, rows, events, recorded, verdicts, req, faults>>
    BY DEF RunProvider
<1>2. /\ JobOK' /\ job'.pc \in {"finalize", "fail"}
      /\ job'.pc = "finalize" => job'.code = None
      /\ job'.pc = "fail" => job'.code = "provider"
  <2>1. JobOK /\ job.code = None
      BY DEF IInv, TypeOK, TaskOK, JobAt
  <2>2. CASE Rejected
      BY <2>1, <2>2, NoneAssumption DEF JobOK, Rejected, FailsWith
  <2>3. ASSUME NEW ranked \in SUBSET Candidate,
               job' = [job EXCEPT !.pc = "finalize", !.ranked = ranked]
        PROVE  JobOK' /\ job'.pc = "finalize" /\ job'.code = None
      BY <2>1, <2>3 DEF JobOK
  <2> QED
      BY <2>2, <2>3 DEF Rejected, FailsWith, JobOK
<1>3. TypeOK'
    BY <1>2 DEF IInv, TypeOK, caseVars, SearchOK, RowOK, RequestOK
<1>4. TaskOK'
  <2>1. NothingListed /\ search.status = "queued" /\ ~search.evidence /\ ~recorded
      BY DEF IInv, TaskOK, JobAt
  <2>2. NothingListed'
      BY <1>1, <2>1 DEF NothingListed, InTransaction, At
  <2> HIDE DEF RunProvider
  <2> QED
      BY <1>1, <1>2, <2>1, <2>2 DEF TaskOK, CompletedIsRecorded, EvidenceAfterRecord,
                                    EndedTaskSettles
<1>5. ReviewsOK /\ TypeOK /\ faults \in Nat
    BY DEF IInv, ReviewsOK, TypeOK
<1> HIDE DEF RunProvider, caseVars
<1>6. faults' = faults
    BY <1>1
<1>7. RequestsKept
    BY <1>1 DEF RequestsKept
<1>8. faults' \in Nat /\ faults' >= faults
    BY <1>5, <1>6
<1>9. ReviewsOK'
    BY <1>1, <1>5, <1>8, <1>7, ReviewsUndisturbed
<1> QED
    BY <1>3, <1>4, <1>9 DEF IInv, ReviewsOK

\* finalize_queued_search finds no list and leaves one that nobody has reviewed.
LEMMA FinalizeKeeps ==
    ASSUME IInv, NEW o \in Outcome, finalize_queued_search(o)
    PROVE  IInv'
<1>1. faults' \in Nat /\ faults' >= faults /\ (o # "ok" => faults' = faults + 1)
    BY Counting DEF IInv, TypeOK, finalize_queued_search
<1>2. /\ RequestsKept /\ job.pc = "finalize"
      /\ UNCHANGED <<config, events, recorded, verdicts>>
    BY DEF CommitsIf, RequestsKept, finalize_queued_search, JobAt
<1>3. /\ search.status = "queued" /\ NothingListed /\ ~recorded /\ ~search.evidence
      /\ job.code = None /\ JobOK /\ SearchOK
    BY <1>2 DEF IInv, TaskOK, TypeOK
<1>4. /\ JobOK' /\ (o = "ok" => job'.pc = "audit" /\ job'.code = None)
      /\ (o # "ok" => job'.pc = "fail" /\ job'.code = "persist")
    BY <1>3, NoneAssumption DEF finalize_queued_search, JobOK, JobGoes, FailsWith
<1>5. /\ SearchOK' /\ ~search'.evidence
      /\ IF o = "failed" THEN search' = search ELSE search'.status = "completed"
    BY <1>3 DEF SearchOK, finalize_queued_search
<1>6. /\ DOMAIN rows' = Candidate
      /\ \A c \in Candidate : rows'[c] \in {Listed, NotListed}
      /\ o = "failed" => rows' = rows
    BY <1>3 DEF NothingListed, IInv, TypeOK, finalize_queued_search
<1>7. TypeOK'
  <2>1. \A c \in Candidate : RowOK(rows[c])'
      BY <1>6 DEF RowOK, Listed, NotListed, RowStatus
  <2> QED
      BY <1>1, <1>2, <1>4, <1>5, <1>6, <2>1, KeptRequests DEF IInv, TypeOK
<1>8. \A r \in Req : ~InTransaction(r)' /\ req'[r].cand = None
    BY <1>2, <1>3, KeptRequests DEF IInv, NothingListed, InTransaction, At
<1>9. TaskOK'
  <2>1. CASE o = "failed"
    <3>1. NothingListed'
        BY <1>2, <1>3, <1>6, <1>8, <2>1 DEF NothingListed
    <3> QED
        BY <1>1, <1>2, <1>3, <1>4, <1>5, <2>1, <3>1
        DEF TaskOK, CompletedIsRecorded, EvidenceAfterRecord, EndedTaskSettles, IInv, TypeOK
  <2>2. CASE o # "failed"
      BY <1>1, <1>4, <1>5, <2>2
      DEF TaskOK, CompletedIsRecorded, EvidenceAfterRecord, EndedTaskSettles, IInv, TypeOK
  <2> QED
      BY <2>1, <2>2
<1>10. ReviewsOK'
  <2>1. (RowLocks /\ SlotsEmpty)' /\ \A r \in Req : SnapshotOK(r)'
      BY <1>8 DEF RowLocks, SlotsEmpty, SnapshotOK
  <2>2. \A c \in Candidate : HistoryOK(c)' /\ StandingOK(c)'
      BY <1>2, <1>3, <1>6 DEF HistoryOK, StandingOK, NothingListed, Listed, NotListed, Final
  <2> QED
      BY <2>1, <2>2 DEF ReviewsOK
<1> QED
    BY <1>7, <1>9, <1>10 DEF IInv, ReviewsOK

LEMMA CompletionKeeps ==
    ASSUME IInv, NEW o \in Outcome, RecordCompletion(o)
    PROVE  IInv'
<1>1. faults' \in Nat /\ faults' >= faults /\ (o # "ok" => faults' = faults + 1)
    BY Counting DEF IInv, TypeOK, RecordCompletion
<1>2. /\ RequestsKept /\ job.pc = "audit"
      /\ UNCHANGED <<config, search, rows, events, verdicts>>
    BY DEF CommitsIf, RequestsKept, RecordCompletion, JobAt, caseVars
<1>3. /\ search.status = "completed" /\ ~search.evidence /\ job.code = None /\ JobOK
    BY <1>2 DEF IInv, TaskOK, TypeOK
<1>4. /\ JobOK'
      /\ o = "ok" => job'.pc \in {"osint", "over"} /\ job'.code = None /\ recorded'
      /\ o # "ok" => job'.pc = "fail" /\ job'.code = "audit"
    BY <1>3, NoneAssumption DEF RecordCompletion, AfterAudit, JobOK, JobGoes, FailsWith
<1>5. recorded' \in BOOLEAN
    BY DEF RecordCompletion, IInv, TypeOK
<1>6. TypeOK'
    BY <1>1, <1>2, <1>4, <1>5, KeptRequests DEF IInv, TypeOK, SearchOK, RowOK
<1>7. TaskOK'
    BY <1>1, <1>2, <1>3, <1>4, NoneAssumption
    DEF TaskOK, CompletedIsRecorded, EvidenceAfterRecord, EndedTaskSettles, IInv, TypeOK
<1>8. ReviewsOK'
    BY <1>1, <1>2, ReviewsUndisturbed DEF IInv, ReviewsOK
<1> QED
    BY <1>6, <1>7, <1>8 DEF IInv, ReviewsOK

LEMMA FailureKeeps ==
    ASSUME IInv, NEW o \in Outcome, mark_queued_search_failed(o)
    PROVE  IInv'
<1>1. faults' \in Nat /\ faults' >= faults /\ (o # "ok" => faults' = faults + 1)
    BY Counting DEF IInv, TypeOK, mark_queued_search_failed
<1>2. /\ RequestsKept /\ job.pc = "fail"
      /\ UNCHANGED <<config, rows, events, recorded, verdicts>>
    BY DEF CommitsIf, RequestsKept, mark_queued_search_failed, JobAt
<1>3. /\ search.status \in {"queued", "completed"} /\ ~search.evidence
      /\ SearchOK /\ JobOK /\ job.code # None
      /\ job.code = "provider" => search.status = "queued"
      /\ job.code # "provider" => faults > 0
    BY <1>2 DEF IInv, TaskOK, TypeOK, JobOK
<1>4. JobOK' /\ job'.pc = "over" /\ job'.code = job.code
    BY <1>3 DEF mark_queued_search_failed, JobOK, JobGoes
<1>5. /\ SearchOK' /\ ~search'.evidence
      /\ IF o = "failed" THEN search' = search ELSE search'.status = "failed"
    BY <1>3 DEF SearchOK, JobOK, mark_queued_search_failed, failed_row
<1>6. TypeOK'
    BY <1>1, <1>2, <1>4, <1>5, KeptRequests DEF IInv, TypeOK, RowOK
<1>7. search'.status = "queued" => NothingListed' /\ ~recorded'
  <2>1. ASSUME search'.status = "queued" PROVE NothingListed /\ ~recorded
      BY <1>3, <1>5, <2>1 DEF IInv, TaskOK
  <2> QED
      BY <1>2, <2>1, KeptRequests DEF IInv, NothingListed, InTransaction, At
<1>8. TaskOK'
    BY <1>1, <1>3, <1>4, <1>5, <1>7
    DEF TaskOK, CompletedIsRecorded, EvidenceAfterRecord, EndedTaskSettles, IInv, TypeOK
<1>9. ReviewsOK'
    BY <1>1, <1>2, ReviewsUndisturbed DEF IInv, ReviewsOK
<1> QED
    BY <1>6, <1>8, <1>9 DEF IInv, ReviewsOK

LEMMA EvidenceKeeps ==
    ASSUME IInv, NEW o \in Outcome, run_auto_osint(o)
    PROVE  IInv'
<1>1. faults' \in Nat /\ faults' >= faults /\ (o # "ok" => faults' = faults + 1)
    BY Counting DEF IInv, TypeOK, run_auto_osint
<1>2. /\ RequestsKept /\ job.pc = "osint"
      /\ UNCHANGED <<config, rows, events, recorded, verdicts>>
    BY DEF CommitsIf, RequestsKept, run_auto_osint, JobAt
<1>3. search.status = "completed" /\ recorded /\ SearchOK /\ JobOK
    BY <1>2 DEF IInv, TaskOK, TypeOK
<1>4. JobOK' /\ job'.pc = "over"
    BY <1>3 DEF run_auto_osint, AfterEvidence, JobOK, JobGoes
<1>5. SearchOK' /\ search'.status = "completed"
    BY <1>3 DEF SearchOK, run_auto_osint, evidence_row
<1>6. TypeOK'
    BY <1>1, <1>2, <1>4, <1>5, KeptRequests DEF IInv, TypeOK, RowOK
<1>7. TaskOK'
    BY <1>2, <1>3, <1>4, <1>5
    DEF TaskOK, CompletedIsRecorded, EvidenceAfterRecord, EndedTaskSettles
<1>8. ReviewsOK'
    BY <1>1, <1>2, ReviewsUndisturbed DEF IInv, ReviewsOK
<1> QED
    BY <1>6, <1>7, <1>8 DEF IInv, ReviewsOK

-----------------------------------------------------------------------------
\* Steps of a review.

\* Nothing happens to the request p but that its snapshot may become stale.
Kept(p) ==
    /\ req'[p].pc = req[p].pc /\ req'[p].cand = req[p].cand
    /\ req'[p].by = req[p].by /\ req'[p].decision = req[p].decision
    /\ req'[p].target = req[p].target /\ req'[p].action = req[p].action
    /\ InTransaction(p) /\ ~req'[p].stale => ~req[p].stale

\* A step of the request r leaves the others as they are.
LEMMA OneRequest ==
    ASSUME TypeOK, NEW r \in Req, NEW x, RequestOK(x),
           LET next == [req EXCEPT ![r] = x] IN req' = next \/ req' = Committed(next)
    PROVE  /\ DOMAIN req' = Req /\ \A p \in Req : RequestOK(req[p])'
           /\ \A p \in Req \ {r} : Kept(p)
           /\ x.pc # "write" => req'[r] = x
           /\ req' = [req EXCEPT ![r] = x] => req'[r] = x
           /\ req' = Committed([req EXCEPT ![r] = x]) =>
                 \A p \in Req : InTransaction(p)' => req'[p].stale
<1> DEFINE next == [req EXCEPT ![r] = x]
<1>1. /\ DOMAIN next = Req /\ next[r] = x
      /\ \A p \in Req \ {r} : next[p] = req[p]
      /\ \A p \in Req : RequestOK(next[p])
    BY DEF TypeOK
<1>2. req' = next \/ req' = Committed(next)
    OBVIOUS
<1> HIDE DEF next
<1>3. CASE req' = next
  <2>1. \A p \in Req : RequestOK(req[p])' = RequestOK(next[p])
      BY <1>3 DEF RequestOK
  <2>2. \A p \in Req \ {r} : Kept(p)
      BY <1>1, <1>3 DEF Kept
  <2>3. req' = Committed(next) => \A p \in Req : InTransaction(p)' => req'[p].stale
      BY <1>1, CommitKeepsRequests DEF InTransaction, At
  <2> QED
      BY <1>1, <1>3, <2>1, <2>2, <2>3 DEF next
<1>4. CASE req' = Committed(next)
  <2>1. \A p \in Req : RequestOK(req[p])' = RequestOK(Committed(next)[p])
      BY <1>4 DEF RequestOK
  <2>2. \A p \in Req : /\ RequestOK(req[p])'
                       /\ req'[p].pc = next[p].pc
                       /\ next[p].pc = "write" => req'[p].stale
      BY <1>1, <1>4, <2>1, CommitKeepsRequests
  <2>3. \A p \in Req \ {r} : Kept(p)
      BY <1>1, <1>4, CommitKeepsRequests DEF Kept, InTransaction, At
  <2>4. x.pc # "write" => req'[r] = x
      BY <1>1, <1>4 DEF Committed
  <2>5. DOMAIN req' = Req
      BY <1>1, <1>4, CommitKeepsRequests
  <2>6. req' = next => req'[r] = x
      BY <1>1
  <2> QED
      BY <2>2, <2>3, <2>4, <2>5, <2>6 DEF next, InTransaction, At
<1> QED
    BY <1>2, <1>3, <1>4

\* A review goes on only once the list is there, and does not touch the task.
LEMMA TaskUndisturbed ==
    ASSUME IInv, NEW r \in Req, req[r].pc # "idle" \/ \E c \in Candidate : rows[c].st # "absent",
           UNCHANGED <<search, recorded, job>>, faults' \in Nat, faults' >= faults
    PROVE  TaskOK'
<1>1. search.status \notin {"none", "queued"}
    BY NobodyReviews DEF IInv, NothingListed, NotListed
<1> QED
    BY <1>1 DEF IInv, TypeOK, TaskOK, CompletedIsRecorded, EvidenceAfterRecord,
                EndedTaskSettles

\* A request that leaves or has left its transaction, the tables untouched.
LEMMA OutsideTransaction ==
    ASSUME IInv, NEW r \in Req, UNCHANGED <<config, rows, events>>,
           ~InTransaction(r)', At(r, "idle")' => req'[r].cand = None,
           \A p \in Req \ {r} : Kept(p)
    PROVE  /\ (RowLocks /\ SlotsEmpty)' /\ \A p \in Req : SnapshotOK(p)'
           /\ \A c \in Candidate : HistoryOK(c)'
<1>1. (RowLocks /\ SlotsEmpty)'
    BY DEF IInv, RowLocks, SlotsEmpty, Kept, InTransaction, At
<1>2. \A p \in Req : SnapshotOK(p)'
    BY DEF IInv, SnapshotOK, Kept, InTransaction, At, target_status, SameReviewerForbidden
<1>3. \A c \in Candidate : HistoryOK(c)'
    BY DEF IInv, HistoryOK
<1> QED
    BY <1>1, <1>2, <1>3

\* What the others will record is still to be recorded.
LEMMA OthersStand ==
    ASSUME IInv, NEW r \in Req, \A p \in Req \ {r} : Kept(p), faults' >= faults,
           faults' \in Nat, NEW c \in Candidate, rows'[c] = rows[c],
           verdicts \subseteq verdicts',
           WillRecord(r, c) => (WillRecord(r, c)' \/ RecordOfStanding(c) \in verdicts')
    PROVE  StandingOK(c)'
<1>1. RecordOfStanding(c)' = RecordOfStanding(c)
    BY DEF RecordOfStanding
<1>2. ASSUME NEW p \in Req \ {r}, WillRecord(p, c) PROVE WillRecord(p, c)'
    BY <1>1, <1>2 DEF WillRecord, Kept, At
<1>3. faults' = 0 => faults = 0
    BY DEF IInv, TypeOK
<1> QED
    BY <1>1, <1>2, <1>3 DEF IInv, StandingOK

\* A step of a review leaves the types of what is not its own.
LEMMA TypesKept ==
    ASSUME TypeOK, UNCHANGED <<config, search, job, recorded>>, faults' \in Nat,
           DOMAIN req' = Req, \A p \in Req : RequestOK(req[p])',
           DOMAIN rows' = Candidate, \A c \in Candidate : RowOK(rows[c])',
           events' \in [Candidate -> Seq([by : Reviewer, decision : Decision])],
           verdicts' \subseteq [cand : Candidate, by : Reviewer, action : Action]
    PROVE  TypeOK'
<1>1. SearchOK' /\ JobOK'
    BY DEF TypeOK, SearchOK, JobOK
<1> QED
    BY <1>1 DEF TypeOK

\* The types of the tables as they were.
LEMMA TablesKept ==
    ASSUME TypeOK, UNCHANGED <<rows, events, verdicts>>
    PROVE  /\ DOMAIN rows' = Candidate /\ \A c \in Candidate : RowOK(rows[c])'
           /\ events' \in [Candidate -> Seq([by : Reviewer, decision : Decision])]
           /\ verdicts' \subseteq [cand : Candidate, by : Reviewer, action : Action]
<1>1. \A c \in Candidate : RowOK(rows[c])'
    BY DEF TypeOK, RowOK
<1> QED
    BY <1>1 DEF TypeOK

LEMMA SelectKeeps ==
    ASSUME IInv, NEW r \in Req, NEW c \in Candidate, NEW u \in Reviewer,
           NEW d \in Decision, SelectCandidate(r, c, u, d)
    PROVE  IInv'
<1> DEFINE x == [pc |-> "write", cand |-> c, by |-> u, decision |-> d,
                 target |-> target_status(rows[c], d), stale |-> FALSE, action |-> None]
<1>1. /\ req' = [req EXCEPT ![r] = x] /\ ~RowLocked(c) /\ At(r, "idle")
      /\ rows[c].st # "absent" /\ ~SameReviewerForbidden(rows[c], u, d)
      /\ UNCHANGED <<config, search, rows, events, recorded, verdicts, job, faults>>
    BY DEF SelectCandidate, caseVars
<1>2. TypeOK /\ faults \in Nat
    BY DEF IInv, TypeOK
<1>3. RequestOK(x)
    BY DEF RequestOK, target_status, RowStatus, Decision, Final
<1>4. /\ DOMAIN req' = Req /\ \A p \in Req : RequestOK(req[p])'
      /\ \A p \in Req \ {r} : Kept(p)
      /\ req'[r] = x
    BY <1>1, <1>2, <1>3, OneRequest
<1>5. TypeOK'
    BY <1>1, <1>2, <1>4, TablesKept, TypesKept
<1>6. TaskOK'
  <2>1. faults' \in Nat /\ faults' >= faults
      BY <1>1, <1>2
  <2> QED
      BY <1>1, <2>1, TaskUndisturbed
<1>7. RowLocks'
  <2> SUFFICES ASSUME config'.backend = "postgres", NEW p \in Req, NEW q \in Req,
                      InTransaction(p)', InTransaction(q)', req'[p].cand = req'[q].cand
               PROVE  p = q
      BY DEF RowLocks
  <2>1. \A k \in Req \ {r} : InTransaction(k)' => InTransaction(k) /\ req[k].cand # c
      BY <1>1, <1>4 DEF Kept, InTransaction, At, RowLocked
  <2>2. \A k \in Req \ {r} : req'[k].cand = req[k].cand
      BY <1>4 DEF Kept
  <2> QED
      BY <1>1, <1>4, <2>1, <2>2 DEF IInv, RowLocks
<1>8. SlotsEmpty'
    BY <1>4 DEF IInv, SlotsEmpty, Kept, At
<1>9. \A p \in Req : SnapshotOK(p)'
  <2>1. SnapshotOK(r)'
      BY <1>1, <1>4 DEF SnapshotOK, target_status, SameReviewerForbidden
  <2>2. \A p \in Req \ {r} : SnapshotOK(p)'
      BY <1>1, <1>4 DEF IInv, SnapshotOK, Kept, InTransaction, At, target_status,
                        SameReviewerForbidden
  <2> QED
      BY <2>1, <2>2
<1>10. \A k \in Candidate : HistoryOK(k)' /\ StandingOK(k)'
  <2> TAKE k \in Candidate
  <2>1. HistoryOK(k)'
      BY <1>1 DEF IInv, HistoryOK
  <2>2. ~WillRecord(r, k)
      BY <1>1 DEF WillRecord, At
  <2>3. faults' >= faults
      BY <1>1, <1>2
  <2>4. rows'[k] = rows[k] /\ verdicts \subseteq verdicts' /\ faults' \in Nat
      BY <1>1, <1>2
  <2> QED
      BY <1>4, <2>1, <2>2, <2>3, <2>4, OthersStand
<1> QED
    BY <1>5, <1>6, <1>7, <1>8, <1>9, <1>10 DEF IInv

\* A request that ends, with everything else as it was but the fault counter.
LEMMA EndingKeeps ==
    ASSUME IInv, NEW r \in Req, ~At(r, "idle"), req' = [req EXCEPT ![r] = Idle],
           UNCHANGED <<config, search, rows, events, recorded, verdicts, job>>,
           faults' \in Nat, faults' >= faults,
           faults' > 0 \/ InTransaction(r)
    PROVE  IInv'
<1>1. RequestOK(Idle)
    BY DEF RequestOK, Idle, RowStatus
<1>2. TypeOK
    BY DEF IInv
<1>3. /\ DOMAIN req' = Req /\ \A p \in Req : RequestOK(req[p])'
      /\ \A p \in Req \ {r} : Kept(p)
      /\ req'[r] = Idle
    BY <1>1, <1>2, OneRequest
<1>4. TypeOK'
    BY <1>2, <1>3, TablesKept, TypesKept
<1>5. TaskOK'
    BY TaskUndisturbed DEF At
<1>6. /\ (RowLocks /\ SlotsEmpty)' /\ \A p \in Req : SnapshotOK(p)'
      /\ \A c \in Candidate : HistoryOK(c)'
  <2>1. ~InTransaction(r)' /\ req'[r].cand = None
      BY <1>3 DEF Idle, InTransaction, At
  <2> QED
      BY <1>3, <2>1, OutsideTransaction
<1>7. \A c \in Candidate : StandingOK(c)'
  <2>1. CASE faults' > 0
      BY <2>1 DEF StandingOK
  <2>2. CASE InTransaction(r)
    <3>1. \A c \in Candidate : ~WillRecord(r, c)
        BY <2>2 DEF WillRecord, InTransaction, At
    <3> QED
        BY <1>3, <3>1, OthersStand
  <2> QED
      BY <2>1, <2>2
<1> QED
    BY <1>4, <1>5, <1>6, <1>7 DEF IInv

LEMMA RefusedKeeps ==
    ASSUME IInv, NEW r \in Req, WriteRefused(r)
    PROVE  IInv'
<1>1. faults \in Nat
    BY DEF IInv, TypeOK
<1>2. /\ InTransaction(r) /\ ~At(r, "idle") /\ req' = [req EXCEPT ![r] = Idle]
      /\ UNCHANGED <<config, search, rows, events, recorded, verdicts, job, faults>>
    BY DEF WriteRefused, InTransaction, At, caseVars
<1>3. faults' \in Nat /\ faults' >= faults
    BY <1>1, <1>2
<1> QED
    BY <1>2, <1>3, EndingKeeps

LEMMA DropKeeps ==
    ASSUME IInv, NEW r \in Req, DropRequest(r)
    PROVE  IInv'
<1>1. faults \in Nat
    BY DEF IInv, TypeOK
<1>2. /\ ~At(r, "idle") /\ req' = [req EXCEPT ![r] = Idle] /\ faults' = faults + 1
      /\ UNCHANGED <<config, search, rows, events, recorded, verdicts, job>>
    BY DEF DropRequest, caseVars
<1>3. faults' \in Nat /\ faults' >= faults /\ faults' > 0
    BY <1>1, <1>2
<1> QED
    BY <1>2, <1>3, EndingKeeps

LEMMA RestartKeeps ==
    ASSUME IInv, Restart
    PROVE  IInv'
<1>1. /\ UNCHANGED <<config, search, rows, events, recorded, verdicts>>
      /\ faults' = faults + 1 /\ req' = [r \in Req |-> Idle]
      /\ job' = IF job.pc \in {"off", "over"} THEN job ELSE [job EXCEPT !.pc = "gone"]
    BY DEF Restart, caseVars
<1>2. TypeOK /\ faults' \in Nat /\ faults' > 0 /\ faults' >= faults
  <2>1. TypeOK /\ faults \in Nat
      BY DEF IInv, TypeOK
  <2>2. faults' = faults + 1
      BY <1>1
  <2>3. faults' \in Nat /\ faults' > 0 /\ faults' >= faults
      BY <2>1, <2>2
  <2> QED
      BY <2>1, <2>3
<1>3. JobOK' /\ job'.code = job.code /\ (job' = job \/ job'.pc = "gone")
      /\ job'.pc \in {"off", "over", "gone"}
    BY <1>1, <1>2 DEF TypeOK, JobOK
<1>4. \A r \in Req : RequestOK(req[r])' /\ ~InTransaction(r)' /\ req'[r].cand = None
    BY <1>1 DEF RequestOK, Idle, RowStatus, InTransaction, At
<1>5. TypeOK'
    BY <1>1, <1>2, <1>3, <1>4 DEF TypeOK, SearchOK, RowOK
<1>6. TaskOK'
  <2>1. NothingListed => NothingListed'
      BY <1>1, <1>4 DEF NothingListed
  <2>2. ~search.evidence \/ job'.pc = "over"
      BY <1>1, <1>3 DEF IInv, TaskOK
  <2>3. faults \in Nat
      BY DEF IInv, TypeOK
  <2> QED
      BY <1>1, <1>2, <1>3, <2>1, <2>2, <2>3
      DEF IInv, TaskOK, CompletedIsRecorded, EvidenceAfterRecord, EndedTaskSettles
<1>7. RowLocks' /\ SlotsEmpty' /\ \A r \in Req : SnapshotOK(r)'
    BY <1>4 DEF RowLocks, SlotsEmpty, SnapshotOK
<1>8. \A c \in Candidate : HistoryOK(c)' /\ StandingOK(c)'
    BY <1>1, <1>2 DEF IInv, HistoryOK, StandingOK
<1> QED
    BY <1>5, <1>6, <1>7, <1>8 DEF IInv

\* The row a decision leaves, and the history that explains it.
LEMMA DecisionLeaves ==
    ASSUME IInv, NEW r \in Req, NEW c \in Candidate, c = req[r].cand,
           InTransaction(r), config.backend = "sqlite" => ~req[r].stale,
           config' = config,
           rows' = [rows EXCEPT ![c] = [st |-> req[r].target, by |-> req[r].by]],
           events' = [events EXCEPT ![c] =
                         Append(@, [by |-> req[r].by, decision |-> req[r].decision])]
    PROVE  /\ DOMAIN rows' = Candidate
           /\ \A k \in Candidate : RowOK(rows[k])' /\ HistoryOK(k)'
           /\ events' \in [Candidate -> Seq([by : Reviewer, decision : Decision])]
           /\ rows'[c] = [st |-> req[r].target, by |-> req[r].by]
           /\ \A k \in Candidate \ {c} : rows'[k] = rows[k]
<1> DEFINE u == req[r].by
           d == req[r].decision
           t == req[r].target
           row == rows[c]
           n == Len(events[c])
           e == [by |-> u, decision |-> d]
<1>1. /\ u \in Reviewer /\ d \in Decision /\ t \in {d, "needs_second_review"}
      /\ u # None
    BY NoneAssumption DEF IInv, TypeOK, RequestOK, InTransaction, At
<1>2. /\ row.st # "absent" /\ t = target_status(row, d)
      /\ ~SameReviewerForbidden(row, u, d)
    BY DEF IInv, SnapshotOK
<1>3. /\ DOMAIN rows' = Candidate /\ rows'[c] = [st |-> t, by |-> u]
      /\ \A k \in Candidate \ {c} : rows'[k] = rows[k]
    BY DEF IInv, TypeOK
<1>4. /\ events[c] \in Seq([by : Reviewer, decision : Decision]) /\ n \in Nat
      /\ \A i \in 1..n : events[c][i] \in [by : Reviewer, decision : Decision]
  <2>1. events[c] \in Seq([by : Reviewer, decision : Decision])
      BY DEF IInv, TypeOK
  <2> HIDE DEF e
  <2>2. n \in Nat
      BY <2>1
  <2>3. \A S : events[c] \in Seq(S) => \A i \in 1..Len(events[c]) : events[c][i] \in S
      OBVIOUS
  <2> QED
      BY <2>1, <2>2, <2>3
<1>5. e \in [by : Reviewer, decision : Decision]
    BY <1>1
<1>6. /\ events'[c] = Append(events[c], e)
      /\ \A k \in Candidate \ {c} : events'[k] = events[k]
    BY DEF IInv, TypeOK
<1>7. events' \in [Candidate -> Seq([by : Reviewer, decision : Decision])]
  <2>1. Append(events[c], e) \in Seq([by : Reviewer, decision : Decision])
      BY <1>4, <1>5
  <2> QED
      BY <2>1 DEF IInv, TypeOK
<1>8. RowOK([st |-> t, by |-> u])
    BY <1>1 DEF RowOK, RowStatus, Decision, Final
<1>9. \A k \in Candidate : RowOK(rows[k])'
    BY <1>3, <1>8 DEF IInv, TypeOK, RowOK
<1>10. /\ Len(events'[c]) = n + 1 /\ events'[c][n + 1] = e
       /\ n >= 1 => events'[c][n] = events[c][n]
  <2> HIDE DEF e
  <2> QED
      BY <1>4, <1>5, <1>6
<1>11. HistoryOK(c)'
  <2> HIDE DEF n
  <2>1. t = d \/ (t = "needs_second_review" /\ d \in Final)
      BY <1>1, <1>2 DEF target_status
  <2>2. ASSUME config.second, t \in Final
        PROVE  n >= 1 /\ events[c][n].decision \in Final /\ events[c][n].by # u
    <3>1. row.st = "needs_second_review" /\ d \in Final /\ row.by # u
        BY <1>1, <1>2, <2>2 DEF target_status, SameReviewerForbidden, Final, Decision
    <3>2. row.by # None
        BY <3>1 DEF IInv, TypeOK, RowOK
    <3>3. /\ n >= 1 /\ events[c][n].by = row.by
          /\ \/ row.st = events[c][n].decision
             \/ events[c][n].decision \in Final
        BY <3>2 DEF IInv, HistoryOK, n
    <3>4. events[c][n].decision \in Decision
      <4>1. events[c][n] \in [by : Reviewer, decision : Decision]
          BY <1>4, <3>3
      <4> QED
          BY <4>1
    <3> QED
        BY <3>1, <3>3, <3>4 DEF Decision, Final
  <2>3. /\ n + 1 >= 1 /\ (n + 1) - 1 = n /\ (n >= 1 => n + 1 >= 2)
      BY <1>4 DEF n
  <2>4. rows'[c].by = u /\ rows'[c].st = t
      BY <1>3
  <2>5. Len(events'[c]) = n + 1 /\ events'[c][n + 1].by = u
        /\ events'[c][n + 1].decision = d
      BY <1>10
  <2>6. config'.second /\ rows'[c].st \in Final =>
           /\ n + 1 >= 2
           /\ events'[c][n].decision \in Final
           /\ events'[c][n].by # events'[c][n + 1].by
      BY <1>10, <2>2, <2>3, <2>4, <2>5
  <2> HIDE DEF u, d, t, row, e
  <2> QED
      BY <1>1, <2>1, <2>3, <2>4, <2>5, <2>6 DEF HistoryOK
<1>12. \A k \in Candidate \ {c} : HistoryOK(k)'
    BY <1>3, <1>6 DEF IInv, HistoryOK
<1> QED
    BY <1>3, <1>7, <1>9, <1>11, <1>12

LEMMA WriteKeeps ==
    ASSUME IInv, NEW r \in Req, NEW o \in Outcome, WriteDecision(r, o)
    PROVE  IInv'
<1> DEFINE x == IF o = "ok" THEN [req[r] EXCEPT !.pc = "reread"] ELSE Idle
<1>1. /\ InTransaction(r)
      /\ config.backend = "sqlite" => ~req[r].stale
      /\ UNCHANGED <<config, search, recorded, verdicts, job>>
    BY DEF WriteDecision
<1>2. faults' \in Nat /\ faults' >= faults /\ (o # "ok" => faults' = faults + 1)
    BY Counting DEF IInv, TypeOK, WriteDecision
<1>3. TypeOK /\ faults \in Nat /\ RequestOK(req[r]) /\ req[r].pc = "write"
  <2>1. TypeOK
      BY DEF IInv
  <2>2. faults \in Nat /\ RequestOK(req[r])
      BY <2>1 DEF TypeOK
  <2> QED
      BY <1>1, <2>1, <2>2 DEF InTransaction, At
<1>4. CASE o = "failed"
  <2>1. UNCHANGED <<rows, events>> /\ req' = [req EXCEPT ![r] = Idle]
      BY <1>4 DEF WriteDecision
  <2>2. ~At(r, "idle")
      BY <1>3 DEF At
  <2> QED
      BY <1>1, <1>2, <2>1, <2>2, EndingKeeps
<1>5. CASE o # "failed"
  <2>0. PICK c \in Candidate : c = req[r].cand
      BY <1>3 DEF RequestOK
  <2>1. /\ rows' = [rows EXCEPT ![c] = [st |-> req[r].target, by |-> req[r].by]]
        /\ events' = [events EXCEPT ![c] =
                         Append(@, [by |-> req[r].by, decision |-> req[r].decision])]
        /\ req' = Committed([req EXCEPT ![r] = x])
      BY <1>5, <2>0 DEF WriteDecision
  <2>2. RequestOK(x) /\ x.pc # "write" /\ (x.pc = "idle" => x.cand = None)
      BY <1>3 DEF RequestOK, Idle, RowStatus
  <2> HIDE DEF x
  <2>3. /\ DOMAIN req' = Req /\ \A p \in Req : RequestOK(req[p])'
        /\ \A p \in Req \ {r} : Kept(p)
        /\ req'[r] = x
        /\ \A p \in Req : InTransaction(p)' => req'[p].stale
      BY <1>3, <2>1, <2>2, OneRequest
  <2>4. /\ DOMAIN rows' = Candidate
        /\ \A k \in Candidate : RowOK(rows[k])' /\ HistoryOK(k)'
        /\ events' \in [Candidate -> Seq([by : Reviewer, decision : Decision])]
        /\ rows'[c] = [st |-> req[r].target, by |-> req[r].by]
        /\ \A k \in Candidate \ {c} : rows'[k] = rows[k]
      BY <1>1, <2>0, <2>1, DecisionLeaves
  <2>5. verdicts' \subseteq [cand : Candidate, by : Reviewer, action : Action]
      BY <1>1, <1>3 DEF TypeOK
  <2>6. TypeOK'
      BY <1>1, <1>2, <1>3, <2>3, <2>4, <2>5, TypesKept
  <2>7. TaskOK'
      BY <1>1, <1>2, <1>3, TaskUndisturbed
  <2>8. ~InTransaction(r)' /\ (At(r, "idle")' => req'[r].cand = None)
      BY <2>2, <2>3 DEF InTransaction, At
  <2>9. (RowLocks /\ SlotsEmpty)'
      BY <1>1, <2>3, <2>8 DEF IInv, RowLocks, SlotsEmpty, Kept, InTransaction, At
  <2>10. \A p \in Req : SnapshotOK(p)'
    <3> SUFFICES ASSUME NEW p \in Req, InTransaction(p)',
                        config'.backend = "sqlite" => ~req'[p].stale
                 PROVE  SnapshotOK(p)'
        BY DEF SnapshotOK
    <3>1. config.backend = "postgres" /\ p # r
        BY <1>1, <1>3, <2>3, <2>8, BackendAssumption DEF TypeOK
    <3>2. InTransaction(p) /\ req'[p].cand = req[p].cand
        BY <2>3, <3>1 DEF Kept, InTransaction, At
    <3>3. req[p].cand \in Candidate \ {c}
      <4>1. req[p].cand \in Candidate
          BY <1>3, <3>2 DEF TypeOK, RequestOK, InTransaction, At
      <4> QED
          BY <1>1, <2>0, <3>1, <3>2, <4>1 DEF IInv, RowLocks
    <3>4. rows'[req'[p].cand] = rows[req[p].cand]
        BY <2>4, <3>2, <3>3
    <3>5. SnapshotOK(p) /\ ~(config.backend = "sqlite")
        BY <3>1 DEF IInv
    <3>6. Kept(p)
        BY <2>3, <3>1
    <3> QED
        BY <1>1, <3>2, <3>4, <3>5, <3>6
        DEF SnapshotOK, Kept, target_status, SameReviewerForbidden
  <2>11. StandingOK(c)'
    <3>1. CASE o = "ok"
      <4>1. /\ req'[r].cand = c /\ req'[r].by = req[r].by
            /\ req'[r].decision = req[r].decision /\ req'[r].pc = "reread"
          BY <1>3, <2>0, <2>3, <3>1 DEF x, RequestOK
      <4>2. \/ req[r].target = req[r].decision
            \/ req[r].target = "needs_second_review" /\ req[r].decision \in Final
        <5>1. req[r].target = target_status(rows[c], req[r].decision)
            BY <1>1, <2>0 DEF IInv, SnapshotOK
        <5> QED
            BY <5>1 DEF target_status
      <4>3. WillRecord(r, c)'
          BY <2>4, <4>1, <4>2 DEF WillRecord, At
      <4> QED
          BY <4>3 DEF StandingOK
    <3>2. CASE o # "ok"
        BY <1>2, <1>3, <3>2 DEF StandingOK
    <3> QED
        BY <3>1, <3>2
  <2>12. \A k \in Candidate \ {c} : StandingOK(k)'
    <3>1. \A k \in Candidate \ {c} : ~WillRecord(r, k)
        BY <2>0 DEF WillRecord
    <3>2. verdicts \subseteq verdicts'
        BY <1>1
    <3> QED
        BY <1>2, <2>3, <2>4, <3>1, <3>2, OthersStand
  <2> QED
      BY <2>4, <2>6, <2>7, <2>9, <2>10, <2>11, <2>12 DEF IInv
<1> QED
    BY <1>4, <1>5

\* What a reviewer sees of his own decision determines its name in the audit log.
LEMMA ActionOfStanding ==
    ASSUME TypeOK, NEW c \in Candidate, NEW d \in Decision
    PROVE  /\ event_action(d, rows[c].st) \in Action
           /\ \/ rows[c].st = d
              \/ (rows[c].st = "needs_second_review" /\ d \in Final)
              => event_action(d, rows[c].st) = RecordOfStanding(c).action
<1> DEFINE st == rows[c].st
<1> HIDE DEF st
<1>1. st = "needs_second_review" /\ d \in Final =>
         event_action(d, st) = "CANDIDATE_FIRST_REVIEW_RECORDED"
    BY DEF event_action, Final
<1>2. st # "needs_second_review" /\ d = "confirmed" =>
         event_action(d, st) = "CANDIDATE_CONFIRMED"
    BY DEF event_action, Final
<1>3. st # "needs_second_review" /\ d = "rejected" =>
         event_action(d, st) = "CANDIDATE_REJECTED"
    BY DEF event_action, Final
<1>4. d = "inconclusive" => event_action(d, st) = "CANDIDATE_MARKED_INCONCLUSIVE"
    BY DEF event_action, Final
<1>5. event_action(d, st) \in Action
    BY <1>1, <1>2, <1>3, <1>4 DEF Action, Decision, Final
<1>6. st = "needs_second_review" =>
         RecordOfStanding(c).action = "CANDIDATE_FIRST_REVIEW_RECORDED"
    BY DEF RecordOfStanding, st
<1>7. st = "confirmed" => RecordOfStanding(c).action = "CANDIDATE_CONFIRMED"
    BY DEF RecordOfStanding, st
<1>8. st = "rejected" => RecordOfStanding(c).action = "CANDIDATE_REJECTED"
    BY DEF RecordOfStanding, st
<1>9. st = "inconclusive" => RecordOfStanding(c).action = "CANDIDATE_MARKED_INCONCLUSIVE"
    BY DEF RecordOfStanding, st
<1>10. st = d \/ (st = "needs_second_review" /\ d \in Final)
          => event_action(d, st) = RecordOfStanding(c).action
    BY <1>1, <1>2, <1>3, <1>4, <1>6, <1>7, <1>8, <1>9 DEF Decision, Final
<1> QED
    BY <1>5, <1>10 DEF st

LEMMA ReadKeeps ==
    ASSUME IInv, NEW r \in Req, ReadAgain(r)
    PROVE  IInv'
<1>1. /\ At(r, "reread")
      /\ UNCHANGED <<config, search, rows, events, recorded, verdicts, job>>
    BY DEF ReadAgain, caseVars
<1>2. TypeOK /\ faults \in Nat /\ RequestOK(req[r]) /\ req[r].pc = "reread"
  <2>1. TypeOK
      BY DEF IInv
  <2>2. faults \in Nat /\ RequestOK(req[r])
      BY <2>1 DEF TypeOK
  <2> QED
      BY <1>1, <2>1, <2>2 DEF At
<1>3. PICK c \in Candidate : c = req[r].cand
    BY <1>2 DEF RequestOK
<1>4. CASE faults' = faults + 1 /\ req' = [req EXCEPT ![r] = Idle]
  <2>1. faults' \in Nat /\ faults' >= faults /\ faults' > 0
      BY <1>2, <1>4
  <2>2. ~At(r, "idle")
      BY <1>2 DEF At
  <2> QED
      BY <1>1, <1>4, <2>1, <2>2, EndingKeeps
<1>5. CASE /\ faults' = faults
           /\ req' = [req EXCEPT ![r].pc = "record",
                                 ![r].action = event_action(req[r].decision, rows[c].st)]
  <2> DEFINE x == [req[r] EXCEPT !.pc = "record",
                                 !.action = event_action(req[r].decision, rows[c].st)]
  <2>1. req' = [req EXCEPT ![r] = x]
      BY <1>2, <1>5 DEF TypeOK
  <2>2. req[r].decision \in Decision
      BY <1>2 DEF RequestOK
  <2>3. event_action(req[r].decision, rows[c].st) \in Action
      BY <1>2, <2>2, ActionOfStanding
  <2>4. /\ RequestOK(x) /\ x.pc = "record" /\ x.cand = c /\ x.by = req[r].by
        /\ x.action = event_action(req[r].decision, rows[c].st)
      BY <1>2, <1>3, <2>3 DEF RequestOK
  <2> HIDE DEF x
  <2>5. /\ DOMAIN req' = Req /\ \A p \in Req : RequestOK(req[p])'
        /\ \A p \in Req \ {r} : Kept(p)
        /\ req'[r] = x
      BY <1>2, <2>1, <2>4, OneRequest
  <2>6. faults' \in Nat /\ faults' >= faults
      BY <1>2, <1>5
  <2>7. TypeOK'
      BY <1>1, <1>2, <2>5, <2>6, TablesKept, TypesKept
  <2>8. TaskOK'
      BY <1>1, <1>2, <2>6, TaskUndisturbed
  <2>9. /\ (RowLocks /\ SlotsEmpty)' /\ \A p \in Req : SnapshotOK(p)'
        /\ \A k \in Candidate : HistoryOK(k)'
    <3>1. ~InTransaction(r)' /\ ~At(r, "idle")'
        BY <2>4, <2>5 DEF InTransaction, At
    <3> QED
        BY <1>1, <2>5, <3>1, OutsideTransaction
  <2>10. \A k \in Candidate : StandingOK(k)'
    <3> TAKE k \in Candidate
    <3>1. ASSUME WillRecord(r, k) PROVE WillRecord(r, k)'
      <4>1. k = c /\ req[r].by = rows[c].by
            /\ \/ rows[c].st = req[r].decision
               \/ (rows[c].st = "needs_second_review" /\ req[r].decision \in Final)
          BY <1>2, <1>3, <3>1 DEF WillRecord, At
      <4>2. x.action = RecordOfStanding(c).action
          BY <1>2, <2>2, <2>4, <4>1, ActionOfStanding
      <4>3. RecordOfStanding(c)' = RecordOfStanding(c)
          BY <1>1 DEF RecordOfStanding
      <4> QED
          BY <1>1, <2>4, <2>5, <4>1, <4>2, <4>3 DEF WillRecord, At
    <3>2. rows'[k] = rows[k] /\ verdicts \subseteq verdicts'
        BY <1>1
    <3> QED
        BY <2>5, <2>6, <3>1, <3>2, OthersStand
  <2> QED
      BY <2>7, <2>8, <2>9, <2>10 DEF IInv
<1> QED
    BY <1>3, <1>4, <1>5 DEF ReadAgain, list_search_candidates

LEMMA RecordKeeps ==
    ASSUME IInv, NEW r \in Req, NEW o \in Outcome, RecordDecision(r, o)
    PROVE  IInv'
<1> DEFINE v == [cand |-> req[r].cand, by |-> req[r].by, action |-> req[r].action]
<1>1. /\ At(r, "record")
      /\ UNCHANGED <<config, search, rows, events, recorded, job>>
      /\ verdicts' = IF o = "failed" THEN verdicts ELSE verdicts \cup {v}
    BY DEF RecordDecision, caseVars
<1>2. faults' \in Nat /\ faults' >= faults /\ (o # "ok" => faults' = faults + 1)
    BY Counting DEF IInv, TypeOK, RecordDecision
<1>3. TypeOK /\ faults \in Nat /\ RequestOK(req[r]) /\ req[r].pc = "record"
  <2>1. TypeOK
      BY DEF IInv
  <2>2. faults \in Nat /\ RequestOK(req[r])
      BY <2>1 DEF TypeOK
  <2> QED
      BY <1>1, <2>1, <2>2 DEF At
<1>4. /\ v \in [cand : Candidate, by : Reviewer, action : Action]
      /\ verdicts \subseteq verdicts'
    BY <1>1, <1>3 DEF RequestOK
<1>5. verdicts' \subseteq [cand : Candidate, by : Reviewer, action : Action]
    BY <1>1, <1>3, <1>4 DEF TypeOK
<1>6. RequestOK(Idle) /\ Idle.pc = "idle" /\ Idle.cand = None
    BY DEF RequestOK, Idle, RowStatus
<1>7. /\ DOMAIN req' = Req /\ \A p \in Req : RequestOK(req[p])'
      /\ \A p \in Req \ {r} : Kept(p)
      /\ req'[r] = Idle
  <2>1. \/ req' = [req EXCEPT ![r] = Idle]
        \/ req' = Committed([req EXCEPT ![r] = Idle])
      BY DEF RecordDecision
  <2> QED
      BY <1>3, <1>6, <2>1, OneRequest
<1>8. TypeOK'
  <2>1. /\ DOMAIN rows' = Candidate /\ \A c \in Candidate : RowOK(rows[c])'
        /\ events' \in [Candidate -> Seq([by : Reviewer, decision : Decision])]
    <3>1. \A c \in Candidate : RowOK(rows[c])'
        BY <1>1, <1>3 DEF TypeOK, RowOK
    <3> QED
        BY <1>1, <1>3, <3>1 DEF TypeOK
  <2> QED
      BY <1>1, <1>2, <1>3, <1>5, <1>7, <2>1, TypesKept
<1>9. TaskOK'
    BY <1>1, <1>2, <1>3, TaskUndisturbed
<1>10. /\ (RowLocks /\ SlotsEmpty)' /\ \A p \in Req : SnapshotOK(p)'
       /\ \A c \in Candidate : HistoryOK(c)'
  <2>1. ~InTransaction(r)' /\ req'[r].cand = None
      BY <1>6, <1>7 DEF InTransaction, At
  <2> QED
      BY <1>1, <1>7, <2>1, OutsideTransaction
<1>11. \A c \in Candidate : StandingOK(c)'
  <2> TAKE c \in Candidate
  <2>1. CASE o = "failed"
      BY <1>2, <1>3, <2>1 DEF StandingOK
  <2>2. CASE o # "failed"
    <3>1. ASSUME WillRecord(r, c) PROVE RecordOfStanding(c) \in verdicts'
      <4>1. RecordOfStanding(c) = v
          BY <1>3, <3>1 DEF WillRecord, RecordOfStanding, At
      <4> QED
          BY <1>1, <2>2, <4>1
    <3>2. rows'[c] = rows[c]
        BY <1>1
    <3> QED
        BY <1>2, <1>4, <1>7, <3>1, <3>2, OthersStand
  <2> QED
      BY <2>1, <2>2
<1> QED
    BY <1>8, <1>9, <1>10, <1>11 DEF IInv

-----------------------------------------------------------------------------
\* The theorems.

LEMMA StutterIInv == IInv /\ UNCHANGED vars => IInv'
<1> SUFFICES ASSUME IInv, UNCHANGED vars PROVE IInv'
    OBVIOUS
<1> USE DEF vars, caseVars
<1>1. TypeOK'
  <2>1. SearchOK' /\ JobOK' /\ \A c \in Candidate : RowOK(rows[c])'
      BY DEF IInv, TypeOK, SearchOK, JobOK, RowOK
  <2>2. \A r \in Req : RequestOK(req[r])'
      BY DEF IInv, TypeOK, RequestOK
  <2> QED
      BY <2>1, <2>2 DEF IInv, TypeOK
<1>2. TaskOK'
    BY DEF IInv, TaskOK, NothingListed, InTransaction, At, CompletedIsRecorded,
           EvidenceAfterRecord, EndedTaskSettles
<1>3. RowLocks' /\ SlotsEmpty' /\ \A r \in Req : SnapshotOK(r)'
    BY DEF IInv, RowLocks, SlotsEmpty, SnapshotOK, InTransaction, At, target_status,
           SameReviewerForbidden
<1>4. \A c \in Candidate : HistoryOK(c)' /\ StandingOK(c)'
    BY DEF IInv, HistoryOK, StandingOK, WillRecord, RecordOfStanding, At
<1> QED
    BY <1>1, <1>2, <1>3, <1>4 DEF IInv

LEMMA NextIInv == IInv /\ [Next]_vars => IInv'
<1> SUFFICES ASSUME IInv, [Next]_vars PROVE IInv'
    OBVIOUS
<1>1. ASSUME NEW o \in Outcome, create_queued_search(o) PROVE IInv'
    BY <1>1, CreateKeeps
<1>2. CASE RunJob
    BY <1>2, ProviderKeeps, FinalizeKeeps, CompletionKeeps, FailureKeeps, EvidenceKeeps
    DEF RunJob
<1>3. ASSUME NEW r \in Req, Review(r) PROVE IInv'
    BY <1>3, SelectKeeps, WriteKeeps, RecordKeeps, RefusedKeeps, ReadKeeps DEF Review
<1>4. ASSUME NEW r \in Req, DropRequest(r) PROVE IInv'
    BY <1>4, DropKeeps
<1>5. CASE Restart
    BY <1>5, RestartKeeps
<1>6. CASE UNCHANGED vars
    BY <1>6, StutterIInv
<1> QED
    BY <1>1, <1>2, <1>3, <1>4, <1>5, <1>6 DEF Next

\* The inductive invariant holds in every behaviour of the search and its reviews.
THEOREM SearchInvariance == Spec => []IInv
<1>1. Init => IInv
    BY InitIInv
<1>2. IInv /\ [Next]_vars => IInv'
    BY NextIInv
<1> QED
    BY <1>1, <1>2, PTL DEF Spec

\* Every variable has its type (search.rs, db/mod.rs:1480).
THEOREM SearchTypeCorrect == Spec => []TypeOK
<1>1. IInv => TypeOK
    BY DEF IInv
<1> QED
    BY <1>1, SearchInvariance, PTL

\* Under four eyes no candidate is confirmed or rejected but by two different
\* reviewers in a row, on either database and however the transactions of
\* record_review_decision interleave (db/mod.rs:1670).
THEOREM FinalTakesTwo == Spec => []TwoReviewers
<1>1. IInv => TwoReviewers
  <2> SUFFICES ASSUME IInv, config.second, NEW c \in Candidate, rows[c].st \in Final
               PROVE  LET n == Len(events[c])
                      IN /\ n >= 2
                         /\ events[c][n - 1].decision \in Final
                         /\ events[c][n] = [by |-> rows[c].by, decision |-> rows[c].st]
                         /\ events[c][n - 1].by # events[c][n].by
      BY DEF TwoReviewers
  <2> DEFINE n == Len(events[c])
  <2>1. rows[c].by # None
      BY DEF IInv, TypeOK, RowOK, Final
  <2>2. /\ n >= 2 /\ events[c][n - 1].decision \in Final
        /\ events[c][n - 1].by # events[c][n].by
        /\ events[c][n].by = rows[c].by /\ events[c][n].decision = rows[c].st
      BY <2>1 DEF IInv, HistoryOK, Final
  <2>3. events[c][n] \in [by : Reviewer, decision : Decision]
    <3>1. events[c] \in Seq([by : Reviewer, decision : Decision])
        BY DEF IInv, TypeOK
    <3>2. \A S : events[c] \in Seq(S) => \A i \in 1..Len(events[c]) : events[c][i] \in S
        OBVIOUS
    <3>3. n \in Nat
        BY <3>1
    <3> QED
      <4>1. n \in 1..Len(events[c])
          BY <2>2, <3>3
      <4> QED
          BY <3>1, <3>2, <4>1
  <2> QED
      BY <2>2, <2>3
<1> QED
    BY <1>1, SearchInvariance, PTL

\* With no fault, the decision that stands is in the audit log once nobody works on
\* the candidate, although the action is chosen from a later read (search.rs:888).
THEOREM StandingIsRecorded == Spec => []StandingDecisionRecorded
<1>1. IInv => StandingDecisionRecorded
    BY DEF IInv, StandingDecisionRecorded, StandingOK, WillRecord
<1> QED
    BY <1>1, SearchInvariance, PTL

\* One failing statement never leaves a completed search without its record, if its
\* task runs to the end (search.rs:310).
THEOREM CompletionIsRecorded == Spec => []CompletedIsRecorded
<1>1. IInv => CompletedIsRecorded
    BY DEF IInv, TaskOK
<1> QED
    BY <1>1, SearchInvariance, PTL

\* External evidence presupposes the record of the search (search.rs:326).
THEOREM EvidenceIsBacked == Spec => []EvidenceAfterRecord
<1>1. IInv => EvidenceAfterRecord
    BY DEF IInv, TaskOK
<1> QED
    BY <1>1, SearchInvariance, PTL

\* A task that runs to its end leaves its search settled unless too much failed
\* (search.rs:302).
THEOREM EndedTasksSettle == Spec => []EndedTaskSettles
<1>1. IInv => EndedTaskSettles
    BY DEF IInv, TaskOK
<1> QED
    BY <1>1, SearchInvariance, PTL

-----------------------------------------------------------------------------
\* Searches implements CaseFile.

promised == <<config, search, rows, events>>

\* A decision that is written is one decision of the case file.
LEMMA WriteDecides ==
    ASSUME IInv, NEW r \in Req, NEW o \in Outcome, WriteDecision(r, o)
    PROVE  UNCHANGED promised \/ Promise!Next
<1>1. CASE o = "failed"
    BY <1>1 DEF WriteDecision, promised
<1>2. CASE o # "failed"
  <2>1. RequestOK(req[r]) /\ req[r].pc = "write"
      BY DEF IInv, TypeOK, WriteDecision, InTransaction, At
  <2>2. PICK c \in Candidate : c = req[r].cand
      BY <2>1 DEF RequestOK
  <2>3. PICK u \in Reviewer, d \in Decision : u = req[r].by /\ d = req[r].decision
      BY <2>1 DEF RequestOK
  <2>4. PICK t \in {d, "needs_second_review"} : t = req[r].target
      BY <2>1, <2>3 DEF RequestOK
  <2>5. /\ rows[c].st # "absent" /\ t = target_status(rows[c], d)
        /\ ~SameReviewerForbidden(rows[c], u, d)
      BY <2>2, <2>3, <2>4 DEF IInv, SnapshotOK, WriteDecision
  <2>6. /\ rows' = [rows EXCEPT ![c] = [st |-> t, by |-> u]]
        /\ events' = [events EXCEPT ![c] = Append(@, [by |-> u, decision |-> d])]
        /\ UNCHANGED <<config, search>>
      BY <1>2, <2>2, <2>3, <2>4 DEF WriteDecision
  <2>7. config.second \in BOOLEAN
      BY DEF IInv, TypeOK
  <2>8. \/ (d = "inconclusive" \/ ~config.second) /\ t = d
        \/ /\ d \in {"confirmed", "rejected"} /\ config.second
           /\ rows[c].st = "needs_second_review" /\ rows[c].by # u
           /\ t = d
        \/ /\ d \in {"confirmed", "rejected"} /\ config.second
           /\ rows[c].st # "needs_second_review"
           /\ t = "needs_second_review"
      BY <2>5, <2>7 DEF target_status, SameReviewerForbidden, Decision, Final
  <2>9. Promise!Decide(c, u, d, t)
      BY <2>5, <2>6, <2>8 DEF Promise!Decide
  <2>10. /\ d \in {"confirmed", "rejected", "inconclusive"}
         /\ t \in {"confirmed", "rejected", "inconclusive", "needs_second_review"}
      BY DEF Decision, Final
  <2> QED
      BY <2>9, <2>10 DEF Promise!Next
<1> QED
    BY <1>1, <1>2

\* Every step of the task is one step of the case file, or none.
LEMMA TaskStepsMap ==
    ASSUME IInv, RunJob
    PROVE  UNCHANGED promised \/ Promise!Next
<1>1. CASE RunProvider
    BY <1>1 DEF RunProvider, promised, caseVars
<1>2. ASSUME NEW o \in Outcome, finalize_queued_search(o)
      PROVE  UNCHANGED promised \/ Promise!Complete
  <2>1. search.status = "queued" /\ \A c \in Candidate : rows[c] = NotListed
      BY <1>2 DEF IInv, TaskOK, NothingListed, finalize_queued_search, JobAt
  <2>2. CASE o = "failed"
      BY <1>2, <2>2 DEF finalize_queued_search, promised
  <2>3. CASE o # "failed"
    <3>1. /\ search' = [search EXCEPT !.status = "completed"]
          /\ rows' = [c \in Candidate |-> IF c \in job.ranked THEN Listed ELSE rows[c]]
          /\ UNCHANGED <<config, events>>
        BY <1>2, <2>3 DEF finalize_queued_search
    <3>2. job.ranked \in SUBSET Candidate
        BY DEF IInv, TypeOK, JobOK
    <3>3. rows' = [c \in Candidate |-> IF c \in job.ranked
                                       THEN [st |-> "pending", by |-> None]
                                       ELSE Promise!NotListed]
        BY <2>1, <3>1 DEF Listed, NotListed, Promise!NotListed
    <3> QED
        BY <2>1, <3>1, <3>2, <3>3 DEF Promise!Complete
  <2> QED
      BY <2>2, <2>3
<1>3. ASSUME NEW o \in Outcome, RecordCompletion(o) PROVE UNCHANGED promised
    BY <1>3 DEF RecordCompletion, promised, caseVars
<1>4. ASSUME NEW o \in Outcome, mark_queued_search_failed(o)
      PROVE  \/ UNCHANGED promised
             \/ \E code \in {"provider", "persist", "audit"} : Promise!FailWith(code)
  <2>1. PICK code : code = job.code
      OBVIOUS
  <2>2. /\ code \in {"provider", "persist", "audit"} /\ ~search.evidence
        /\ search.status \in {"queued", "completed"}
        /\ code = "provider" => search.status = "queued"
      BY <1>4, <2>1 DEF IInv, TypeOK, TaskOK, JobOK, mark_queued_search_failed, JobAt
  <2>3. UNCHANGED <<config, rows, events>>
      BY <1>4 DEF mark_queued_search_failed
  <2>4. CASE o = "failed"
      BY <1>4, <2>4 DEF mark_queued_search_failed, promised
  <2>5. CASE o # "failed"
    <3>1. search' = [search EXCEPT !.status = "failed", !.code = code]
        BY <1>4, <2>1, <2>5 DEF mark_queued_search_failed, failed_row
    <3>2. Promise!FailWith(code)
        BY <2>2, <2>3, <3>1 DEF Promise!FailWith
    <3> QED
        BY <2>2, <3>2
  <2> QED
      BY <2>4, <2>5
<1>5. ASSUME NEW o \in Outcome, run_auto_osint(o)
      PROVE  UNCHANGED promised \/ Promise!AttachEvidence
    BY <1>5 DEF run_auto_osint, evidence_row, promised, Promise!AttachEvidence, IInv,
                TaskOK, JobAt
<1> QED
    BY <1>1, <1>2, <1>3, <1>4, <1>5 DEF RunJob, Promise!Next

\* To those who look at the tables, the task and the reviewers are the sequential case
\* file: one list, one failure, one decision at a time, on either database
\* (db/mod.rs:1670 to 1810).
THEOREM SearchesRefine == Spec => FollowsCaseFile
<1>1. Init => Promise!Init
    BY DEF Init, Promise!Init, NotListed, Promise!NotListed
<1>2. IInv /\ [Next]_vars => [Promise!Next]_promised
  <2> SUFFICES ASSUME IInv, [Next]_vars PROVE UNCHANGED promised \/ Promise!Next
      OBVIOUS
  <2>1. ASSUME NEW o \in Outcome, create_queued_search(o)
        PROVE  UNCHANGED promised \/ Promise!Queue
      BY <2>1 DEF create_queued_search, queued_row, promised, Promise!Queue
  <2>2. CASE RunJob
      BY <2>2, TaskStepsMap
  <2>3. ASSUME NEW r \in Req, Review(r) PROVE UNCHANGED promised \/ Promise!Next
    <3>1. ASSUME NEW o \in Outcome, WriteDecision(r, o)
          PROVE  UNCHANGED promised \/ Promise!Next
        BY <3>1, WriteDecides
    <3>2. ASSUME \/ \E c \in Candidate, u \in Reviewer, d \in Decision :
                       SelectCandidate(r, c, u, d)
                 \/ \E o \in Outcome : RecordDecision(r, o)
                 \/ WriteRefused(r) \/ ReadAgain(r)
          PROVE  UNCHANGED promised
        BY <3>2 DEF SelectCandidate, RecordDecision, WriteRefused, ReadAgain, promised,
                    caseVars
    <3> QED
        BY <2>3, <3>1, <3>2 DEF Review
  <2>4. ASSUME NEW r \in Req, DropRequest(r) PROVE UNCHANGED promised
      BY <2>4 DEF DropRequest, promised, caseVars
  <2>5. CASE Restart
      BY <2>5 DEF Restart, promised, caseVars
  <2>6. CASE UNCHANGED vars
      BY <2>6 DEF vars, promised, caseVars
  <2> QED
      BY <2>1, <2>2, <2>3, <2>4, <2>5, <2>6 DEF Next, Promise!Next
<1>3. Spec => Promise!Spec
    BY <1>1, <1>2, SearchInvariance, PTL DEF Spec, Promise!Spec, promised
<1> QED
    BY <1>3 DEF FollowsCaseFile
=============================================================================
