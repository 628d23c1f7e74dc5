\* Two review requests of two reviewers on one search, either database, with and
\* without four eyes and automatic OSINT.
CONSTANTS
    None = None
    Candidate = {c1}
    Reviewer = {u1, u2}
    Req = {r1, r2}
    Backends = {"postgres", "sqlite"}
    MaxReviews = 3
    MaxFaults = 1
SYMMETRY Symmetry
SPECIFICATION Spec
INVARIANTS TypeOK TwoReviewers StandingDecisionRecorded CompletedIsRecorded
    EvidenceAfterRecord EndedTaskSettles
PROPERTY FollowsCaseFile
CHECK_DEADLOCK FALSE
