\* Two requests at a time of any kind on either database, with memberships that
\* change, one fault (a failed or lost statement, a dropped handler or a restart).
CONSTANTS
    None = None
    NoOne = None
    User = {u1, adm}
    Admins = {adm}
    Org = {o1}
    Unit = {n1}
    Candidate = {c1, c2, c3}
    Template = {t1, t2, t3}
    Look = {l1, l2}
    Score <- MCScore
    DUPLICATE_TEMPLATE_SIMILARITY_THRESHOLD = 2
    top_k = 1
    warned_k = 1
    Item = {i1, i2}
    KeyOf <- MCKeyOf
    Search = {s1}
    Req = {r1, r2}
    Scenarios <- MCScenarios
    MaxFaults = 1
SYMMETRY Symm
SPECIFICATION Spec
INVARIANTS TypeOK ScopeDecides StampedByCreator AnsweredIsRecorded RevocationIsFinal
    LookalikesWarned CollectedOnce EnrolledIsFound
CHECK_DEADLOCK FALSE
