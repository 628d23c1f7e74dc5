\* One listing by a user outside the organization, and one failed read.
CONSTANTS
    None = None
    NoOne = None
    User = {u1, adm}
    Admins = {adm}
    Org = {o1}
    Unit = {n1}
    Candidate = {c1, c2}
    Template = {t1}
    Look = {l1}
    Score <- MCScore
    DUPLICATE_TEMPLATE_SIMILARITY_THRESHOLD = 2
    top_k = 1
    warned_k = 1
    Item = {i1}
    KeyOf <- MCKeyOf
    Search = {s1}
    Req = {r1, r2}
    Scenarios <- MCScenarios
    MaxFaults = 1
SPECIFICATION Spec
INVARIANT ListsInScope
CHECK_DEADLOCK FALSE
