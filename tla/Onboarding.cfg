\* Seeding, registration and approval by panel or by link, from an empty database.
CONSTANTS
    u1 = u1  u2 = u2  adm = adm  adm2 = adm2  p1 = p1  p2 = p2
    None = None
    User = {u1, adm}
    Password = {p1}
    Family = {f1}
    Token = {t1}
    OneTime = {k1}
    Req = {r1, r2}
    Ops = {"seed_admin", "register", "create_user", "login", "approve", "reject",
           "quick_approve", "quick_reject", "role"}
    Faults = {"db"}
    RoleInputs = {"OPERATOR"}
    SeedUser = adm
    InitUsers <- Nobody
    InitAccess <- NoAccess
SYMMETRY Symmetry
SPECIFICATION Spec
INVARIANTS LinkActsOnce PendingNeverSignsIn
