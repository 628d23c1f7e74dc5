\* Ban, unban, delete and role changes against sign-in and refresh.
CONSTANTS
    u1 = u1  u2 = u2  adm = adm  adm2 = adm2  p1 = p1  p2 = p2
    None = None
    User = {u1, adm}
    Password = {p1}
    Family = {f1}
    Token = {t1, t2}
    OneTime = {k1}
    Req = {r1, r2}
    Ops = {"login", "refresh", "ban", "role"}
    Faults = {}
    RoleInputs = {"AUDITOR"}
    SeedUser = u1
    InitUsers <- OperatorAndLeavingAdmin
    InitAccess <- AdminToken
SPECIFICATION FairSpec
PROPERTIES BarredUserLosesAccess RoleInTokensSettles
