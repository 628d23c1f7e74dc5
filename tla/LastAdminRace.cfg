\* Two administrator requests at once on two administrators.
CONSTANTS
    u1 = u1  u2 = u2  adm = adm  adm2 = adm2  p1 = p1  p2 = p2
    None = None
    User = {adm, adm2}
    Password = {p1}
    Family = {f1}
    Token = {t1}
    OneTime = {k1}
    Req = {r1, r2}
    Ops = {"ban", "delete"}
    Faults = {}
    RoleInputs = {"OPERATOR"}
    SeedUser = adm
    InitUsers <- TwoAdmins
    InitAccess <- AdminTokens
SPECIFICATION Spec
INVARIANT ActiveAdminRemains
