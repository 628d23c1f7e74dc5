\* One request at a time, none failing, on two administrators.
CONSTANTS
    u1 = u1  u2 = u2  adm = adm  adm2 = adm2  p1 = p1  p2 = p2
    None = None
    User = {adm, adm2}
    Password = {p1, p2}
    Family = {f1}
    Token = {t1}
    OneTime = {k1}
    Req = {r1}
    Ops = {"ban", "unban", "delete", "role", "update",
           "forgot_password", "reset_password"}
    Faults = {}
    RoleInputs = {"OPERATOR", "SYSTEM_ADMIN"}
    SeedUser = adm
    InitUsers <- TwoAdmins
    InitAccess <- AdminTokens
SPECIFICATION Spec
INVARIANT ActiveAdminRemains
