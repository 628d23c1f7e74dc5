\* Concurrent sign-in, refresh and sign-out on two accounts.
CONSTANTS
    u1 = u1  u2 = u2  adm = adm  adm2 = adm2  p1 = p1  p2 = p2
    None = None
    User = {u1, u2}
    Password = {p1}
    Family = {f1, f2}
    Token = {t1, t2, t3}
    OneTime = {k1}
    Req = {r1, r2}
    Ops = {"login", "refresh", "logout", "logout_all", "revoke_own_session"}
    Faults = {"db", "abort"}
    RoleInputs = {"OPERATOR"}
    SeedUser = u1
    InitUsers <- TwoOperators
    InitAccess <- NoAccess
SYMMETRY Symmetry
SPECIFICATION Spec
INVARIANTS TypeOK TokensNameTheirSession
PROPERTY SessionsFollowLifecycle
