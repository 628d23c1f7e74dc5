\* Two requests of one account, both methods, failing statements.
CONSTANTS
    None = None
    Req = {r1, r2}
    Secret = {s1, s2}
    EmailCode = {c1, c2}
    Batch = {b1, b2}
    SetSize = 1
    Methods = {"totp", "email"}
    Faults = {"db", "abort"}
SYMMETRY Symmetry
SPECIFICATION Spec
INVARIANTS TypeOK CodesActOnce PendingSecretActsNowhere SessionsTakeCodes
PROPERTY EnabledByItsOwnCode
