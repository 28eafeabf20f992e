SPECIFICATION ProtectionSpec
CONSTANTS
    Assets = {a1, a2}
    Targets = {a1}
    Policies = {builtin, p1}
    Jobs = {j1, j2}
    Builtin = {builtin}
    Calls = {c1, c2}
    None = None
SYMMETRY CallSymmetry
INVARIANTS
    ProtectionTypeOK
    NothingDangles
    ProtectedHasPolicy
    RefusedDeleteHasReason
PROPERTIES
    UpdateKeepsProtection
    JobsStartProtected
