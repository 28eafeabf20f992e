SPECIFICATION SlaSpec
CONSTANTS
    Policies = {p1, p2}
    Builtin = {p1}
    Names = {n1, n2}
    Kinds = {count, age}
    OtherKinds = {days}
    Calls = {c1, c2}
    None = None
SYMMETRY SlaSymmetry
INVARIANTS
    SlaTypeOK
    FailsOnlyIfRaced
    AnsweredIsStored
PROPERTY UpdateChangesOnlyWanted
