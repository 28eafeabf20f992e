SPECIFICATION SessionSpec
CONSTANTS
    Agents = {A, B}
    Local = A
    Names = {default, work}
    Default = default
    Calls = {c1, c2}
    MaxEdits = 2
    None = None
SYMMETRY SessionSymmetry
INVARIANTS
    SessionTypeOK
    RestartKeepsProfiles
    AgentShownIsUsed
