SPECIFICATION PagesSpec
CONSTANTS
    Assets = {a1}
    Policies = {p1}
    Copies = {k1}
    Calls = {c1, c2}
    None = None
SYMMETRY PageSymmetry
INVARIANTS
    EditedPolicyIsFound
