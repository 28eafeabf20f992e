SPECIFICATION DialogsSpec
CONSTANTS
    Tree <- MCTree
    MaxPaths = 2
    MaxDepth = 3
    Loads = {l1, l2}
    None = None
    Cap = 2
    MaxNotes = 4
    MaxToasts = 2
    Messages = {m1, m2}
    Pages = {"home", "settings"}
    Assets = {"asset"}
    Jobs = {"job"}
    Queries = {"all", "as", "s"}
    Everything = "all"
    Matches <- MCMatches
SYMMETRY DialogSymmetry
INVARIANTS
    FormsTypeOK
    EditKeepsConfig
    PickedIsListed
    ShellTypeOK
    PaletteHighlights
