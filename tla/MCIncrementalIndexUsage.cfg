SPECIFICATION Spec
CONSTANTS
    Files <- MCFiles
    Walk <- MCWalk
    Texts <- MCTexts
    Supported = {"m", "a", "b", "g"}
    Fragile = {"b"}
    Stem <- MCStem
    Parent <- MCParent
    Ancestors <- MCAncestors
    Root = "/"
    Limits = {2, 5}
    None = None
INVARIANTS
    UsageMatchesFull
