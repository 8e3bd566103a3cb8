\* Modules of at most 6 syntax nodes that define one name, and use it or another.
SPECIFICATION Spec
CONSTANTS
    Names = {"x", "y"}
    Bound = {"x"}
    Prelude = {"x"}
    MaxNodes = 6
    MaxOperands = 2
    PatternLists <- MCPatternLists
    Constructs <- Kinds
INVARIANTS
    TypeOK
    ScopesNest
    LexicalScoping
