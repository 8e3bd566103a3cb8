\* Modules of at most 6 syntax nodes, of the constructs that the checks after
\* resolution tell apart.
SPECIFICATION LowerSpec
CONSTANTS
    Names = {"x"}
    Bound = {"x"}
    Prelude = {"x"}
    MaxNodes = 6
    MaxOperands = 2
    PatternLists <- MCPatternLists
    Constructs <- MCConstructs
INVARIANTS
    TypesOK
    LocalsTyped
    ItemsTyped
    AssignmentsChecked
    LocalsRead
