\* Small modules: is the DefId of a name found at the span that defines it?
SPECIFICATION Spec
CONSTANTS
    Names = {"x"}
    Bound = {"x"}
    Prelude = {}
    MaxNodes = 4
    MaxOperands = 2
    PatternLists <- MCOneName
    Constructs <- Kinds
INVARIANTS
    DefinitionsRecorded
